-------------------------- MODULE ReleaseLaneProofs --------------------------
(***************************************************************************)
(* TLAPS proofs about ReleaseLane, for every set of modules, every bound   *)
(* and every lock age.                                                     *)
(*                                                                         *)
(* The inductive invariant IInv has one part per reason the pipeline is    *)
(* right: the lane runs one run at a time (LaneInv), what version-check    *)
(* established about a run's commit (ReviewedInv), the order of the tags   *)
(* that are there (LatestInv) and the properties themselves.               *)
(***************************************************************************)
EXTENDS ReleaseLane, TLAPS

\* One run is in progress and one is pending; run i exists once commit i does.
LaneInv ==
  /\ \A r \in RunIds : stage[r] \in LiveStages <=> r = running
  /\ \A r \in RunIds : stage[r] = "pending" <=> r = pending
  /\ \A r \in RunIds : stage[r] = "none" <=> r > Len(main)
  /\ pending # 0 => running # 0

\* What the jobs before the release job established about a run's commit.
ReviewedInv ==
  \A r \in RunIds :
    /\ stage[r] \in {"version_check"} \cup ReleaseStages => main[r].scope \in Units
    /\ stage[r] \in ReleaseStages => main[r].pr /\ main[r].bump = main[r].squash

\* A release commit has no pull request.
BotInv == \A i \in 1..Len(main) : main[i].via \in Bots => ~main[i].pr

\* The tags of a unit have a greatest version.
LatestInv ==
  \A u \in Units : VersionsOf(u) = {} \/ \E v \in VersionsOf(u) : IsLatest(v, VersionsOf(u))

\* A run whose tag exists is past its push.
SourceInv ==
  \A t \in tags : stage[t.src] \in {"publish"} \cup UnlockStages \cup EndStages

IInv ==
  /\ TypeOK
  /\ LaneInv
  /\ ReviewedInv
  /\ BotInv
  /\ LatestInv
  /\ SourceInv
  /\ ReleaseUnderProtection
  /\ LockedBaseMovedOnlyByAdmins
  /\ NoDanglingTag
  /\ VersionsFollowMain
  /\ VersionStaysNext
  /\ OneReleasePerPullRequest

-----------------------------------------------------------------------------
USE DEF RunIds

\* A run that stands before one of its steps is the run in progress.
LEMMA LiveIsRunning ==
  ASSUME LaneInv, NEW r \in RunIds, stage[r] \in LiveStages
  PROVE  r = running /\ r <= Len(main)
  BY DEF LaneInv, LiveStages, ValidationStages, ReleaseStages, UnlockStages

LEMMA LaneInvGo ==
  ASSUME TypeOK, LaneInv, NEW r \in RunIds, stage[r] \in LiveStages,
         NEW to \in LiveStages, Go(r, to), main' = main
  PROVE  LaneInv'
  BY DEF TypeOK, LaneInv, Go, LiveStages, ValidationStages, ReleaseStages, UnlockStages

LEMMA LaneInvEnd ==
  ASSUME TypeOK, LaneInv, NEW r \in RunIds, stage[r] \in LiveStages,
         NEW how \in EndStages, EndRun(r, how), main' = main
  PROVE  LaneInv'
  BY DEF TypeOK, LaneInv, EndRun, LiveStages, ValidationStages, ReleaseStages, UnlockStages,
         EndStages

LEMMA LaneInvCreate ==
  ASSUME TypeOK, LaneInv, NEW n, n = Len(main) + 1, n <= MaxCommits,
         NEW c \in Commits, main' = Append(main, c), CreateRun(n), stage' = Queued(n)
  PROVE  LaneInv'
<1> USE DEF LiveStages, ValidationStages, ReleaseStages, UnlockStages, EndStages, Stages
<1>1. Len(main) \in Nat /\ Len(main') = n /\ n \in RunIds
  BY BoundsAssumption DEF TypeOK
<1>2. stage[n] = "none" /\ n # running /\ n # pending
  BY <1>1 DEF LaneInv
<1>3. running \in 0..MaxCommits /\ pending \in 0..MaxCommits
  BY DEF TypeOK
<1>4. CASE running = 0
  <2>1. running' = n /\ pending' = pending /\ pending = 0
    BY <1>4 DEF CreateRun, LaneInv
  <2>2. \A r \in RunIds : stage'[r] = IF r = n THEN "skip_check" ELSE stage[r]
    BY <1>4 DEF Queued
  <2> QED BY <1>1, <1>2, <1>3, <1>4, <2>1, <2>2 DEF LaneInv
<1>5. CASE running # 0
  <2>1. running' = running /\ pending' = n
    BY <1>5 DEF CreateRun
  <2>2. \A r \in RunIds : stage'[r] = IF r = n THEN "pending"
                                      ELSE IF r = pending THEN "superseded" ELSE stage[r]
    BY <1>5 DEF Queued
  <2> QED BY <1>1, <1>2, <1>3, <1>5, <2>1, <2>2 DEF LaneInv
<1> QED BY <1>4, <1>5

-----------------------------------------------------------------------------
(***************************************************************************)
(* Versions.                                                               *)
(***************************************************************************)

\* A bump yields a version that comes after the one it was applied to.
LEMMA ApplyBumpFacts ==
  ASSUME NEW v \in Versions, NEW b
  PROVE  ApplyBump(v, b) \in Versions /\ Less(v, ApplyBump(v, b))
  BY DEF ApplyBump, Less, Versions

LEMMA LessTransitive ==
  ASSUME NEW u \in Versions, NEW v \in Versions, NEW w \in Versions, Less(u, v), Less(v, w)
  PROVE  Less(u, w)
  BY DEF Less, Versions

LEMMA LessIrreflexive ==
  ASSUME NEW v \in Versions
  PROVE  ~ Less(v, v)
  BY DEF Less, Versions

\* The next version of a set of versions that has a latest one comes after all
\* of them.
LEMMA NextVersionFacts ==
  ASSUME NEW vs \in SUBSET Versions, NEW b,
         vs = {} \/ \E v \in vs : IsLatest(v, vs)
  PROVE  /\ NextVersion(vs, b) \in Versions
         /\ \A w \in vs : Less(w, NextVersion(vs, b))
<1> DEFINE latest == FindLatest(vs)
<1>1. latest \in Versions /\ \A w \in vs : w = latest \/ Less(w, latest)
  <2>1. CASE vs = {}
    BY <2>1 DEF FindLatest, Versions
  <2>2. CASE vs # {}
    <3>1. IsLatest(latest, vs)
      BY <2>2 DEF FindLatest
    <3> QED BY <3>1 DEF IsLatest
  <2> QED BY <2>1, <2>2
<1>2. NextVersion(vs, b) \in Versions /\ Less(latest, NextVersion(vs, b))
  BY <1>1, ApplyBumpFacts DEF NextVersion
<1>3. ASSUME NEW w \in vs PROVE Less(w, NextVersion(vs, b))
  BY <1>1, <1>2, LessTransitive
<1> QED BY <1>2, <1>3

LEMMA VersionsOfType ==
  ASSUME TypeOK, NEW u
  PROVE  VersionsOf(u) \in SUBSET Versions
  BY DEF TypeOK, VersionsOf, Tags

-----------------------------------------------------------------------------
(***************************************************************************)
(* The shape of the steps.                                                 *)
(***************************************************************************)

\* Every step of a run but its push.
QuietStep(r) ==
  \/ SkipCheck(r) \/ Validations(r) \/ VersionCheck(r)
  \/ WriteLockMarker(r) \/ EnableProtection(r)
  \/ GitFetch(r) \/ CheckStaleness(r) \/ GitReset(r) \/ GhRelease(r)
  \/ UnlockFindsMarker(r) \/ UnlockNoOp(r) \/ DeleteLockMarker(r) \/ DisableBranchLock(r)
  \/ StepFails(r) \/ RunLost(r) \/ UnlockReadFails(r)

\* The watchdog and the clock.
OtherStep == Watchdog \/ Tick

\* The moves a quiet step of run r can make in the pipeline.
Moves(r) ==
  \/ stage[r] = "skip_check" /\ Go(r, "validations")
  \/ stage[r] = "validations" /\ main[r].scope \in Units /\ Go(r, "version_check")
  \/ /\ stage[r] = "version_check" /\ main[r].pr /\ main[r].bump = main[r].squash
     /\ next' = [next EXCEPT ![r] = NextVersion(VersionsOf(main[r].scope), main[r].bump)]
     /\ Go(r, "lock")
  \/ stage[r] = "lock" /\ Go(r, "protect")
  \/ stage[r] = "protect" /\ protection' = TRUE /\ Go(r, "fetch")
  \/ stage[r] = "fetch" /\ origin' = [origin EXCEPT ![r] = Len(main)] /\ Go(r, "staleness")
  \/ stage[r] = "staleness" /\ Go(r, "reset")
  \/ stage[r] = "reset" /\ Go(r, "push")
  \/ stage[r] \in ReleaseStages /\ Go(r, "unlock")
  \/ stage[r] = "unlock" /\ Go(r, "delete")
  \/ stage[r] = "delete" /\ Go(r, "disable")
  \/ stage[r] \in LiveStages /\ \E how \in EndStages : EndRun(r, how)

LEMMA QuietMoves ==
  ASSUME NEW r \in RunIds, QuietStep(r)
  PROVE  /\ Moves(r)
         /\ main' = main /\ tags' = tags
         /\ stage[r] \in LiveStages
         /\ origin' = origin \/ stage[r] = "fetch"
         /\ protection' = protection \/ protection' = TRUE \/ stage[r] = "disable"
         /\ next' = next \/ stage[r] = "version_check"
<1> USE DEF LiveStages, ValidationStages, ReleaseStages, UnlockStages, EndStages,
            gitVars, jobVars, lockVars, Moves
<1>1. CASE SkipCheck(r)         BY <1>1 DEF SkipCheck
<1>2. CASE Validations(r)       BY <1>2 DEF Validations
<1>3. CASE VersionCheck(r)      BY <1>3 DEF VersionCheck
<1>4. CASE WriteLockMarker(r)   BY <1>4 DEF WriteLockMarker
<1>5. CASE EnableProtection(r)  BY <1>5 DEF EnableProtection
<1>6. CASE GitFetch(r)          BY <1>6 DEF GitFetch
<1>7. CASE CheckStaleness(r)    BY <1>7 DEF CheckStaleness
<1>8. CASE GitReset(r)          BY <1>8 DEF GitReset
<1>9. CASE GhRelease(r)         BY <1>9 DEF GhRelease
<1>10. CASE UnlockFindsMarker(r) BY <1>10 DEF UnlockFindsMarker
<1>11. CASE UnlockNoOp(r)       BY <1>11 DEF UnlockNoOp
<1>12. CASE DeleteLockMarker(r) BY <1>12 DEF DeleteLockMarker
<1>13. CASE DisableBranchLock(r) BY <1>13 DEF DisableBranchLock
<1>14. CASE StepFails(r)        BY <1>14 DEF StepFails
<1>15. CASE RunLost(r)          BY <1>15 DEF RunLost
<1>16. CASE UnlockReadFails(r)  BY <1>16 DEF UnlockReadFails
<1> QED BY <1>1, <1>2, <1>3, <1>4, <1>5, <1>6, <1>7, <1>8, <1>9, <1>10, <1>11, <1>12,
           <1>13, <1>14, <1>15, <1>16 DEF QuietStep

\* A push by people puts one commit on main and creates its run.
PushedByPeople(c) ==
  /\ c \in Commits
  /\ \/ c.via = "admin"
     \/ c.via = "queue" /\ ~protection
  /\ Len(main) + 1 <= MaxCommits
  /\ main' = Append(main, c)
  /\ CreateRun(Len(main) + 1)
  /\ stage' = Queued(Len(main) + 1)
  /\ UNCHANGED <<head, origin, next, tags, ghReleases, marker, protection, wd>>

LEMMA PeopleMoves ==
  ASSUME People
  PROVE  \E c : PushedByPeople(c)
<1>1. ASSUME NEW s \in MergeScopes, NEW b \in MergeBumps, NEW q \in MergeBumps,
             MergePullRequest(s, b, q)
      PROVE  \E c : PushedByPeople(c)
  <2> DEFINE c == [via |-> "queue", scope |-> s, bump |-> b, squash |-> q, pr |-> TRUE]
  <2>1. c \in Commits
    BY ScopesAssumption, BumpsAssumption DEF Commits, Scopes, Units
  <2>2. PushedByPeople(c)
    BY <1>1, <2>1 DEF MergePullRequest, PushedByPeople, jobVars, lockVars
  <2> QED BY <2>2
<1>2. ASSUME NEW s \in MergeScopes, NEW b \in MergeBumps, NEW pr \in BOOLEAN,
             AdminPush(s, b, pr)
      PROVE  \E c : PushedByPeople(c)
  <2> DEFINE c == [via |-> "admin", scope |-> s, bump |-> b, squash |-> b, pr |-> pr]
  <2>1. c \in Commits
    BY ScopesAssumption, BumpsAssumption DEF Commits, Scopes, Units
  <2>2. PushedByPeople(c)
    BY <1>2, <2>1 DEF AdminPush, PushedByPeople, jobVars, lockVars
  <2> QED BY <2>2
<1> QED BY <1>1, <1>2 DEF People

\* A release push is rejected as a whole or takes effect as a whole.
PushRejected(r) ==
  /\ stage[r] = "push"
  /\ Go(r, "unlock")
  /\ UNCHANGED <<main, head, origin, next, tags, ghReleases, marker, protection, wd>>

PushAccepted(r, bot) ==
  /\ stage[r] = "push"
  /\ Len(main) + 1 <= MaxCommits
  /\ ~TagTaken(main[r].scope, next[r])
  /\ main' = Append(main, ReleaseCommit(r, bot))
  /\ tags' = tags \cup {[unit |-> main[r].scope, ver |-> next[r],
                         at |-> Len(main) + 1, src |-> r]}
  /\ CreateRun(Len(main) + 1)
  /\ stage' = [Queued(Len(main) + 1) EXCEPT ![r] = "publish"]
  /\ UNCHANGED <<head, origin, next, ghReleases, marker, protection, wd>>

LEMMA PushMoves ==
  ASSUME NEW r \in RunIds, NEW bot \in Bots, Push(r, bot)
  PROVE  PushRejected(r) \/ PushAccepted(r, bot)
  BY DEF Push, PushRejected, PushAccepted, jobVars, lockVars

\* The steps that touch neither the lane nor the repository.
LEMMA OtherMoves ==
  ASSUME OtherStep \/ UNCHANGED vars
  PROVE  UNCHANGED <<main, running, pending, stage, head, origin, next, tags, ghReleases,
                     protection>>
  BY DEF OtherStep, Watchdog, WatchdogRead, WatchdogDecide, PerformUnlock, WatchdogFails,
         Tick, vars, gitVars, laneVars, jobVars, lockVars

\* Every step is of one of these shapes.
LEMMA StepShapes ==
  ASSUME [Next]_vars
  PROVE  \/ \E c : PushedByPeople(c)
         \/ \E r \in RunIds : QuietStep(r)
         \/ \E r \in RunIds : PushRejected(r)
         \/ \E r \in RunIds, bot \in Bots : PushAccepted(r, bot)
         \/ OtherStep \/ UNCHANGED vars
<1>1. CASE People
  BY <1>1, PeopleMoves
<1>2. ASSUME NEW r \in RunIds, RunStep(r) \/ Faults(r)
      PROVE  \/ QuietStep(r)
             \/ \E bot \in Bots : PushRejected(r) \/ PushAccepted(r, bot)
  BY <1>2, PushMoves DEF RunStep, Faults, QuietStep
<1> QED BY <1>1, <1>2 DEF Next, OtherStep

-----------------------------------------------------------------------------
(***************************************************************************)
(* The lane.                                                               *)
(***************************************************************************)

LEMMA ReleaseCommitType ==
  ASSUME NEW r, NEW bot \in Bots, main[r].scope \in Units
  PROVE  ReleaseCommit(r, bot) \in Commits
  BY DEF ReleaseCommit, Commits, Bots, Bumps, Scopes

LEMMA LaneInvPush ==
  ASSUME TypeOK, LaneInv, ReviewedInv, NEW r \in RunIds, NEW bot \in Bots,
         PushAccepted(r, bot)
  PROVE  LaneInv'
<1> USE DEF LiveStages, ValidationStages, ReleaseStages, UnlockStages, EndStages, Stages
<1> DEFINE n == Len(main) + 1
<1>1. ReleaseCommit(r, bot) \in Commits
  BY ReleaseCommitType DEF ReviewedInv, PushAccepted
<1>2. Len(main) \in Nat /\ Len(main') = n /\ n \in RunIds
  BY <1>1, BoundsAssumption DEF TypeOK, PushAccepted
<1>3. r = running /\ stage[n] = "none" /\ n # running /\ n # pending /\ r # 0
  BY <1>2 DEF LaneInv, PushAccepted
<1>4. running' = r /\ pending' = n
  BY <1>3 DEF PushAccepted, CreateRun
<1>5. \A i \in RunIds : stage'[i] = IF i = r THEN "publish"
                                    ELSE IF i = n THEN "pending"
                                    ELSE IF i = pending THEN "superseded" ELSE stage[i]
  BY <1>3 DEF PushAccepted, Queued
<1>6. running \in 0..MaxCommits /\ pending \in 0..MaxCommits
  BY DEF TypeOK
<1> HIDE DEF n
<1> QED
  <2>1. \A i \in RunIds : stage'[i] \in LiveStages <=> i = r
    BY <1>3, <1>5 DEF LaneInv
  <2>2. \A i \in RunIds : stage'[i] = "pending" <=> i = n
    BY <1>3, <1>5 DEF LaneInv
  <2>3. \A i \in RunIds : stage'[i] = "none" <=> i > Len(main')
    BY <1>2, <1>3, <1>5 DEF LaneInv, n, PushAccepted
  <2> QED BY <1>2, <1>3, <1>4, <2>1, <2>2, <2>3 DEF LaneInv

LEMMA LaneInvStep ==
  ASSUME TypeOK, LaneInv, ReviewedInv, [Next]_vars
  PROVE  LaneInv'
<1>1. ASSUME NEW c, PushedByPeople(c) PROVE LaneInv'
  BY <1>1, LaneInvCreate DEF PushedByPeople
<1>2. ASSUME NEW r \in RunIds, QuietStep(r) PROVE LaneInv'
  <2>1. Moves(r) /\ main' = main /\ stage[r] \in LiveStages
    BY <1>2, QuietMoves
  <2>2. (\E to \in LiveStages : Go(r, to)) \/ (\E how \in EndStages : EndRun(r, how))
    BY <2>1 DEF Moves, LiveStages, ValidationStages, ReleaseStages, UnlockStages
  <2> QED BY <2>1, <2>2, LaneInvGo, LaneInvEnd
<1>3. ASSUME NEW r \in RunIds, PushRejected(r) PROVE LaneInv'
  <2>1. "unlock" \in LiveStages /\ "push" \in LiveStages
    BY DEF LiveStages, ReleaseStages, UnlockStages
  <2> QED BY <1>3, <2>1, LaneInvGo DEF PushRejected
<1>4. ASSUME NEW r \in RunIds, NEW bot \in Bots, PushAccepted(r, bot) PROVE LaneInv'
  BY <1>4, LaneInvPush
<1>5. CASE OtherStep \/ UNCHANGED vars
  BY <1>5, OtherMoves DEF LaneInv
<1> QED BY <1>1, <1>2, <1>3, <1>4, <1>5, StepShapes

-----------------------------------------------------------------------------
(***************************************************************************)
(* Types.                                                                  *)
(***************************************************************************)

LEMMA GoType ==
  ASSUME TypeOK, NEW r \in RunIds, NEW to \in Stages, Go(r, to)
  PROVE  stage' \in [RunIds -> Stages] /\ running' \in 0..MaxCommits /\ pending' \in 0..MaxCommits
  BY DEF TypeOK, Go

LEMMA EndRunType ==
  ASSUME TypeOK, NEW r \in RunIds, NEW how \in EndStages, EndRun(r, how)
  PROVE  stage' \in [RunIds -> Stages] /\ running' \in 0..MaxCommits /\ pending' \in 0..MaxCommits
  BY BoundsAssumption DEF TypeOK, EndRun, Stages, LiveStages, ValidationStages

LEMMA CreateType ==
  ASSUME TypeOK, NEW c \in Commits, main' = Append(main, c), Len(main) + 1 <= MaxCommits,
         CreateRun(Len(main) + 1)
  PROVE  /\ main' \in Seq(Commits) /\ Len(main') <= MaxCommits
         /\ running' \in 0..MaxCommits /\ pending' \in 0..MaxCommits
         /\ Queued(Len(main) + 1) \in [RunIds -> Stages]
<1>1. Len(main) \in Nat /\ Len(main') = Len(main) + 1 /\ main' \in Seq(Commits)
  BY DEF TypeOK
<1>2. Queued(Len(main) + 1) \in [RunIds -> Stages]
  BY DEF Queued, TypeOK, Stages, LiveStages, ValidationStages, EndStages
<1> QED BY <1>1, <1>2, BoundsAssumption DEF TypeOK, CreateRun

LEMMA QuietType ==
  ASSUME TypeOK, ReviewedInv, LaneInv, LatestInv, NEW r \in RunIds, QuietStep(r)
  PROVE  TypeOK'
<1>1. stage' \in [RunIds -> Stages] /\ running' \in 0..MaxCommits /\ pending' \in 0..MaxCommits
  <2>1. Moves(r)
    BY QuietMoves
  <2>2. (\E to \in Stages : Go(r, to)) \/ (\E how \in EndStages : EndRun(r, how))
    BY <2>1 DEF Moves, Stages, LiveStages, ValidationStages, ReleaseStages, UnlockStages
  <2> QED BY <2>2, GoType, EndRunType
<1>2. main' = main /\ tags' = tags
  BY QuietMoves
<1>3. next' \in [RunIds -> Versions]
  <2>1. CASE VersionCheck(r)
    <3> DEFINE nv == NextVersion(VersionsOf(main[r].scope), main[r].bump)
    <3>1. main[r].scope \in Units
      BY <2>1 DEF VersionCheck, ReviewedInv
    <3>2. nv \in Versions
      BY <3>1, VersionsOfType, NextVersionFacts DEF LatestInv
    <3> HIDE DEF nv
    <3>3. next' = next \/ next' = [next EXCEPT ![r] = nv]
      BY <2>1 DEF VersionCheck, nv
    <3> QED BY <3>2, <3>3 DEF TypeOK
  <2>2. CASE ~VersionCheck(r)
    <3>1. next' = next
      BY <2>2 DEF QuietStep, SkipCheck, Validations, WriteLockMarker, EnableProtection, GitFetch,
         CheckStaleness, GitReset, GhRelease, UnlockFindsMarker, UnlockNoOp, DeleteLockMarker,
         DisableBranchLock, StepFails, RunLost, UnlockReadFails, jobVars
    <3> QED BY <3>1 DEF TypeOK
  <2> QED BY <2>1, <2>2
<1>4. head' \in [RunIds -> 0..MaxCommits] /\ origin' \in [RunIds -> 0..MaxCommits]
  <2>1. \/ UNCHANGED <<head, origin>>
        \/ head' = [head EXCEPT ![r] = r] /\ origin' = origin
        \/ origin' = [origin EXCEPT ![r] = Len(main)] /\ head' = head
        \/ head' = [head EXCEPT ![r] = origin[r]] /\ origin' = origin
    BY DEF QuietStep, SkipCheck, Validations, VersionCheck, WriteLockMarker, EnableProtection,
         GitFetch, CheckStaleness, GitReset, GhRelease, UnlockFindsMarker, UnlockNoOp,
         DeleteLockMarker, DisableBranchLock, StepFails, RunLost, UnlockReadFails, jobVars
  <2>2. Len(main) \in 0..MaxCommits /\ r \in 0..MaxCommits /\ origin[r] \in 0..MaxCommits
    BY BoundsAssumption DEF TypeOK
  <2>3. head \in [RunIds -> 0..MaxCommits] /\ origin \in [RunIds -> 0..MaxCommits]
    BY DEF TypeOK
  <2> QED BY <2>1, <2>2, <2>3
<1>5. ghReleases' \subseteq Tags
  BY DEF TypeOK, QuietStep, SkipCheck, Validations, VersionCheck, WriteLockMarker,
         EnableProtection, GitFetch, CheckStaleness, GitReset, GhRelease, UnlockFindsMarker,
         UnlockNoOp, DeleteLockMarker, DisableBranchLock, StepFails, RunLost, UnlockReadFails,
         gitVars
<1>6. marker' \in [run : 0..MaxCommits, age : 0..LockMaxAge] /\ protection' \in BOOLEAN /\ wd' = wd
  <2>1. \/ UNCHANGED <<marker, protection>>
        \/ marker' = [run |-> r, age |-> 0] /\ protection' = protection
        \/ marker' = NoMarker /\ protection' = protection
        \/ marker' = marker /\ protection' \in BOOLEAN
    BY DEF QuietStep, SkipCheck, Validations, VersionCheck, WriteLockMarker, EnableProtection,
         GitFetch, CheckStaleness, GitReset, GhRelease, UnlockFindsMarker, UnlockNoOp,
         DeleteLockMarker, DisableBranchLock, StepFails, RunLost, UnlockReadFails, lockVars
  <2>2. wd' = wd
    BY DEF QuietStep, SkipCheck, Validations, VersionCheck, WriteLockMarker, EnableProtection,
         GitFetch, CheckStaleness, GitReset, GhRelease, UnlockFindsMarker, UnlockNoOp,
         DeleteLockMarker, DisableBranchLock, StepFails, RunLost, UnlockReadFails, lockVars
  <2> QED BY <2>1, <2>2, BoundsAssumption, LockMaxAgeAssumption DEF TypeOK, NoMarker
<1> QED BY <1>1, <1>2, <1>3, <1>4, <1>5, <1>6 DEF TypeOK

LEMMA OtherType ==
  ASSUME TypeOK, OtherStep \/ UNCHANGED vars
  PROVE  TypeOK'
<1>1. marker' \in [run : 0..MaxCommits, age : 0..LockMaxAge]
  <2>0. marker \in [run : 0..MaxCommits, age : 0..LockMaxAge]
    BY DEF TypeOK
  <2>1. CASE Tick
    <3>1. marker.age + 1 \in 0..LockMaxAge
      BY <2>0, <2>1, LockMaxAgeAssumption DEF Tick
    <3> QED BY <2>0, <2>1, <3>1 DEF Tick
  <2>2. CASE ~Tick
    <3>1. marker' = marker \/ marker' = NoMarker
      BY <2>2 DEF OtherStep, Watchdog, WatchdogRead, WatchdogDecide, PerformUnlock,
         WatchdogFails, lockVars, vars
    <3>2. NoMarker \in [run : 0..MaxCommits, age : 0..LockMaxAge]
      BY BoundsAssumption, LockMaxAgeAssumption DEF NoMarker
    <3> QED BY <2>0, <3>1, <3>2
  <2> QED BY <2>1, <2>2
<1>2. wd' \in [pc : {"idle", "count", "delete"}, age : 0..LockMaxAge]
  BY DEF OtherStep, Watchdog, WatchdogRead, WatchdogDecide, PerformUnlock, WatchdogFails,
     Tick, TypeOK, vars
<1> QED BY <1>1, <1>2, OtherMoves DEF TypeOK

LEMMA TypeStep ==
  ASSUME TypeOK, ReviewedInv, LaneInv, LatestInv, [Next]_vars
  PROVE  TypeOK'
<1>1. ASSUME NEW c, PushedByPeople(c) PROVE TypeOK'
  BY <1>1, CreateType DEF PushedByPeople, TypeOK
<1>2. ASSUME NEW r \in RunIds, PushRejected(r) PROVE TypeOK'
  BY <1>2, GoType DEF PushRejected, TypeOK, Stages, LiveStages, UnlockStages
<1>3. ASSUME NEW r \in RunIds, NEW bot \in Bots, PushAccepted(r, bot) PROVE TypeOK'
  <2>1. main[r].scope \in Units
    BY <1>3 DEF PushAccepted, ReviewedInv, ReleaseStages
  <2>2. ReleaseCommit(r, bot) \in Commits
    BY <2>1, ReleaseCommitType
  <2>3. /\ main' \in Seq(Commits) /\ Len(main') <= MaxCommits
        /\ running' \in 0..MaxCommits /\ pending' \in 0..MaxCommits
        /\ Queued(Len(main) + 1) \in [RunIds -> Stages]
    BY <1>3, <2>2, CreateType DEF PushAccepted
  <2>4. stage' \in [RunIds -> Stages]
    BY <1>3, <2>3 DEF PushAccepted, Stages, LiveStages, ReleaseStages
  <2>5. tags' \subseteq Tags
    <3>1. Len(main) \in Nat /\ Len(main) + 1 \in RunIds
      BY <1>3, BoundsAssumption DEF TypeOK, PushAccepted
    <3>2. [unit |-> main[r].scope, ver |-> next[r], at |-> Len(main) + 1, src |-> r] \in Tags
      BY <2>1, <3>1 DEF Tags, TypeOK
    <3> QED BY <1>3, <3>2 DEF PushAccepted, TypeOK
  <2> QED BY <1>3, <2>3, <2>4, <2>5 DEF PushAccepted, TypeOK
<1>4. ASSUME NEW r \in RunIds, QuietStep(r) PROVE TypeOK'
  BY <1>4, QuietType
<1> QED BY <1>1, <1>2, <1>3, <1>4, OtherType, StepShapes

-----------------------------------------------------------------------------
(***************************************************************************)
(* What a step does to the runs it is not a step of.                       *)
(***************************************************************************)

\* The stages a run reaches only after its commit passed a job's checks.
CheckedStages == {"version_check"} \cup ReleaseStages

\* After a step of run r no other run is past its scope detection.
LEMMA OthersIdle ==
  ASSUME TypeOK, LaneInv, NEW r \in RunIds,
         QuietStep(r) \/ PushRejected(r) \/ \E bot \in Bots : PushAccepted(r, bot),
         NEW i \in RunIds, i # r
  PROVE  stage'[i] \notin CheckedStages
<1> USE DEF CheckedStages, LiveStages, ValidationStages, ReleaseStages, UnlockStages, EndStages
<1>1. stage[r] \in LiveStages
  BY QuietMoves DEF PushRejected, PushAccepted
<1>2. stage[i] \notin LiveStages
  BY <1>1 DEF LaneInv
<1>3. CASE \E to \in LiveStages : Go(r, to)
  BY <1>2, <1>3 DEF Go, TypeOK
<1>4. CASE \E how \in EndStages : EndRun(r, how)
  BY <1>2, <1>4 DEF EndRun, TypeOK
<1>5. ASSUME NEW bot \in Bots, PushAccepted(r, bot) PROVE stage'[i] \notin CheckedStages
  <2>1. stage'[i] = Queued(Len(main) + 1)[i]
    BY <1>5 DEF PushAccepted, Queued
  <2>2. stage'[i] \in {"skip_check", "pending", "superseded"} \/ stage'[i] = stage[i]
    BY <2>1 DEF Queued
  <2> QED BY <1>2, <2>2
<1>6. CASE QuietStep(r)
  <2>1. Moves(r)
    BY <1>6, QuietMoves
  <2>2. (\E to \in LiveStages : Go(r, to)) \/ (\E how \in EndStages : EndRun(r, how))
    BY <2>1 DEF Moves
  <2> QED BY <2>2, <1>3, <1>4
<1>7. CASE PushRejected(r)
  <2>1. \E to \in LiveStages : Go(r, to)
    BY <1>7 DEF PushRejected
  <2> QED BY <2>1, <1>3
<1> QED BY <1>5, <1>6, <1>7

\* A push by people moves no run that is past its scope detection.
LEMMA PeopleStages ==
  ASSUME TypeOK, LaneInv, NEW c, PushedByPeople(c), NEW i \in RunIds,
         stage'[i] \in CheckedStages
  PROVE  stage'[i] = stage[i] /\ i \in 1..Len(main) /\ main'[i] = main[i]
<1> USE DEF CheckedStages, ReleaseStages
<1>1. stage'[i] = Queued(Len(main) + 1)[i]
  BY DEF PushedByPeople
<1>2. stage'[i] \in {"skip_check", "pending", "superseded"} \/ stage'[i] = stage[i]
  BY <1>1 DEF Queued
<1>3. stage'[i] = stage[i]
  BY <1>2
<1>4. i \in 1..Len(main)
  BY <1>3 DEF LaneInv, TypeOK
<1> QED BY <1>3, <1>4 DEF PushedByPeople, TypeOK

\* A push puts the commit of a release after the commits that were there.
LEMMA PushKeepsCommits ==
  ASSUME TypeOK, ReviewedInv, NEW r \in RunIds, NEW bot \in Bots, PushAccepted(r, bot)
  PROVE  /\ Len(main) \in Nat
         /\ Len(main') = Len(main) + 1
         /\ main'[Len(main) + 1] = ReleaseCommit(r, bot)
         /\ \A i \in 1..Len(main) : main'[i] = main[i]
         /\ stage'[r] = "publish"
<1>1. ReleaseCommit(r, bot) \in Commits
  BY ReleaseCommitType DEF ReviewedInv, PushAccepted, ReleaseStages
<1>2. stage'[r] = "publish"
  BY DEF PushAccepted, Queued
<1> QED BY <1>1, <1>2 DEF TypeOK, PushAccepted

LEMMA PeopleKeepCommits ==
  ASSUME TypeOK, NEW c, PushedByPeople(c)
  PROVE  /\ Len(main) \in Nat
         /\ Len(main') = Len(main) + 1
         /\ main'[Len(main) + 1] = c
         /\ \A i \in 1..Len(main) : main'[i] = main[i]
  BY DEF TypeOK, PushedByPeople

-----------------------------------------------------------------------------
(***************************************************************************)
(* What the jobs before the release job establish.                         *)
(***************************************************************************)

LEMMA ReviewedStep ==
  ASSUME TypeOK, LaneInv, ReviewedInv, [Next]_vars
  PROVE  ReviewedInv'
<1> USE DEF CheckedStages
<1>1. ASSUME NEW c, PushedByPeople(c) PROVE ReviewedInv'
  BY <1>1, PeopleStages DEF ReviewedInv
<1>2. ASSUME NEW r \in RunIds, QuietStep(r) PROVE ReviewedInv'
  <2>1. Moves(r) /\ main' = main /\ stage \in [RunIds -> Stages]
    BY <1>2, QuietMoves DEF TypeOK
  <2>2. stage'[r] \in CheckedStages => main[r].scope \in Units
    BY <2>1 DEF Moves, Go, EndRun, ReviewedInv, ReleaseStages, UnlockStages, EndStages
  <2>3. stage'[r] \in ReleaseStages => main[r].pr /\ main[r].bump = main[r].squash
    BY <2>1 DEF Moves, Go, EndRun, ReviewedInv, ReleaseStages, UnlockStages, EndStages
  <2> QED BY <1>2, <2>1, <2>2, <2>3, OthersIdle DEF ReviewedInv
<1>3. ASSUME NEW r \in RunIds, PushRejected(r) PROVE ReviewedInv'
  <2>1. stage'[r] = "unlock"
    BY <1>3 DEF PushRejected, Go, TypeOK
  <2> QED BY <1>3, <2>1, OthersIdle DEF ReviewedInv, ReleaseStages
<1>4. ASSUME NEW r \in RunIds, NEW bot \in Bots, PushAccepted(r, bot) PROVE ReviewedInv'
  <2>1. r \in 1..Len(main) /\ main'[r] = main[r] /\ stage[r] \in ReleaseStages
    BY <1>4, PushKeepsCommits, LiveIsRunning DEF PushAccepted, LiveStages, ReleaseStages
  <2> QED BY <1>4, <2>1, OthersIdle DEF ReviewedInv
<1>5. CASE OtherStep \/ UNCHANGED vars
  BY <1>5, OtherMoves DEF ReviewedInv
<1> QED BY <1>1, <1>2, <1>3, <1>4, <1>5, StepShapes

LEMMA BotStep ==
  ASSUME TypeOK, ReviewedInv, BotInv, [Next]_vars
  PROVE  BotInv'
<1>1. ASSUME NEW c, PushedByPeople(c) PROVE BotInv'
  BY <1>1, PeopleKeepCommits DEF BotInv, PushedByPeople, Bots
<1>2. ASSUME NEW r \in RunIds, NEW bot \in Bots, PushAccepted(r, bot) PROVE BotInv'
  <2>1. main'[Len(main) + 1].pr = FALSE
    <3>1. main'[Len(main) + 1] = ReleaseCommit(r, bot)
      BY <1>2, PushKeepsCommits
    <3>2. ReleaseCommit(r, bot).pr = FALSE
      BY DEF ReleaseCommit
    <3> QED BY <3>1, <3>2
  <2>2. \A i \in 1..Len(main') : i = Len(main) + 1 \/ (i \in 1..Len(main) /\ main'[i] = main[i])
    BY <1>2, PushKeepsCommits
  <2> QED BY <2>1, <2>2 DEF BotInv
<1>3. ASSUME NEW r \in RunIds, QuietStep(r) \/ PushRejected(r) PROVE BotInv'
  BY <1>3, QuietMoves DEF BotInv, PushRejected
<1>4. CASE OtherStep \/ UNCHANGED vars
  BY <1>4, OtherMoves DEF BotInv
<1> QED BY <1>1, <1>2, <1>3, <1>4, StepShapes

-----------------------------------------------------------------------------
(***************************************************************************)
(* The lock.                                                               *)
(***************************************************************************)

LEMMA ProtectionStep ==
  ASSUME TypeOK, LaneInv, ReleaseUnderProtection, [Next]_vars
  PROVE  ReleaseUnderProtection'
<1> USE DEF CheckedStages
<1>1. ASSUME NEW c, PushedByPeople(c) PROVE ReleaseUnderProtection'
  BY <1>1, PeopleStages DEF ReleaseUnderProtection, PushedByPeople, ReleaseStages
<1>2. ASSUME NEW r \in RunIds, QuietStep(r) PROVE ReleaseUnderProtection'
  <2>1. /\ Moves(r) /\ stage \in [RunIds -> Stages]
        /\ protection' = protection \/ protection' = TRUE \/ stage[r] = "disable"
    BY <1>2, QuietMoves DEF TypeOK
  <2>2. stage'[r] \in {"fetch", "staleness", "reset", "push", "publish"} => protection'
    <3>1. SUFFICES ASSUME stage'[r] \in {"fetch", "staleness", "reset", "push", "publish"}
                   PROVE  protection' = TRUE
      OBVIOUS
    <3>2. \/ protection' = TRUE
          \/ stage[r] \in {"fetch", "staleness", "reset", "push", "publish"} /\ stage[r] # "disable"
      BY <2>1, <3>1 DEF Moves, Go, EndRun, ReleaseStages, EndStages
    <3>3. (stage[r] \in {"fetch", "staleness", "reset", "push", "publish"}) => protection = TRUE
      BY DEF ReleaseUnderProtection, TypeOK
    <3> QED BY <2>1, <3>2, <3>3
  <2> QED BY <1>2, <2>2, OthersIdle DEF ReleaseUnderProtection, ReleaseStages
<1>3. ASSUME NEW r \in RunIds, PushRejected(r) PROVE ReleaseUnderProtection'
  <2>1. stage'[r] = "unlock"
    BY <1>3 DEF PushRejected, Go, TypeOK
  <2> QED BY <1>3, <2>1, OthersIdle DEF ReleaseUnderProtection, ReleaseStages
<1>4. ASSUME NEW r \in RunIds, NEW bot \in Bots, PushAccepted(r, bot)
      PROVE  ReleaseUnderProtection'
  <2>1. protection /\ protection' = protection
    BY <1>4 DEF PushAccepted, ReleaseUnderProtection
  <2> QED BY <2>1 DEF ReleaseUnderProtection
<1>5. CASE OtherStep \/ UNCHANGED vars
  BY <1>5, OtherMoves DEF ReleaseUnderProtection
<1> QED BY <1>1, <1>2, <1>3, <1>4, <1>5, StepShapes

LEMMA LockedBaseStep ==
  ASSUME TypeOK, LaneInv, ReviewedInv, ReleaseUnderProtection, LockedBaseMovedOnlyByAdmins,
         [Next]_vars
  PROVE  LockedBaseMovedOnlyByAdmins'
<1> USE DEF CheckedStages
<1>1. ASSUME NEW c, PushedByPeople(c) PROVE LockedBaseMovedOnlyByAdmins'
  <2> SUFFICES ASSUME NEW r \in RunIds, stage'[r] \in {"staleness", "reset", "push"},
                      NEW i \in (origin'[r] + 1)..Len(main')
               PROVE  main'[i].via = "admin"
    BY DEF LockedBaseMovedOnlyByAdmins
  <2>1. stage[r] \in {"staleness", "reset", "push"}
    BY <1>1, PeopleStages DEF ReleaseStages
  <2>2. c.via = "admin" /\ origin' = origin
    BY <1>1, <2>1 DEF PushedByPeople, ReleaseUnderProtection
  <2>3. origin[r] \in Nat
    BY BoundsAssumption DEF TypeOK
  <2>4. CASE i = Len(main) + 1
    BY <1>1, <2>2, <2>4, PeopleKeepCommits
  <2>5. CASE i # Len(main) + 1
    <3>1. i \in (origin[r] + 1)..Len(main) /\ i \in 1..Len(main)
      BY <1>1, <2>2, <2>3, <2>5, PeopleKeepCommits
    <3> QED BY <1>1, <2>1, <3>1, PeopleKeepCommits DEF LockedBaseMovedOnlyByAdmins
  <2> QED BY <2>4, <2>5
<1>2. ASSUME NEW r \in RunIds, QuietStep(r) PROVE LockedBaseMovedOnlyByAdmins'
  <2>1. /\ Moves(r) /\ main' = main /\ stage \in [RunIds -> Stages]
        /\ origin' = origin \/ stage[r] = "fetch"
    BY <1>2, QuietMoves DEF TypeOK
  <2>2. ASSUME stage'[r] \in {"staleness", "reset", "push"},
               NEW i \in (origin'[r] + 1)..Len(main)
        PROVE  main[i].via = "admin"
    <3>1. CASE stage[r] = "fetch"
      <4>1. origin' = [origin EXCEPT ![r] = Len(main)]
        BY <2>1, <2>2, <3>1 DEF Moves, Go, EndRun, EndStages
      <4>2. origin'[r] = Len(main) /\ Len(main) \in Nat
        BY <4>1 DEF TypeOK
      <4> QED BY <2>2, <4>2
    <3>2. CASE stage[r] # "fetch"
      <4>1. stage[r] \in {"staleness", "reset", "push"} /\ origin' = origin
        BY <2>1, <2>2, <3>2 DEF Moves, Go, EndRun, EndStages, ReleaseStages
      <4> QED BY <2>2, <4>1 DEF LockedBaseMovedOnlyByAdmins
    <3> QED BY <3>1, <3>2
  <2> QED BY <1>2, <2>1, <2>2, OthersIdle DEF LockedBaseMovedOnlyByAdmins, ReleaseStages
<1>3. ASSUME NEW r \in RunIds, PushRejected(r) PROVE LockedBaseMovedOnlyByAdmins'
  <2>1. stage'[r] = "unlock"
    BY <1>3 DEF PushRejected, Go, TypeOK
  <2> QED BY <1>3, <2>1, OthersIdle DEF LockedBaseMovedOnlyByAdmins, ReleaseStages
<1>4. ASSUME NEW r \in RunIds, NEW bot \in Bots, PushAccepted(r, bot)
      PROVE  LockedBaseMovedOnlyByAdmins'
  BY <1>4, PushKeepsCommits, OthersIdle DEF LockedBaseMovedOnlyByAdmins, ReleaseStages
<1>5. CASE OtherStep \/ UNCHANGED vars
  BY <1>5, OtherMoves DEF LockedBaseMovedOnlyByAdmins
<1> QED BY <1>1, <1>2, <1>3, <1>4, <1>5, StepShapes

-----------------------------------------------------------------------------
(***************************************************************************)
(* The tags.                                                               *)
(***************************************************************************)

\* The tag that the push of run r creates.
NewTag(r) == [unit |-> main[r].scope, ver |-> next[r], at |-> Len(main) + 1, src |-> r]

\* Every step but an accepted push leaves the tags and what they refer to alone.
LEMMA TagsKept ==
  ASSUME TypeOK, LaneInv, [Next]_vars,
         ~ \E r \in RunIds, bot \in Bots : PushAccepted(r, bot)
  PROVE  /\ tags' = tags
         /\ Len(main') \in Nat /\ Len(main) \in Nat /\ Len(main') >= Len(main)
         /\ \A i \in 1..Len(main) : main'[i] = main[i]
<1>1. ASSUME NEW c, PushedByPeople(c) PROVE tags' = tags
  BY <1>1 DEF PushedByPeople
<1>2. CASE \E c : PushedByPeople(c)
  BY <1>1, <1>2, PeopleKeepCommits
<1>3. CASE \E r \in RunIds : QuietStep(r) \/ PushRejected(r)
  <2>1. main' = main /\ tags' = tags
    BY <1>3, QuietMoves DEF PushRejected
  <2> QED BY <2>1 DEF TypeOK
<1>4. CASE OtherStep \/ UNCHANGED vars
  <2>1. main' = main /\ tags' = tags
    BY <1>4, OtherMoves
  <2> QED BY <2>1 DEF TypeOK
<1> QED BY <1>2, <1>3, <1>4, StepShapes

\* The new tag carries the next version of its unit, which comes after all the
\* versions of the unit.
LEMMA PushVersions ==
  ASSUME TypeOK, ReviewedInv, LatestInv, VersionStaysNext,
         NEW r \in RunIds, NEW bot \in Bots, PushAccepted(r, bot)
  PROVE  /\ tags' = tags \cup {NewTag(r)}
         /\ main[r].scope \in Units
         /\ next[r] = NextVersion(VersionsOf(main[r].scope), main[r].bump)
         /\ next[r] \in Versions
         /\ \A w \in VersionsOf(main[r].scope) : Less(w, next[r])
<1>1. stage[r] = "push" /\ tags' = tags \cup {NewTag(r)}
  BY DEF PushAccepted, NewTag
<1>2. main[r].scope \in Units
  BY <1>1 DEF ReviewedInv, ReleaseStages
<1>3. next[r] = NextVersion(VersionsOf(main[r].scope), main[r].bump)
  BY <1>1 DEF VersionStaysNext, ReleaseStages
<1>4. VersionsOf(main[r].scope) \in SUBSET Versions
  BY VersionsOfType
<1> QED BY <1>1, <1>2, <1>3, <1>4, NextVersionFacts DEF LatestInv

LEMMA PushVersionsOf ==
  ASSUME NEW r, tags' = tags \cup {NewTag(r)}, NEW u
  PROVE  VersionsOf(u)' = VersionsOf(u) \cup (IF u = main[r].scope THEN {next[r]} ELSE {})
<1>1. NewTag(r).unit = main[r].scope /\ NewTag(r).ver = next[r]
  BY DEF NewTag
<1>2. {x \in tags' : x.unit = u} =
        {x \in tags : x.unit = u} \cup (IF u = main[r].scope THEN {NewTag(r)} ELSE {})
  BY <1>1
<1>3. CASE u = main[r].scope
  BY <1>1, <1>2, <1>3 DEF VersionsOf
<1>4. CASE u # main[r].scope
  BY <1>2, <1>4 DEF VersionsOf
<1> QED BY <1>3, <1>4

LEMMA LatestStep ==
  ASSUME TypeOK, LaneInv, ReviewedInv, LatestInv, VersionStaysNext, [Next]_vars
  PROVE  LatestInv'
<1>1. CASE ~ \E r \in RunIds, bot \in Bots : PushAccepted(r, bot)
  <2>1. \A u : VersionsOf(u)' = VersionsOf(u)
    BY <1>1, TagsKept DEF VersionsOf
  <2> QED BY <2>1 DEF LatestInv
<1>2. ASSUME NEW r \in RunIds, NEW bot \in Bots, PushAccepted(r, bot) PROVE LatestInv'
  <2>1. tags' = tags \cup {NewTag(r)} /\ \A w \in VersionsOf(main[r].scope) : Less(w, next[r])
    BY <1>2, PushVersions
  <2> SUFFICES ASSUME NEW u \in Units
               PROVE  \/ VersionsOf(u)' = {}
                      \/ \E v \in VersionsOf(u)' : IsLatest(v, VersionsOf(u)')
    BY DEF LatestInv
  <2>2. CASE u = main[r].scope
    <3>1. VersionsOf(u)' = VersionsOf(u) \cup {next[r]}
      BY <2>1, <2>2, PushVersionsOf
    <3>2. IsLatest(next[r], VersionsOf(u)')
      BY <2>1, <2>2, <3>1 DEF IsLatest
    <3> QED BY <3>1, <3>2
  <2>3. CASE u # main[r].scope
    <3>1. VersionsOf(u)' = VersionsOf(u)
      BY <2>1, <2>3, PushVersionsOf
    <3> QED BY <3>1 DEF LatestInv
  <2> QED BY <2>2, <2>3
<1> QED BY <1>1, <1>2

\* What is known of a tag that exists.
LEMMA TagFacts ==
  ASSUME TypeOK, LaneInv, SourceInv, NEW t \in tags
  PROVE  /\ t.src \in RunIds /\ t.src \in 1..Len(main)
         /\ t.at \in Nat /\ t.unit \in Units /\ t.ver \in Versions
         /\ t.ver \in VersionsOf(t.unit)
         /\ stage[t.src] # "push"
<1>1. t.src \in RunIds /\ t.at \in Nat /\ t.unit \in Units /\ t.ver \in Versions
  BY BoundsAssumption DEF TypeOK, Tags
<1>2. stage[t.src] # "none" /\ stage[t.src] # "push"
  BY <1>1 DEF SourceInv, UnlockStages, EndStages
<1>3. t.src \in 1..Len(main)
  BY <1>1, <1>2 DEF LaneInv, TypeOK
<1> QED BY <1>1, <1>2, <1>3 DEF VersionsOf

LEMMA SourceStep ==
  ASSUME TypeOK, LaneInv, ReviewedInv, SourceInv, [Next]_vars
  PROVE  SourceInv'
<1> DEFINE Past == {"publish"} \cup UnlockStages \cup EndStages
<1> USE DEF UnlockStages, EndStages
<1>1. ASSUME NEW i \in RunIds, stage[i] \in Past PROVE stage'[i] \in Past
  <2>1. i # pending /\ stage[i] # "none"
    BY <1>1 DEF LaneInv
  <2>2. i \in 1..Len(main) /\ i # Len(main) + 1
    BY <2>1 DEF LaneInv, TypeOK
  <2>3. Queued(Len(main) + 1)[i] = stage[i]
    BY <2>1, <2>2 DEF Queued
  <2>4. ASSUME NEW c, PushedByPeople(c) PROVE stage'[i] \in Past
    BY <1>1, <2>3, <2>4 DEF PushedByPeople
  <2>5. ASSUME NEW r \in RunIds, NEW bot \in Bots, PushAccepted(r, bot)
        PROVE  stage'[i] \in Past
    <3>1. i # r
      BY <1>1, <2>5 DEF PushAccepted
    <3>2. stage'[i] = stage[i]
      BY <2>3, <2>5, <3>1 DEF PushAccepted, Queued
    <3> QED BY <1>1, <3>2
  <2>6. ASSUME NEW r \in RunIds, PushRejected(r) PROVE stage'[i] \in Past
    BY <1>1, <2>6 DEF PushRejected, Go, TypeOK
  <2>7. ASSUME NEW r \in RunIds, QuietStep(r) PROVE stage'[i] \in Past
    <3>1. Moves(r) /\ stage \in [RunIds -> Stages]
      BY <2>7, QuietMoves DEF TypeOK
    <3>2. CASE i = r
      BY <1>1, <3>1, <3>2 DEF Moves, Go, EndRun, ReleaseStages
    <3>3. CASE i # r
      BY <1>1, <2>1, <3>1, <3>3 DEF Moves, Go, EndRun
    <3> QED BY <3>2, <3>3
  <2>8. CASE OtherStep \/ UNCHANGED vars
    BY <1>1, <2>8, OtherMoves
  <2> QED BY <2>4, <2>5, <2>6, <2>7, <2>8, StepShapes
<1>2. CASE ~ \E r \in RunIds, bot \in Bots : PushAccepted(r, bot)
  <2>1. tags' = tags
    BY <1>2, TagsKept
  <2> QED BY <1>1, <2>1, TagFacts DEF SourceInv
<1>3. ASSUME NEW r \in RunIds, NEW bot \in Bots, PushAccepted(r, bot) PROVE SourceInv'
  <2>1. tags' = tags \cup {NewTag(r)} /\ stage'[r] = "publish"
    BY <1>3, PushKeepsCommits DEF PushAccepted, NewTag
  <2>2. NewTag(r).src = r
    BY DEF NewTag
  <2> QED BY <1>1, <2>1, <2>2, TagFacts DEF SourceInv
<1> QED BY <1>2, <1>3

LEMMA DanglingStep ==
  ASSUME TypeOK, LaneInv, ReviewedInv, LatestInv, VersionStaysNext, SourceInv, NoDanglingTag,
         [Next]_vars
  PROVE  NoDanglingTag'
<1>1. CASE ~ \E r \in RunIds, bot \in Bots : PushAccepted(r, bot)
  BY <1>1, TagsKept DEF NoDanglingTag
<1>2. ASSUME NEW r \in RunIds, NEW bot \in Bots, PushAccepted(r, bot) PROVE NoDanglingTag'
  <2>1. tags' = tags \cup {NewTag(r)}
    BY <1>2 DEF PushAccepted, NewTag
  <2>2. NewTag(r).at = Len(main) + 1 /\ NewTag(r).unit = main[r].scope
    BY DEF NewTag
  <2>3. /\ Len(main) \in Nat /\ Len(main') = Len(main) + 1
        /\ main'[Len(main) + 1] = ReleaseCommit(r, bot)
        /\ \A i \in 1..Len(main) : main'[i] = main[i]
    BY <1>2, PushKeepsCommits
  <2>4. ReleaseCommit(r, bot).via \in Bots /\ ReleaseCommit(r, bot).scope = main[r].scope
    BY DEF ReleaseCommit
  <2>5. \A t \in tags : t.at \in 1..Len(main)
    BY DEF NoDanglingTag
  <2>6. \A t \in tags' : t.at \in 1..Len(main') /\ main'[t.at].via \in Bots
                         /\ main'[t.at].scope = t.unit
    BY <2>1, <2>2, <2>3, <2>4 DEF NoDanglingTag
  <2>7. \A s, t \in tags' : s.at = t.at => s = t
    BY <2>1, <2>2, <2>3, <2>5 DEF NoDanglingTag
  <2> QED BY <2>6, <2>7 DEF NoDanglingTag
<1> QED BY <1>1, <1>2

LEMMA VersionsStep ==
  ASSUME TypeOK, LaneInv, ReviewedInv, LatestInv, VersionStaysNext, SourceInv, NoDanglingTag,
         VersionsFollowMain, [Next]_vars
  PROVE  VersionsFollowMain'
<1>1. CASE ~ \E r \in RunIds, bot \in Bots : PushAccepted(r, bot)
  BY <1>1, TagsKept DEF VersionsFollowMain
<1>2. ASSUME NEW r \in RunIds, NEW bot \in Bots, PushAccepted(r, bot)
      PROVE  VersionsFollowMain'
  <2>1. tags' = tags \cup {NewTag(r)} /\ \A w \in VersionsOf(main[r].scope) : Less(w, next[r])
    BY <1>2, PushVersions
  <2>2. /\ NewTag(r).at = Len(main) + 1 /\ NewTag(r).unit = main[r].scope
        /\ NewTag(r).ver = next[r]
    BY DEF NewTag
  <2>3. Len(main) \in Nat /\ \A t \in tags : t.at \in 1..Len(main)
    BY DEF NoDanglingTag, TypeOK
  <2> SUFFICES ASSUME NEW s \in tags', NEW t \in tags', s.unit = t.unit, s.at < t.at
               PROVE  Less(s.ver, t.ver)
    BY DEF VersionsFollowMain
  <2>4. s \in tags
    BY <2>1, <2>2, <2>3
  <2>5. CASE t \in tags
    BY <2>4, <2>5 DEF VersionsFollowMain
  <2>6. CASE t = NewTag(r)
    BY <2>1, <2>2, <2>4, <2>6, TagFacts
  <2> QED BY <2>1, <2>5, <2>6
<1> QED BY <1>1, <1>2

LEMMA OneReleaseStep ==
  ASSUME TypeOK, LaneInv, ReviewedInv, BotInv, LatestInv, VersionStaysNext, SourceInv,
         OneReleasePerPullRequest, [Next]_vars
  PROVE  OneReleasePerPullRequest'
<1>1. CASE ~ \E r \in RunIds, bot \in Bots : PushAccepted(r, bot)
  <2>1. tags' = tags /\ \A t \in tags : main'[t.src] = main[t.src]
    BY <1>1, TagsKept, TagFacts
  <2> QED BY <2>1 DEF OneReleasePerPullRequest
<1>2. ASSUME NEW r \in RunIds, NEW bot \in Bots, PushAccepted(r, bot)
      PROVE  OneReleasePerPullRequest'
  <2>1. tags' = tags \cup {NewTag(r)} /\ stage[r] = "push"
    BY <1>2 DEF PushAccepted, NewTag
  <2>2. NewTag(r).src = r /\ NewTag(r).unit = main[r].scope
    BY DEF NewTag
  <2>3. \A t \in tags : t.src # r
    BY <2>1, TagFacts
  <2>4. r \in 1..Len(main) /\ main'[r] = main[r]
    BY <1>2, <2>1, PushKeepsCommits, LiveIsRunning DEF LiveStages, ReleaseStages
  <2>5. main[r].pr /\ main[r].bump = main[r].squash /\ main[r].via \notin Bots
    BY <2>1, <2>4 DEF ReviewedInv, BotInv, ReleaseStages
  <2>6. \A t \in tags : main'[t.src] = main[t.src]
    BY <1>2, PushKeepsCommits, TagFacts
  <2>7. \A t \in tags' : /\ main'[t.src].pr /\ main'[t.src].bump = main'[t.src].squash
                         /\ main'[t.src].via \notin Bots /\ main'[t.src].scope = t.unit
    BY <2>1, <2>2, <2>4, <2>5, <2>6 DEF OneReleasePerPullRequest
  <2>8. \A s, t \in tags' : s.src = t.src => s = t
    BY <2>1, <2>2, <2>3 DEF OneReleasePerPullRequest
  <2> QED BY <2>7, <2>8 DEF OneReleasePerPullRequest
<1> QED BY <1>1, <1>2

\* Only the run in progress releases, so no other run's tag can come between
\* its version check and its push.
LEMMA StaysNextStep ==
  ASSUME TypeOK, LaneInv, VersionStaysNext, [Next]_vars
  PROVE  VersionStaysNext'
<1> DEFINE Before == ReleaseStages \ {"publish"}
<1> USE DEF CheckedStages
<1>1. ASSUME NEW c, PushedByPeople(c) PROVE VersionStaysNext'
  <2>1. next' = next /\ \A u : VersionsOf(u)' = VersionsOf(u)
    BY <1>1 DEF PushedByPeople, VersionsOf
  <2>2. \A i \in RunIds : stage'[i] \in Before => stage[i] \in Before /\ main'[i] = main[i]
    BY <1>1, PeopleStages
  <2> QED BY <2>1, <2>2 DEF VersionStaysNext
<1>2. ASSUME NEW r \in RunIds, QuietStep(r) PROVE VersionStaysNext'
  <2>1. /\ Moves(r) /\ main' = main /\ tags' = tags /\ stage \in [RunIds -> Stages]
        /\ next' = next \/ stage[r] = "version_check"
    BY <1>2, QuietMoves DEF TypeOK
  <2>2. \A u : VersionsOf(u)' = VersionsOf(u)
    BY <2>1 DEF VersionsOf
  <2>3. ASSUME stage'[r] \in Before
        PROVE  next'[r] = NextVersion(VersionsOf(main[r].scope), main[r].bump)
    <3>1. \/ next' = [next EXCEPT ![r] = NextVersion(VersionsOf(main[r].scope), main[r].bump)]
          \/ stage[r] \in Before /\ next' = next
      BY <2>1, <2>3 DEF Moves, Go, EndRun, EndStages, ReleaseStages
    <3> QED BY <3>1 DEF VersionStaysNext, TypeOK
  <2>4. \A i \in RunIds : stage'[i] \in Before => i = r
    BY <1>2, OthersIdle
  <2> QED BY <2>1, <2>2, <2>3, <2>4 DEF VersionStaysNext
<1>3. ASSUME NEW r \in RunIds,
             PushRejected(r) \/ \E bot \in Bots : PushAccepted(r, bot)
      PROVE  VersionStaysNext'
  <2>1. stage'[r] \notin Before
    BY <1>3 DEF PushRejected, PushAccepted, Go, Queued, TypeOK, ReleaseStages
  <2>2. \A i \in RunIds : stage'[i] \notin Before
    BY <1>3, <2>1, OthersIdle
  <2> QED BY <2>2 DEF VersionStaysNext
<1>4. CASE OtherStep \/ UNCHANGED vars
  <2>1. main' = main /\ stage' = stage /\ next' = next /\ tags' = tags
    BY <1>4, OtherMoves
  <2>2. \A u : VersionsOf(u)' = VersionsOf(u)
    BY <2>1 DEF VersionsOf
  <2> QED BY <2>1, <2>2 DEF VersionStaysNext
<1> QED BY <1>1, <1>2, <1>3, <1>4, StepShapes

-----------------------------------------------------------------------------
(***************************************************************************)
(* The theorems.                                                           *)
(***************************************************************************)

LEMMA InitInv ==
  ASSUME Init
  PROVE  IInv
<1>1. TypeOK
  <2>1. /\ main \in Seq(Commits) /\ Len(main) <= MaxCommits
        /\ running \in 0..MaxCommits /\ pending \in 0..MaxCommits
    BY BoundsAssumption DEF Init
  <2>2. /\ stage \in [RunIds -> Stages]
        /\ head \in [RunIds -> 0..MaxCommits] /\ origin \in [RunIds -> 0..MaxCommits]
        /\ next \in [RunIds -> Versions]
    BY BoundsAssumption DEF Init, Stages, Versions
  <2>3. tags \subseteq Tags /\ ghReleases \subseteq Tags /\ protection \in BOOLEAN
    BY DEF Init
  <2>4. /\ marker \in [run : 0..MaxCommits, age : 0..LockMaxAge]
        /\ wd \in [pc : {"idle", "count", "delete"}, age : 0..LockMaxAge]
    BY BoundsAssumption, LockMaxAgeAssumption DEF Init, NoMarker
  <2> QED BY <2>1, <2>2, <2>3, <2>4 DEF TypeOK
<1> USE DEF Init, LiveStages, ValidationStages, ReleaseStages, UnlockStages
<1>2. LaneInv /\ ReviewedInv /\ BotInv
  BY BoundsAssumption DEF LaneInv, ReviewedInv, BotInv
<1>3. \A u : VersionsOf(u) = {}
  BY DEF VersionsOf
<1>4. LatestInv /\ SourceInv
  BY <1>3 DEF LatestInv, SourceInv
<1>5. ReleaseUnderProtection /\ LockedBaseMovedOnlyByAdmins /\ VersionStaysNext
  BY DEF ReleaseUnderProtection, LockedBaseMovedOnlyByAdmins, VersionStaysNext
<1>6. NoDanglingTag /\ VersionsFollowMain /\ OneReleasePerPullRequest
  BY DEF NoDanglingTag, VersionsFollowMain, OneReleasePerPullRequest
<1> QED BY <1>1, <1>2, <1>4, <1>5, <1>6 DEF IInv

LEMMA NextInv ==
  ASSUME IInv, [Next]_vars
  PROVE  IInv'
<1> USE DEF IInv
<1>1. TypeOK'                       BY TypeStep
<1>2. LaneInv'                      BY LaneInvStep
<1>3. ReviewedInv'                  BY ReviewedStep
<1>4. BotInv'                       BY BotStep
<1>5. LatestInv'                    BY LatestStep
<1>6. SourceInv'                    BY SourceStep
<1>7. ReleaseUnderProtection'       BY ProtectionStep
<1>8. LockedBaseMovedOnlyByAdmins'  BY LockedBaseStep
<1>9. NoDanglingTag'                BY DanglingStep
<1>10. VersionsFollowMain'          BY VersionsStep
<1>11. VersionStaysNext'            BY StaysNextStep
<1>12. OneReleasePerPullRequest'    BY OneReleaseStep
<1> QED BY <1>1, <1>2, <1>3, <1>4, <1>5, <1>6, <1>7, <1>8, <1>9, <1>10, <1>11, <1>12

\* IInv is an inductive invariant of the release pipeline.
THEOREM Invariance == Spec => []IInv
<1>1. Init => IInv
  BY InitInv
<1>2. IInv /\ [Next]_vars => IInv'
  BY NextInv
<1> QED BY <1>1, <1>2, PTL DEF Spec

\* Every variable of the pipeline keeps its type, the lock marker's age and
\* the versions included.
THEOREM TypeCorrect == Spec => []TypeOK
<1>1. IInv => TypeOK
  BY DEF IInv
<1> QED BY <1>1, Invariance, PTL

\* Main stays locked under a release from its lock to its push: the watchdog
\* and the unlock jobs of other runs never take the protection away (B15).
THEOREM LockHolds == Spec => []ReleaseUnderProtection
<1>1. IInv => ReleaseUnderProtection
  BY DEF IInv
<1> QED BY <1>1, Invariance, PTL

\* Only an admin's push can make the push of a release fail.
THEOREM BaseIsHeld == Spec => []LockedBaseMovedOnlyByAdmins
<1>1. IInv => LockedBaseMovedOnlyByAdmins
  BY DEF IInv
<1> QED BY <1>1, Invariance, PTL

\* Every tag points at its own release commit on main.
THEOREM TagsAreOnMain == Spec => []NoDanglingTag
<1>1. IInv => NoDanglingTag
  BY DEF IInv
<1> QED BY <1>1, Invariance, PTL

\* The versions of a unit increase along main.
THEOREM VersionsIncrease == Spec => []VersionsFollowMain
<1>1. IInv => VersionsFollowMain
  BY DEF IInv
<1> QED BY <1>1, Invariance, PTL

\* The version derived before the lock is still the next one at the push.
THEOREM VersionIsFresh == Spec => []VersionStaysNext
<1>1. IInv => VersionStaysNext
  BY DEF IInv
<1> QED BY <1>1, Invariance, PTL

\* A pull request is released once, with the bump its title and its squash
\* subject agree on, and no release commit is released (B16).
THEOREM ReleasedOnce == Spec => []OneReleasePerPullRequest
<1>1. IInv => OneReleasePerPullRequest
  BY DEF IInv
<1> QED BY <1>1, Invariance, PTL

-----------------------------------------------------------------------------
(***************************************************************************)
(* Refinement: the tags are the ledger of ReleaseLedger.                   *)
(***************************************************************************)

Entries == {[unit |-> t.unit, ver |-> t.ver] : t \in tags}

LEMMA LedgerVersions ==
  ASSUME TypeOK, NEW u
  PROVE  Ledger!VersionsOf(u) = VersionsOf(u)
<1>1. \A t \in tags : [unit |-> t.unit, ver |-> t.ver].unit = t.unit
                      /\ [unit |-> t.unit, ver |-> t.ver].ver = t.ver
  OBVIOUS
<1>2. ASSUME NEW v \in Ledger!VersionsOf(u) PROVE v \in VersionsOf(u)
  <2>1. PICK t \in tags : t.unit = u /\ t.ver = v
    BY <1>1, <1>2 DEF Ledger!VersionsOf
  <2> QED BY <2>1 DEF VersionsOf
<1>3. ASSUME NEW v \in VersionsOf(u) PROVE v \in Ledger!VersionsOf(u)
  <2>1. PICK t \in tags : t.unit = u /\ t.ver = v
    BY <1>3 DEF VersionsOf
  <2>2. [unit |-> t.unit, ver |-> t.ver] \in Entries
    BY DEF Entries
  <2> QED BY <1>1, <2>1, <2>2 DEF Ledger!VersionsOf, Entries
<1> QED BY <1>2, <1>3

\* The ledger computes versions the way the pipeline does.
LEMMA LedgerNextVersion ==
  ASSUME NEW vs, NEW b
  PROVE  Ledger!NextVersion(vs, b) = NextVersion(vs, b)
<1>1. \A v \in vs : Ledger!IsLatest(v, vs) = IsLatest(v, vs)
  BY DEF Ledger!IsLatest, IsLatest, Ledger!Less, Less
<1>2. Ledger!FindLatest(vs) = FindLatest(vs)
  BY <1>1 DEF Ledger!FindLatest, FindLatest, Ledger!IsLatest, IsLatest, Ledger!Less, Less
<1>3. \A v : Ledger!ApplyBump(v, b) = ApplyBump(v, b)
  BY DEF Ledger!ApplyBump, ApplyBump
<1> QED BY <1>2, <1>3 DEF Ledger!NextVersion, NextVersion

LEMMA LedgerStep ==
  ASSUME IInv, [Next]_vars
  PROVE  [Ledger!Next]_Entries
<1> USE DEF IInv
<1>1. CASE ~ \E r \in RunIds, bot \in Bots : PushAccepted(r, bot)
  BY <1>1, TagsKept DEF Entries
<1>2. ASSUME NEW r \in RunIds, NEW bot \in Bots, PushAccepted(r, bot) PROVE Ledger!Next
  <2> DEFINE u == main[r].scope
             e == [unit |-> u, ver |-> next[r]]
  <2>1. /\ tags' = tags \cup {NewTag(r)} /\ u \in Units
        /\ next[r] = NextVersion(VersionsOf(u), main[r].bump)
    BY <1>2, PushVersions
  <2>2. NewTag(r).unit = u /\ NewTag(r).ver = next[r]
    BY DEF NewTag
  <2>3. Entries' = Entries \cup {e}
    BY <2>1, <2>2 DEF Entries
  <2>4. main[r].bump \in Bumps
    <3>1. r \in 1..Len(main)
      BY <1>2, LiveIsRunning DEF PushAccepted, LiveStages, ReleaseStages, TypeOK
    <3>2. main[r] \in Commits
      BY <3>1 DEF TypeOK
    <3> QED BY <3>2 DEF Commits
  <2>5. next[r] = Ledger!NextVersion(Ledger!VersionsOf(u), main[r].bump)
    BY <2>1, LedgerVersions, LedgerNextVersion
  <2>6. main[r].bump \in Ledger!Bumps
    BY <2>4 DEF Ledger!Bumps, Bumps
  <2> QED BY <2>1, <2>3, <2>5, <2>6 DEF Ledger!Next, Ledger!Publish, Entries
<1> QED BY <1>1, <1>2

\* The pipeline implements the ledger: every step publishes exactly one next
\* version of one unit, or nothing.
THEOREM Refinement == Spec => ImplementsLedger
<1>1. Init => Ledger!Init
  BY DEF Init, Ledger!Init
<1>2. IInv /\ [Next]_vars => [Ledger!Next]_Entries
  BY LedgerStep
<1> QED BY <1>1, <1>2, Invariance, PTL DEF Spec, ImplementsLedger, Ledger!Spec, Entries
=============================================================================

CONSTANTS
  Modules = {m1}
  MergeScopes = {m1, "all"}
  MergeBumps = {"minor","patch"}
  MaxMerges = 2
  MaxCommits = 4
  LockMaxAge = 1
  CountAnswered = TRUE
SPECIFICATION Spec
INVARIANTS
  TypeOK
  ReleaseUnderProtection
  LockedBaseMovedOnlyByAdmins
  NoDanglingTag
  VersionsFollowMain
  VersionStaysNext
  OneReleasePerPullRequest
PROPERTY
  ImplementsLedger
CHECK_DEADLOCK FALSE

CONSTANTS
  Modules = {m1}
  MergeScopes = {m1}
  MergeBumps = {"minor"}
  MaxMerges = 2
  MaxCommits = 4
  LockMaxAge = 1
  CountAnswered = FALSE
SPECIFICATION FairSpec
PROPERTY LaneDrains
CHECK_DEADLOCK FALSE

CONSTANTS
  PullRequests = {"p1", "p2"}
  Files <- MCFiles
  ModuleOf <- MCModuleOf
  Terragrunt = {"live.hcl", "live.md"}
  Docs = {"live.md"}
  VersionFiles = {"a/VERSION"}
  AllModules = {"a", "b"}
  Changes <- MCChanges
  MaxBuild = 2
  MaxEdits = 1
  MaxMoves = 1
SPECIFICATION FairSpec
INVARIANTS
  LandedIsOneScope
  LandedWasTested
  PushAgreesWithQueue
PROPERTY
  QueueDrains
CHECK_DEADLOCK FALSE

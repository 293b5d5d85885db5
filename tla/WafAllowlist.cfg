CONSTANTS
  Jobs <- LaneJobs
  Action <- LaneAction
  AddCidrs <- LaneCidrs
  IpSetName <- LaneIpSet
  Needs <- LaneNeeds
  Priority = 0
  RateRulePriority = 100
  LockRetries = 1
  Foreign <- MCForeign
  MaxEdits = 1
SPECIFICATION FairSpec
INVARIANTS
  ForeignRulesPreserved
  AppliedStaysAllowed
  RemoveLeavesNothing
PROPERTY
  JobsEnd
CHECK_DEADLOCK FALSE

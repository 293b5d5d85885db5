CONSTANTS
  Sweeps = {"run", "daily"}
  Resources = {"topic", "task", "cluster", "bucket", "key", "role", "nat", "cdn",
               "zone1", "zone2", "acl", "pool", "group", "check"}
  Kind <- KindOf
  PartsOf <- OurParts
  Fixtures <- OurFixtures
  MaxFaults = 2
SPECIFICATION FairSpec
INVARIANTS
  SuccessIsWhole
  TakenForGoneIsGone
PROPERTIES
  DelegationsOfOthersStay
  TargetsGo
CHECK_DEADLOCK FALSE

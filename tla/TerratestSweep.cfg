CONSTANTS
  Runs = {"tt1"}
  AutoId = {"tt1"}
  Resources = {"vpc", "nat", "default_sg", "monitor", "named", "stream", "group", "service", "role"}
  Fixtures <- OurFixtures
  RunOf <- Ours
  Kind <- OurKinds
  Tier <- OurTiers
  Needs <- InsideVpc
  MinAge = 2
  GoTimeout = 1
  MaxPasses = 2
  MaxFaults = 1
SPECIFICATION FairSpec
INVARIANTS
  NoMaskedLeak
  GreenRunIsProven
PROPERTIES
  GlobalSweepSparesInFlight
  OrphansSwept
CHECK_DEADLOCK FALSE

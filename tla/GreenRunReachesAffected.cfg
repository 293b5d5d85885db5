CONSTANTS
  Units <- TheUnits
  Shared <- TheShared
  Hcl = {"envcommon", "service"}
  Reads <- TheReads
  DependsOn <- TheDependencies
  Spelled <- TheSpelled
  Env <- TheEnv
  Tier <- TheTier
  EnvAccount <- TheAccounts
  DnsOwner = "a4"
  OwnZone = {"sandbox", "qa"}
  CiDeploy = {"a1", "a3", "a4"}
  OnDemand = {"a2"}
  PerfEnv = "sandbox"
  FirstLive <- TheUnits
  Deployed = {"lake", "delegation", "prodBoot", "qaBoot", "dnsBoot"}
  Changes <- DataChange
  Dispatches <- TheDispatches
  MaxRuns = 2
  MaxFaults = 1
SPECIFICATION FairSpec
PROPERTY
  GreenRunReachesAffected
CHECK_DEADLOCK FALSE

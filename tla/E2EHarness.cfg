SPECIFICATION Spec
CONSTANTS
  Deployments <- MCDeployments
  Count = 2
  EventTypes <- MCEventTypes
  Varieties <- MCVarieties
  SizeOf <- MCSizeOf
  Envelope = 1
  MaxBody = 4
  Structured <- MCStructured
  Burst = 2
  PollBudget = 2
  PageKeys = 1
  MaxDay = 1
  MaxCopies = 2
  MaxFaults = 2
INVARIANTS
  GreenRunLostNothing
  ResidueIsLate
PROPERTIES
  CleanupTouchesOwnData
  GateEnds
CHECK_DEADLOCK FALSE

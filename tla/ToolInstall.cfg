CONSTANTS
  Tools <- Pinned
  Method <- MethodOf
  MaxPin = 2
  MaxInterruptions = 2
SPECIFICATION FairSpec
INVARIANTS
  ExitZeroReportsPins
PROPERTY
  RerunsRepair
CHECK_DEADLOCK FALSE

CONSTANTS
  Messages <- MCMessages
  d1 = d1
  d2 = d2
  Deliveries = {d1, d2}
  Envelopes <- MCEnvelopes
  ServiceToolMap <- MCServiceToolMap
  PutRecordBatchMax = 2
  ReingestMaxAttempts = 2
  StreamRetries = 1
  MaxBatch = 2
SPECIFICATION FairSpec
INVARIANTS
  NoEventLost
  NoRowTwicePerPass
  RawRowsAttributed
PROPERTY
  StreamDrains
CHECK_DEADLOCK FALSE

SPECIFICATION FairHistorySpec
CONSTANTS
  FullThreshold = 1023
  Width = 65536
  WaitStart = 5
  QueueSizes = {0, 1}
INVARIANT TypeOK
INVARIANT NeverWider
PROPERTY QuietOpensOrExhausted

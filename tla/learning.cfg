SPECIFICATION FairSpec
CONSTANTS
  Algorithms <- AllAlgorithms
  FullThreshold = 11
  Width = 64
  CounterStart = 1
  QueueSizes <- Sizes
  m_learningThreshold = 5
  m_newGroupThreshold = 10
  BeaconMillis = 8
  TauMillis <- TausScaled
  MaxHistory = 2
  MaxDelta = 24
\* Algorithm_8 may end the process by a division by zero.
CHECK_DEADLOCK FALSE
INVARIANT TypeOK
INVARIANT GroupsNested
INVARIANT DeltaBounded
PROPERTY QuietNeverCloses
PROPERTY BusyOpensOnlyByWrap
PROPERTY QuietOpens

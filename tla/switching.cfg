SPECIFICATION FairSpec
CONSTANTS
  FullThreshold = 2
  Width = 20
  value = 1
  Populations = {1, 2}
  SecondWave = TRUE
  QueueSizes = {0, 10, 101}
  Selectable = {0, 3, 5, 6, 7, 100}
  CounterStart = 1
  m_learningThreshold = 5
  m_newGroupThreshold = 10
  MaxHistory = 1
  MaxDelta = 17
  MaxSwitches = 4
  MaxAnnouncements = 3
CHECK_DEADLOCK FALSE
INVARIANT TypeOK
PROPERTY QuietClosesForGroups
PROPERTY BothGroupsShare
PROPERTY QuietOpensOrStuck

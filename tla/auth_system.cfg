SPECIFICATION FairSystem
CONSTANTS
  s1 = s1
  s2 = s2
  Stations = {s1, s2}
  assocVaule <- FirstAndLast
  Thresholds <- AllThresholds
  Distributed = FALSE
  m_minTI = 1
  m_maxTI = 1
  ActiveProbing = FALSE
  Compatible = {s1, s2}
  Sensors = {s1}
  MaxLate = 0
  MaxSize = 2
  MaxLost = 1
  MaxMissed = 0
  MaxDisassoc = 0
  MaxSwitches = 0
  FullThreshold = 15
  Width = 65536
  WaitStart = 2
PROPERTY AllGetIn

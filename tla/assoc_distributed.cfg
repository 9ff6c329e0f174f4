SPECIFICATION FairSpec
CONSTANTS
  s1 = s1
  s2 = s2
  Stations = {s1, s2}
  assocVaule <- ValuesTwo
  Thresholds = {0}
  Distributed = TRUE
  m_minTI = 1
  m_maxTI = 3
  ActiveProbing = FALSE
  Compatible = {s1, s2}
  Sensors = {s1}
  MaxLate = 0
  MaxSize = 2
  MaxLost = 2
  MaxMissed = 1
  MaxDisassoc = 0
  MaxSwitches = 0
PROPERTY EveryStationJoins
INVARIANT TypeOK

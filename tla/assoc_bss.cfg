SPECIFICATION FairSpec
CONSTANTS
  s1 = s1
  s2 = s2
  Stations = {s1, s2}
  assocVaule <- ValuesTwo
  Thresholds = {1, 2}
  Distributed = FALSE
  m_minTI = 1
  m_maxTI = 3
  ActiveProbing = TRUE
  Compatible = {s1}
  Sensors = {s1}
  MaxLate = 1
  MaxSize = 2
  MaxLost = 1
  MaxMissed = 0
  MaxDisassoc = 1
  MaxSwitches = 1
PROPERTY OnlyAdmitted
PROPERTY EveryStationJoins
PROPERTY LeaveCompletes
INVARIANT NeverWaitsForever
INVARIANT NoStaleTimer
INVARIANT Agreement

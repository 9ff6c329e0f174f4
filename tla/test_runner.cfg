SPECIFICATION FairSpec
CONSTANTS
  Suites = 2
  N = 3
  Workers = {w1, w2}
  Translate = TRUE
  MaxDeaths = 1
INVARIANT TypeOK
INVARIANT SuccessIsEarned
INVARIANT ReportComplete
PROPERTY RunEnds
CHECK_DEADLOCK FALSE

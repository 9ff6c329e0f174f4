SPECIFICATION Spec
CONSTANTS
  Suites = 2
  N = 3
  Workers = {w1, w2}
  Translate = TRUE
  MaxDeaths = 1
INVARIANT ValgrindReported
CHECK_DEADLOCK FALSE

SPECIFICATION FairHistorySpec
CONSTANTS
  Timers = {t1, t2, t3, t4}
  Periods = {1, 2}
  MaxClicks = 3
INVARIANT TypeOK
INVARIANT PauseStops
PROPERTY PlayGoesOn
PROPERTY PauseSettles
PROPERTY QuitEnds
CHECK_DEADLOCK FALSE

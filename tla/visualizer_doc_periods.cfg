SPECIFICATION Spec
CONSTANTS
  Timers = {t1, t2, t3, t4}
  Periods = {1, 2}
  MaxClicks = 3
PROPERTY PeriodsDelivered
CHECK_DEADLOCK FALSE

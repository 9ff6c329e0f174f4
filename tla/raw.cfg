SPECIFICATION FairSpec
CONSTANTS
  s1 = s1
  s2 = s2
  Stations = {s1, s2}
  Queue = "Edca"
  AID <- Aids
  Rpsset <- Windows
  Interval = 2
  Jitter = 1
  MaxQueue = 1
INVARIANT TypeOK
INVARIANT SlotsObserved
INVARIANT NoForgottenFrame
PROPERTY AccessReturns

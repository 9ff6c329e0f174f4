CONSTANTS
  MaxEpisodes = 3
  MaxStates = 3
  MaxInterrupts = 2
SPECIFICATION FairSpec
INVARIANT TypeOK
INVARIANT AbandonedAreStopped
PROPERTY RefinesEpisode
PROPERTY CallsReturn
PROPERTY SimsExit
\* The agent may close the environment for good.
CHECK_DEADLOCK FALSE

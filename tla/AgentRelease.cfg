SPECIFICATION FairSpec
CONSTANTS
  MaxRuns = 2
  MaxVersion = 2
  Version <- Numbered
  Bundled = 1
  MaxFaults = 1
INVARIANTS NeverOlder StampHonest
PROPERTIES EventuallyCurrent RolloutReaches
CHECK_DEADLOCK FALSE

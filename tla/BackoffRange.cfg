SPECIFICATION PacingSpec
CONSTANTS
  MaxFailures = 8
  Jitters <- AllJitters
INVARIANT WaitInRange
PROPERTY GrowsToCap

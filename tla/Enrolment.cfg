SPECIFICATION FairSpec
CONSTANTS
  Passes = {"routine", "elevated"}
  Tokens = {1, 2, 3}
  MaxCAs = 3
  Life = 4
  Renewal = 1
  MaxTime = 3
  MaxElevated = 2
  MaxFaults = 1
INVARIANTS TokenWorks CertsFit
PROPERTIES RenewalSticks EventuallyEnrolled
CHECK_DEADLOCK FALSE

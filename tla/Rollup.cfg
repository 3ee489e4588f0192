SPECIFICATION FairSpec
CONSTANTS
  MaxTime = 6
  MaxSamples = 2
  MaxDelay = 6
  HoursPerDay = 2
  RawRetention = 2
  HourRetention = 4
  DayRetention = 5
  MaxPass = 1
  Workers = {w1, w2}
  MaxCrashes = 1
INVARIANTS OnTimeKept HoursPromoted ShortWindowsExact
PROPERTIES BucketsStay EventuallyRolled

SPECIFICATION Spec
CONSTANTS
  MaxTime = 4
  MaxSamples = 2
  MaxDelay = 0
  HoursPerDay = 2
  RawRetention = 4
  HourRetention = 6
  DayRetention = 8
  MaxPass = 1
  Workers = {w1}
  MaxCrashes = 0
PROPERTY CompletedHoursRolled

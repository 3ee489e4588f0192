SPECIFICATION FairSpec
CONSTANTS
  r1 = r1 r2 = r2 off = off low = low
  Rules = {r1, r2}
  Agents = {a1}
  Conditions = {off, low}
  Offline = off
  Malformed = bad
  Default <- TwoDefaults
  None = None
  MaxChanges = 3
  MaxFaults = 1
INVARIANTS OneOpen AnnouncedOnce
PROPERTIES PersistentReopens ClearedResolves

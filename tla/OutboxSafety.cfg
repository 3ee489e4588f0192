SPECIFICATION FairSpec
CONSTANTS
  MaxEvents = 4
  Metrics = {2}
  Poison = {3}
  Passes = {"routine", "elevated"}
  BatchLimit = 2
  MaxOutboxRows = 2
  MaxFaults = 2
INVARIANTS TypeOK NothingLost StoredOnce MessageIdsUnique
PROPERTIES FeedSpec EventuallyStored

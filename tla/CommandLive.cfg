SPECIFICATION FairSpec
CONSTANTS
  Cmds = {1, 2}
  Kind <- MixedKinds
  Passes = {"routine", "elevated"}
  Handlers = {h1, h2}
  Window = 1
  PollLimit = 1
  SlowCycle = TRUE
  MaxFaults = 1
  MaxStagings = 0
  MaxRestarts = 1
  MaxElevated = 1
PROPERTIES EventuallyOffered SettlesUnlessSpoiled LifecycleSpec

SPECIFICATION Spec
CONSTANTS
  Cmds = {1}
  Kind <- PlainKinds
  Passes = {"routine", "elevated"}
  Handlers = {h1, h2}
  Window = 1
  PollLimit = 1
  SlowCycle = FALSE
  MaxFaults = 0
  MaxStagings = 0
  MaxRestarts = 0
  MaxElevated = 2
INVARIANT AtMostOnce

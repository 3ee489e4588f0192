SPECIFICATION Spec
CONSTANTS
  Cmds = {1, 2}
  Kind <- MixedKinds
  Passes = {"routine", "elevated"}
  Handlers = {h1, h2}
  Window = 1
  PollLimit = 2
  SlowCycle = FALSE
  MaxFaults = 1
  MaxStagings = 1
  MaxRestarts = 1
  MaxElevated = 1
SYMMETRY HandlerSymmetry
INVARIANTS
  TypeOK RunsAccountedFor PortalShowsDelivery ReportedIsSaved NoUninvitedReboot

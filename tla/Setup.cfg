SPECIFICATION FairSpec
CONSTANTS
  Setups = {s1, s2}
  WithSmtp = {s1}
  Builds = {b1}
  Usernames = {"ann", "bob"}
  Keys = {1, 2, 3, 4, 5, 6, 7}
  EnvKeys = {0, 1}
  None = none
  Garbled = garbled
  MaxFaults = 2
INVARIANTS OneKey CompleteIsWhole NeverSealedTwice
PROPERTY SetupCompletes

SPECIFICATION FairSpec
CONSTANTS
  Handlers = {h1, h2}
  Accounts = {anne, bob}
  First = anne
  Passwords = {"pw1", "pw2"}
  Edits <- SomeEdits
  LOGIN_WINDOW = 1
  LOGIN_MAX = 1
  FAILED_MAX = 1
  LOCKOUT_SECONDS = 2
  API_WINDOW = 0
  API_MAX = 1
  MaxTrouble = 3
INVARIANTS SomebodyActive FailuresBounded
PROPERTIES LockEnds

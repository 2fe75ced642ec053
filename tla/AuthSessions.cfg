SPECIFICATION Spec
CONSTANTS
  Calls = {c1, c2}
  Users = {alice}
  Workspaces = {school}
  SessionIds = {s1, s2}
  Tokens = {t1}
  Passwords = {first, second}
  Enders <- Bumping
  FirstPassword = first
  None = None
  MaxVersion = 3
  MaxFaults = 1
CONSTRAINT Watched
SYMMETRY Interchangeable
INVARIANTS
  TypeOK
  EndedStaysOut
  NoSessionOfOldPassword
  TokenCompletesOnce
CHECK_DEADLOCK FALSE

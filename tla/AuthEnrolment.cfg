SPECIFICATION Spec
CONSTANTS
  Calls = {c1, c2, c3}
  Emails = {admin, e1}
  Admin = admin
  School = school
  Personals = {w1, w2}
  Tokens = {t1}
  None = None
  MaxFaults = 1
SYMMETRY EnrolmentSymmetry
INVARIANTS
  AcceptedIsBacked
  TokenNotReplayed
  AnsweredHasWorkspace
CHECK_DEADLOCK FALSE

SPECIFICATION Spec
CONSTANTS
  Requests = {r1}
  Caps <- CapsTried
  None = None
  MaxCalls = 7
INVARIANTS
  TrailTellsTheRun
  TokensCoverCalls
PROPERTY
  RunsEnd
CHECK_DEADLOCK FALSE

SPECIFICATION FairSpec
CONSTANTS
  Dispatches = {d1, d2, d3}
  Messages = {m1, m2, untemplated}
  Templated = {m1, m2}
  Events = {e1, e2}
  AdapterResults = {"dispatched", "rejected"}
  None = None
  MaxFaults = 1
INVARIANTS
  WaitsAreShort
  AuditedOnce
  DuplicateIsOnRecord
PROPERTY EveryDispatchAnswered
CHECK_DEADLOCK FALSE

SPECIFICATION Spec
CONSTANTS
  Editors = {e1}
  Readers = {}
  Payloads <- Drafts
  Document <- Structure
  None = None
  PoolMax = 2
  MaxRevision = 5
  MaxVersion = 2
  MaxFaults = 0
  MAX_BLOCKS = 1
  MAX_ITEMS = 1
  MAX_CTAS = 1
INVARIANT PublishFindsItsVersionFree
CHECK_DEADLOCK FALSE

SPECIFICATION Spec
CONSTANTS
  Editors = {e1, e2}
  Readers = {r1}
  Payloads <- Drafts
  Document <- Structure
  None = None
  PoolMax = 3
  MaxRevision = 4
  MaxVersion = 2
  MaxFaults = 1
  MAX_BLOCKS = 1
  MAX_ITEMS = 1
  MAX_CTAS = 1
SYMMETRY EditorSymmetry
INVARIANTS
  PublicPointerResolves
  SerialEditsSeeTheirBase
  ClientsComeBack
PROPERTY
  ReadersNeverGoBack

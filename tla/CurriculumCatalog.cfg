SPECIFICATION Spec
CONSTANTS
  Items = {"c1", "u1", "m1"}
  Depth = 3
  Level <- OneOfEachLevel
  Tenants = {t1}
  Payloads = {"a", "b"}
  Approved = {"a"}
  Inactive = {"b"}
  Publishers = {p1, p2}
  Authors = {a1}
  Readers = {r1}
  None = None
  MaxVersions = 3
  MaxDraft = 2
  MaxFaults = 1
SYMMETRY CallSymmetry
INVARIANTS
  PublishersNeverClash
  PublishedRightsApproved
  CommitsWhatIsLocked
PROPERTY
  CatalogAdvances
  ImplementsLog
CHECK_DEADLOCK FALSE

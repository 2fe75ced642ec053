SPECIFICATION Spec
CONSTANTS
  Items = {"c1", "u1", "m1"}
  Depth = 3
  Level <- OneOfEachLevel
  Tenants = {t1}
  Payloads = {"a", "b"}
  Approved = {"a"}
  Inactive = {}
  Publishers = {p1}
  Authors = {a1}
  Readers = {r1}
  None = None
  MaxVersions = 1
  MaxDraft = 2
  MaxFaults = 0
INVARIANT DraftsNeverAppear
CHECK_DEADLOCK FALSE

SPECIFICATION Spec
CONSTANTS
  JobIds = {1, 2}
  Workspaces = {ws}
  Keys = {k1}
  Fingerprints = {f1}
  Workers = {w1, w2}
  TestWorker = wt
  Codes = {"PROVIDER_TIMEOUT", "POLICY_REJECTED"}
  None = None
  LeaseTtlMs = 1
  LeaseSafetyMarginMs = 1
  MaxAttempts = 2
  BackoffBaseMs = 1
  BackoffMaxMs = 2
  Calls <- WorkerCalls
  MaxTime = 2
  MaxClaims = 2
  MaxRecoveries = 1
  MaxInFlight = 2
SYMMETRY WorkerSymmetry
INVARIANTS
  DuplicateFindsReservation
  TrailEndsInStatus
  OneRunningPerWorkspace
  QuotaSettledOnce

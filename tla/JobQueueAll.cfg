SPECIFICATION FairSpec
CONSTANTS
  JobIds = {1}
  Workspaces = {ws}
  Keys = {k1}
  Fingerprints = {f1}
  Workers = {w1, w2}
  TestWorker = wt
  Codes = {"PROVIDER_TIMEOUT", "POLICY_REJECTED"}
  None = None
  LeaseTtlMs = 1
  LeaseSafetyMarginMs = 1
  MaxAttempts = 2
  BackoffBaseMs = 1
  BackoffMaxMs = 2
  Calls <- AllCalls
  MaxTime = 2
  MaxClaims = 2
  MaxRecoveries = 1
  MaxInFlight = 3
INVARIANTS
  HeldWhileRunning
  CommittedOncePerSuccess
  NoQuotaLeak
  SuccessIsEffected
PROPERTIES
  FinishedStaysFinished
  FailedLeavesAudited
  ClaimIsRespected
  ImplementsPool
  SubmissionCompletes
  FinishedIsSettled

SPECIFICATION ScheduleSpec
CONSTANTS
  Bases <- SmallBases
  Caps <- SmallCaps
  AttemptCaps <- SmallAttemptCaps
  Failures = {"PROVIDER_TIMEOUT", "TRANSIENT_ERROR", "SCHEMA_FAILURE", "OUT_OF_DISK"}
INVARIANTS
  DelayIsCappedOnce
  ParkedAtTheCap
PROPERTY DelaysNeverShrink
CHECK_DEADLOCK FALSE

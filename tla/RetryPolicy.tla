---------------------------- MODULE RetryPolicy ----------------------------
(***************************************************************************)
(* The retry policy of the job queue: infrastructure/queue/policy/         *)
(* backoff.ts.  Failure codes are classified, and a retryable failure      *)
(* below the attempt cap is given an exponential delay with a fixed 50%    *)
(* jitter.  Delays are natural numbers of milliseconds; the powers of two  *)
(* stay exact because maxAttempts is at most 20 (config/queue.env.ts).     *)
(***************************************************************************)
EXTENDS Integers

RetryableCodes == {"PROVIDER_TIMEOUT", "RATE_LIMITED", "TRANSIENT_ERROR"}

TerminalCodes == {"UNSUPPORTED_SOURCE", "INVALID_STATE", "SCHEMA_FAILURE",
                  "POLICY_REJECTED", "UNAUTHORIZED"}

Smaller(a, b) == IF a <= b THEN a ELSE b

Larger(a, b) == IF a <= b THEN b ELSE a

\* Every code that is not known to be retryable is terminal, the known
\* terminal codes and the unknown ones alike.
ClassifyFailure(code) ==
    IF code \in RetryableCodes THEN "retryable" ELSE "terminal"

\* The unjittered delay of an attempt: the base doubled for each attempt
\* after the first, never above the cap.
Exponential(attempt, baseMs, maxMs) ==
    Smaller(maxMs, baseMs * 2 ^ Larger(0, attempt - 1))

\* A plausible bug: the jitter is added after the cap was applied.
UncappedBackoff(attempt, baseMs, maxMs) ==
    LET exp == Exponential(attempt, baseMs, maxMs) IN exp + exp \div 2

\* A plausible bug: the jitter wraps around the cap instead of meeting it.
WrappingBackoff(attempt, baseMs, maxMs) ==
    LET exp == Exponential(attempt, baseMs, maxMs)
    IN  (exp + exp \div 2) % (maxMs + 1)

ComputeBackoff(attempt, baseMs, maxMs) ==
    LET exp == Exponential(attempt, baseMs, maxMs)
    IN  Smaller(maxMs, exp + exp \div 2)

\* A plausible bug: the cap is compared one attempt too late.
RetriesPastCap(attempt, maxAttempts, code) ==
    ClassifyFailure(code) = "retryable" /\ attempt <= maxAttempts

\* decideRetry's condition: a retryable code and attempts left.
MayRetry(attempt, maxAttempts, code) ==
    ClassifyFailure(code) = "retryable" /\ attempt < maxAttempts
=============================================================================

--------------------------- MODULE RetrySchedule ---------------------------
(***************************************************************************)
(* One job that fails again and again, as failNextJobRetryable sees it:    *)
(* each claim adds an attempt, and decideRetry either answers a delay or   *)
(* says that the job is to be parked as a dead letter.                     *)
(***************************************************************************)
EXTENDS RetryPolicy

CONSTANTS
    Bases,       \* values of backoffBaseMs
    Caps,        \* values of backoffMaxMs
    AttemptCaps, \* values of maxAttempts
    Failures     \* failure codes

NotParked == "none"

ASSUME ScheduleAssumption ==
    /\ Bases \subseteq Nat /\ Caps \subseteq Nat /\ AttemptCaps \subseteq Nat \ {0}
    /\ NotParked \notin Failures

VARIABLES
    options,
    attempt,
    delay,      \* the delay answered last
    parkedBy    \* the code that parked the job, or NotParked

scheduleVars == <<options, attempt, delay, parkedBy>>

\* Options are read from the environment one by one: nothing relates the base
\* to the cap.
ScheduleInit ==
    /\ options \in [baseMs : Bases, maxMs : Caps, maxAttempts : AttemptCaps]
    /\ attempt = 0
    /\ delay = 0
    /\ parkedBy = NotParked

\* The next attempt fails.
FailAttempt(code) ==
    /\ parkedBy = NotParked
    /\ attempt' = attempt + 1
    /\ IF MayRetry(attempt', options.maxAttempts, code)
       THEN /\ delay' = ComputeBackoff(attempt', options.baseMs, options.maxMs)
            /\ UNCHANGED parkedBy
       ELSE parkedBy' = code /\ UNCHANGED delay
    /\ UNCHANGED options

ScheduleNext == \E code \in Failures : FailAttempt(code)

ScheduleSpec == ScheduleInit /\ [][ScheduleNext]_scheduleVars

\* The two caps of computeBackoff, around the exponential and around the
\* jitter, amount to one: the delay is one and a half times the uncapped
\* exponential, rounded down once and capped once.
DelayIsCappedOnce ==
    attempt > 0 /\ parkedBy = NotParked =>
        delay = Smaller(options.maxMs, (3 * options.baseMs * 2 ^ (attempt - 1)) \div 2)

\* A job is claimed at most maxAttempts times before it is parked, and is
\* parked early only by a code that is not known to be retryable.
ParkedAtTheCap ==
    /\ attempt <= options.maxAttempts
    /\ parkedBy \in RetryableCodes => attempt = options.maxAttempts

\* Delays never shrink from one attempt to the next, at the cap least of all.
DelaysNeverShrink == [][delay' >= delay]_scheduleVars
=============================================================================

--------------------------- MODULE JobQueueProofs ---------------------------
(***************************************************************************)
(* Theorems about JobQueue for every set of jobs, workspaces, keys and     *)
(* workers, every lease, margin and retry option and every bound; first    *)
(* about the retry policy by itself, for one job that fails again and      *)
(* again (RetrySchedule).                                                  *)
(***************************************************************************)
EXTENDS JobQueue, RetrySchedule, FiniteSetTheorems, TLAPS

-----------------------------------------------------------------------------
(* The retry policy *)

\* Powers of two are the sizes of power sets, so they grow with the exponent.
LEMMA PowersGrow ==
    ASSUME NEW m \in Nat, NEW n \in Nat, m <= n
    PROVE  2 ^ m \in Nat /\ 2 ^ n \in Nat /\ 2 ^ m <= 2 ^ n
<1>1. ASSUME NEW k \in Nat
      PROVE  /\ IsFiniteSet(SUBSET (1 .. k)) /\ Cardinality(SUBSET (1 .. k)) \in Nat
             /\ Cardinality(SUBSET (1 .. k)) = 2 ^ k
  <2>1. IsFiniteSet(1 .. k) /\ Cardinality(1 .. k) = k
      BY FS_Interval
  <2>2. QED
      BY <2>1, FS_SUBSET, FS_CardinalityType
<1>2. SUBSET (1 .. m) \in SUBSET (SUBSET (1 .. n))
    OBVIOUS
<1>3. Cardinality(SUBSET (1 .. m)) <= Cardinality(SUBSET (1 .. n))
    BY <1>1, <1>2, FS_Subset
<1>4. QED
    BY <1>1, <1>3

LEMMA PowerType ==
    ASSUME NEW n \in Nat, NEW base \in Nat, NEW max \in Nat
    PROVE  2 ^ Larger(0, n - 1) \in Nat /\ Exponential(n, base, max) \in Nat
<1>1. Larger(0, n - 1) \in Nat
    BY DEF Larger
<1>2. 2 ^ Larger(0, n - 1) \in Nat
    BY <1>1, PowersGrow
<1>3. QED
    BY <1>2 DEF Exponential, Smaller

LEMMA BackoffType ==
    ASSUME NEW n \in Nat, NEW base \in Nat, NEW max \in Nat
    PROVE  ComputeBackoff(n, base, max) \in Nat
<1>1. PICK e \in Nat : e = Exponential(n, base, max)
    BY PowerType
<1>2. Smaller(max, e + e \div 2) \in Nat
    BY DEF Smaller
<1>3. QED
    BY <1>1, <1>2 DEF ComputeBackoff

\* The delay of an attempt is at most that of the next.
LEMMA BackoffGrows ==
    ASSUME NEW n \in Nat, NEW base \in Nat, NEW max \in Nat
    PROVE  ComputeBackoff(n, base, max) <= ComputeBackoff(n + 1, base, max)
<1>1. Larger(0, n - 1) \in Nat /\ Larger(0, (n + 1) - 1) \in Nat
      /\ Larger(0, n - 1) <= Larger(0, (n + 1) - 1)
    BY DEF Larger
<1>2. PICK p, q \in Nat :
           p = 2 ^ Larger(0, n - 1) /\ q = 2 ^ Larger(0, (n + 1) - 1) /\ p <= q
    BY <1>1, PowersGrow
<1>3. base * p \in Nat /\ base * q \in Nat /\ base * p <= base * q
    BY <1>2
<1>4. PICK d, e \in Nat : d = Smaller(max, base * p) /\ e = Smaller(max, base * q) /\ d <= e
    BY <1>3 DEF Smaller
<1>5. d = Exponential(n, base, max) /\ e = Exponential(n + 1, base, max)
    BY <1>2, <1>4 DEF Exponential
<1>6. Smaller(max, d + d \div 2) <= Smaller(max, e + e \div 2)
    BY <1>4 DEF Smaller
<1>7. QED
    BY <1>5, <1>6 DEF ComputeBackoff

\* One cap is as good as two: what lies above the cap before the jitter lies
\* above it after the jitter.
LEMMA OneCap ==
    ASSUME NEW n \in Nat, n > 0, NEW base \in Nat, NEW max \in Nat
    PROVE  ComputeBackoff(n, base, max) = Smaller(max, (3 * base * 2 ^ (n - 1)) \div 2)
<1>1. Larger(0, n - 1) = n - 1 /\ 2 ^ (n - 1) \in Int
    BY PowerType DEF Larger
<1>2. PICK power \in Int : power = 2 ^ (n - 1)
    BY <1>1
<1>3. PICK e \in Int : e = base * power
    BY <1>2
<1>4. 3 * base * power = 3 * e
    BY <1>2, <1>3
<1>5. Exponential(n, base, max) = Smaller(max, e)
    BY <1>1, <1>2, <1>3 DEF Exponential
<1>6. Smaller(max, Smaller(max, e) + Smaller(max, e) \div 2) = Smaller(max, (3 * e) \div 2)
  <2>1. CASE e <= max
      BY <2>1 DEF Smaller
  <2>2. CASE e > max
      BY <2>2 DEF Smaller
  <2>3. QED
      BY <2>1, <2>2
<1>7. QED
    BY <1>2, <1>4, <1>5, <1>6 DEF ComputeBackoff

\* A job that is not parked has attempts left, and its delay is that of its last
\* attempt.
ScheduleInv ==
    /\ options \in [baseMs : Bases, maxMs : Caps, maxAttempts : AttemptCaps]
    /\ attempt \in Nat
    /\ ParkedAtTheCap
    /\ delay \in Nat
    /\ parkedBy = NotParked =>
         /\ attempt < options.maxAttempts
         /\ attempt = 0 => delay = 0
         /\ attempt > 0 => delay = ComputeBackoff(attempt, options.baseMs, options.maxMs)

LEMMA OptionsType ==
    ASSUME ScheduleInv
    PROVE  options.baseMs \in Nat /\ options.maxMs \in Nat /\ options.maxAttempts \in Nat \ {0}
BY ScheduleAssumption DEF ScheduleInv

LEMMA ScheduleStart == ScheduleInit => ScheduleInv
<1> SUFFICES ASSUME ScheduleInit PROVE ScheduleInv
    OBVIOUS
<1>1. options.maxAttempts \in Nat \ {0}
    BY ScheduleAssumption DEF ScheduleInit
<1>2. NotParked \notin RetryableCodes
    BY DEF NotParked, RetryableCodes
<1>3. QED
    BY <1>1, <1>2 DEF ScheduleInit, ScheduleInv, ParkedAtTheCap

LEMMA ScheduleStep == ScheduleInv /\ [ScheduleNext]_scheduleVars => ScheduleInv'
<1> SUFFICES ASSUME ScheduleInv, [ScheduleNext]_scheduleVars PROVE ScheduleInv'
    OBVIOUS
<1>1. CASE UNCHANGED scheduleVars
    BY <1>1 DEF scheduleVars, ScheduleInv, ParkedAtTheCap
<1>2. ASSUME NEW code \in Failures, FailAttempt(code) PROVE ScheduleInv'
  <2>1. /\ options' = options /\ attempt' = attempt + 1 /\ parkedBy = NotParked
        /\ attempt < options.maxAttempts /\ options.maxAttempts \in Nat
      BY <1>2, OptionsType DEF FailAttempt, ScheduleInv
  <2>2. attempt' \in Nat /\ attempt' > 0 /\ attempt' <= options.maxAttempts
      BY <2>1 DEF ScheduleInv
  <2>3. CASE MayRetry(attempt', options.maxAttempts, code)
    <3>1. /\ parkedBy' = NotParked /\ attempt' < options.maxAttempts
          /\ delay' = ComputeBackoff(attempt', options.baseMs, options.maxMs)
        BY <1>2, <2>1, <2>3 DEF FailAttempt, MayRetry
    <3>2. NotParked \notin RetryableCodes
        BY DEF NotParked, RetryableCodes
    <3>3. delay' \in Nat
        BY <2>2, <3>1, OptionsType, BackoffType
    <3>4. QED
        BY <2>1, <2>2, <3>1, <3>2, <3>3 DEF ScheduleInv, ParkedAtTheCap
  <2>4. CASE ~MayRetry(attempt', options.maxAttempts, code)
    <3>1. parkedBy' = code /\ code # NotParked /\ delay' = delay
        BY <1>2, <2>4, ScheduleAssumption DEF FailAttempt
    <3>2. code \in RetryableCodes => attempt' = options.maxAttempts
        BY <2>1, <2>2, <2>4 DEF MayRetry, ClassifyFailure
    <3>3. QED
        BY <2>1, <2>2, <3>1, <3>2 DEF ScheduleInv, ParkedAtTheCap
  <2>5. QED
      BY <2>3, <2>4
<1>3. QED
    BY <1>1, <1>2 DEF ScheduleNext

\* A job is parked after its last attempt and before that only by a code that
\* may not be retried, for all options and failure codes.
THEOREM ParkedInTime == ScheduleSpec => []ParkedAtTheCap
<1>1. ScheduleInv => ParkedAtTheCap
    BY DEF ScheduleInv
<1>2. QED
    BY <1>1, ScheduleStart, ScheduleStep, PTL DEF ScheduleSpec

\* However large base, cap and attempt are, the delay is one and a half times
\* the exponential, capped once.
THEOREM DelaysCapped == ScheduleSpec => []DelayIsCappedOnce
<1>1. ScheduleInv => DelayIsCappedOnce
    BY OptionsType, OneCap DEF ScheduleInv, DelayIsCappedOnce
<1>2. QED
    BY <1>1, ScheduleStart, ScheduleStep, PTL DEF ScheduleSpec

\* A job that fails again waits at least as long as the time before, for all
\* options, also where doubling and jitter meet the cap.
THEOREM DelaysGrow == ScheduleSpec => DelaysNeverShrink
<1>1. ScheduleInv /\ [ScheduleNext]_scheduleVars => [delay' >= delay]_scheduleVars
  <2> SUFFICES ASSUME ScheduleInv, NEW code \in Failures, FailAttempt(code)
               PROVE  delay' >= delay
      BY DEF ScheduleNext
  <2>1. delay \in Nat /\ attempt \in Nat /\ attempt' = attempt + 1 /\ parkedBy = NotParked
      BY DEF ScheduleInv, FailAttempt
  <2>2. CASE MayRetry(attempt', options.maxAttempts, code)
    <3>1. /\ delay' = ComputeBackoff(attempt + 1, options.baseMs, options.maxMs)
          /\ options.baseMs \in Nat /\ options.maxMs \in Nat /\ attempt + 1 \in Nat
        BY <2>1, <2>2, OptionsType DEF FailAttempt
    <3>2. delay' \in Nat
        BY <3>1, BackoffType
    <3>3. CASE attempt = 0
      <4>1. delay = 0
          BY <2>1, <3>3 DEF ScheduleInv
      <4>2. QED
          BY <3>2, <4>1
    <3>4. CASE attempt > 0
      <4>1. delay = ComputeBackoff(attempt, options.baseMs, options.maxMs)
          BY <2>1, <3>4 DEF ScheduleInv
      <4>2. delay <= delay'
          BY <2>1, <3>1, <4>1, BackoffGrows
      <4>3. QED
          BY <2>1, <3>2, <4>2
    <3>5. QED
        BY <2>1, <3>3, <3>4
  <2>3. CASE ~MayRetry(attempt', options.maxAttempts, code)
      BY <2>1, <2>3 DEF FailAttempt
  <2>4. QED
      BY <2>2, <2>3
<1>2. QED
    BY <1>1, ScheduleStart, ScheduleStep, PTL DEF ScheduleSpec, DelaysNeverShrink

-----------------------------------------------------------------------------
(* What continuations carry *)

\* What the continuation at the head of the queue carries, by its point.
LEMMA HeadTask ==
    ASSUME TypeOK, microtasks # <<>>
    PROVE  /\ Task \in Tasks
           /\ Tail(microtasks) \in Seq(Tasks)
  BY DEF TypeOK, Task

LEMMA LookedUpTask ==
    ASSUME TypeOK, Runs("submit.lookedUp")
    PROVE  /\ Task.scope \in Scopes
           /\ Task.fingerprint \in Fingerprints
           /\ Task.hit \in IdempotencyRecords \cup {None}
  BY HeadTask DEF Runs, Tasks

LEMMA InsertedTask ==
    ASSUME TypeOK, Runs("submit.inserted")
    PROVE  /\ Task.scope \in Scopes
           /\ Task.fingerprint \in Fingerprints
           /\ Task.job \in JobIds
  BY HeadTask DEF Runs, Tasks

LEMMA ClaimTaskType ==
    ASSUME TypeOK, NEW point \in {"claim.picked", "claim.reserved", "claim.returned"},
           Runs(point)
    PROVE  /\ Task.job \in JobIds
           /\ Task.worker \in Claimants
           /\ Task.attempt \in Nat
           /\ Task.caller \in ClaimCallers
           /\ Task = ClaimTask(point, Task.job, Task.worker, Task.attempt, Task.caller)
  BY HeadTask DEF Runs, Tasks, ClaimTask

LEMMA JobTaskType ==
    ASSUME TypeOK,
           NEW point \in {"submit.indexed", "success.stored", "failure.stored",
                          "retry.stored", "cancel.stored", "recover.stored"},
           Runs(point)
    PROVE  Task.job \in JobIds
  BY HeadTask DEF Runs, Tasks

LEMMA ReapTaskType ==
    ASSUME TypeOK, Runs("reap.stored")
    PROVE  Task.jobs \subseteq JobIds
  BY HeadTask DEF Runs, Tasks
\* Queueing a continuation keeps the event loop well typed.
LEMMA QueueType ==
    ASSUME TypeOK
    PROVE  /\ \A t \in Tasks : Append(microtasks, t) \in Seq(Tasks)
           /\ microtasks # <<>> => Tail(microtasks) \in Seq(Tasks)
           /\ microtasks # <<>> =>
                \A t \in Tasks : Append(Tail(microtasks), t) \in Seq(Tasks)
  <1>1. microtasks \in Seq(Tasks)
    BY DEF TypeOK
  <1>2. microtasks # <<>> => Tail(microtasks) \in Seq(Tasks)
    BY <1>1
  <1>3. ASSUME NEW q \in Seq(Tasks), NEW t \in Tasks
        PROVE  Append(q, t) \in Seq(Tasks)
    OBVIOUS
  <1>4. QED
    BY <1>1, <1>2, <1>3

LEMMA TaskConstructors ==
    /\ \A s \in Scopes, f \in Fingerprints, h \in IdempotencyRecords \cup {None} :
         [at |-> "submit.lookedUp", scope |-> s, fingerprint |-> f, hit |-> h] \in Tasks
    /\ \A s \in Scopes, f \in Fingerprints, j \in JobIds :
         [at |-> "submit.inserted", scope |-> s, fingerprint |-> f, job |-> j] \in Tasks
    /\ \A p \in {"claim.picked", "claim.reserved", "claim.returned"}, j \in JobIds,
          w \in Claimants, n \in Nat, c \in ClaimCallers :
         ClaimTask(p, j, w, n, c) \in Tasks
    /\ \A p \in {"submit.indexed", "success.stored", "failure.stored", "retry.stored",
               "cancel.stored", "recover.stored"}, j \in JobIds :
         JobTask(p, j) \in Tasks
    /\ \A S \in SUBSET JobIds : [at |-> "reap.stored", jobs |-> S] \in Tasks
  BY DEF Tasks, ClaimTask, JobTask

LEMMA TypeOKInit == Init => TypeOK
  BY NoneAssumption DEF Init, TypeOK, NoJob, JobRows, Ledgers

\* Rows and ledger entries after the updates that the actions make.
LEMMA ClaimedRow ==
    ASSUME NEW r \in JobRows, NEW n \in Nat
    PROVE  [r EXCEPT !.status = "running", !.attempt = @ + 1, !.leaseExpiresAt = n] \in JobRows
  <1>1. PICK m \in Nat : m = r.attempt + 1
    BY DEF JobRows
  <1>2. [r EXCEPT !.status = "running", !.attempt = m, !.leaseExpiresAt = n] \in JobRows
    BY DEF JobRows, Statuses
  <1>3. QED
    BY <1>1, <1>2

LEMMA RowUpdate ==
    ASSUME NEW r \in JobRows, NEW n \in Nat
    PROVE  /\ [r EXCEPT !.leaseExpiresAt = n] \in JobRows
           /\ [r EXCEPT !.nextAttemptAt = n] \in JobRows
           /\ [r EXCEPT !.status = "queued", !.nextAttemptAt = n] \in JobRows
  <1>1. n \in Int
    OBVIOUS
  <1>2. QED
    BY <1>1 DEF JobRows, Statuses

LEMMA LedgerUpdate ==
    ASSUME NEW f \in [JobIds -> Ledgers], NEW j \in JobIds
    PROVE  /\ [f EXCEPT ![j].reserved = @ + 1] \in [JobIds -> Ledgers]
           /\ [f EXCEPT ![j].committed = @ + 1] \in [JobIds -> Ledgers]
           /\ [f EXCEPT ![j].released = @ + 1] \in [JobIds -> Ledgers]
  <1>1. /\ [f[j] EXCEPT !.reserved = f[j].reserved + 1] \in Ledgers
        /\ [f[j] EXCEPT !.committed = f[j].committed + 1] \in Ledgers
        /\ [f[j] EXCEPT !.released = f[j].released + 1] \in Ledgers
    BY DEF Ledgers
  <1>2. QED
    BY <1>1

LEMMA SettledType ==
    ASSUME TypeOK, NEW j \in JobIds, NEW outcome \in Statuses
    PROVE  Settled(j, outcome) \in JobRows
  <1>1. jobs[j] \in JobRows
    BY DEF TypeOK
  <1>2. [jobs[j] EXCEPT !.status = outcome, !.leaseExpiresAt = None] \in JobRows
    BY <1>1 DEF JobRows
  <1>3. QED
    BY <1>2 DEF Settled

LEMMA FinishType ==
    ASSUME TypeOK, NEW j \in JobIds, NEW outcome \in Statuses, Finish(j, outcome)
    PROVE  /\ jobs' \in [JobIds -> JobRows]
           /\ workers' \in [JobIds -> Claimants \cup {None}]
  BY SettledType DEF Finish, ReleaseWorker, TypeOK

LEMMA FinishFailedType ==
    ASSUME TypeOK, NEW j \in JobIds, NEW worker, FinishFailed(j, worker)
    PROVE  /\ jobs' \in [JobIds -> JobRows]
           /\ workers' \in [JobIds -> Claimants \cup {None}]
  <1>1. "failed" \in Statuses
    BY DEF Statuses
  <1>2. CASE HeldBy(j, worker)
    BY <1>1, <1>2, FinishType DEF FinishFailed
  <1>3. CASE ~HeldBy(j, worker)
    BY <1>3 DEF FinishFailed, TypeOK
  <1>4. QED
    BY <1>2, <1>3

LEMMA CompleteType ==
    ASSUME TypeOK, NEW j \in JobIds, NEW worker, NEW rest \in Seq(Tasks),
           Complete(j, worker, rest)
    PROVE  TypeOK'
  <1>1. effected' \subseteq JobIds
    BY DEF Complete, WithEffect, TypeOK
  <1>2. CASE HeldBy(j, worker)
    <2>1. /\ jobs' \in [JobIds -> JobRows]
          /\ workers' \in [JobIds -> Claimants \cup {None}]
      BY <1>2, FinishType DEF Complete, Statuses
    <2>2. microtasks' \in Seq(Tasks)
      BY <1>2, TaskConstructors DEF Complete
    <2>3. QED
      BY <1>1, <2>1, <2>2 DEF Complete, TypeOK
  <1>3. CASE ~HeldBy(j, worker)
    BY <1>1, <1>3 DEF Complete, TypeOK
  <1>4. QED
    BY <1>2, <1>3
LEMMA TypeOKSubmit ==
    ASSUME TypeOK,
           \/ \E s \in Scopes, f \in Fingerprints : Submit(s, f)
           \/ SubmitReply \/ SubmitInsert \/ SubmitIndex \/ SubmitReserve
    PROVE  TypeOK'
  <1> USE DEF storeVars, facadeVars
  <1>1. ASSUME NEW s \in Scopes, NEW f \in Fingerprints, Submit(s, f)
        PROVE  TypeOK'
    <2>1. idem[s] \in IdempotencyRecords \cup {None}
      BY DEF TypeOK
    <2>2. microtasks' \in Seq(Tasks)
      BY <1>1, <2>1, QueueType, TaskConstructors DEF Submit, Await
    <2>3. QED
      BY <1>1, <2>2 DEF Submit, TypeOK
  <1>2. ASSUME SubmitReply
        PROVE  TypeOK'
    BY <1>2, QueueType DEF SubmitReply, Runs, Return, TypeOK
  <1>3. ASSUME SubmitInsert
        PROVE  TypeOK'
    <2>1. /\ Task.scope \in Scopes
          /\ Task.fingerprint \in Fingerprints
          /\ microtasks # <<>>
      BY <1>3, LookedUpTask DEF SubmitInsert, Runs
    <2>2. PICK j \in Vacant :
            /\ jobs' = [jobs EXCEPT ![j] = NewJob(Task.scope)]
            /\ AwaitNext([at |-> "submit.inserted", scope |-> Task.scope,
                          fingerprint |-> Task.fingerprint, job |-> j])
      BY <1>3 DEF SubmitInsert
    <2>3. j \in JobIds
      BY DEF Vacant
    <2>4. microtasks' \in Seq(Tasks)
      BY <2>1, <2>2, <2>3, QueueType, TaskConstructors DEF AwaitNext
    <2>5. NewJob(Task.scope) \in JobRows
      BY <2>1 DEF NewJob, NoJob, JobRows, Statuses, Scopes
    <2>6. jobs' \in [JobIds -> JobRows]
      BY <2>2, <2>5 DEF TypeOK
    <2>7. QED
      BY <1>3, <2>4, <2>6 DEF SubmitInsert, TypeOK
  <1>4. ASSUME SubmitIndex
        PROVE  TypeOK'
    <2>1. /\ Task.scope \in Scopes
          /\ Task.fingerprint \in Fingerprints
          /\ Task.job \in JobIds
          /\ microtasks # <<>>
      BY <1>4, InsertedTask DEF SubmitIndex, Runs
    <2>2. microtasks' \in Seq(Tasks)
      BY <1>4, <2>1, QueueType, TaskConstructors DEF SubmitIndex, AwaitNext
    <2>3. idem' \in [Scopes -> IdempotencyRecords \cup {None}]
      BY <1>4, <2>1 DEF SubmitIndex, TypeOK, IdempotencyRecords
    <2>4. QED
      BY <1>4, <2>2, <2>3 DEF SubmitIndex, TypeOK
  <1>5. ASSUME SubmitReserve
        PROVE  TypeOK'
    <2>1. Task.job \in JobIds /\ microtasks # <<>>
      BY <1>5, JobTaskType DEF SubmitReserve, Report, Runs
    <2>2. ledger' \in [JobIds -> Ledgers]
      BY <1>5, <2>1, LedgerUpdate DEF SubmitReserve, Report, Reserve, TypeOK
    <2>3. microtasks' \in Seq(Tasks)
      BY <1>5, <2>1, QueueType DEF SubmitReserve, Report, Return
    <2>4. QED
      BY <1>5, <2>1, <2>2, <2>3 DEF SubmitReserve, Report, TypeOK, Statuses
  <1>6. QED
    BY <1>1, <1>2, <1>3, <1>4, <1>5

LEMMA TypeOKClaim ==
    ASSUME TypeOK,
           \/ \E c \in ClaimCallers, w \in Claimants : ClaimPick(c, w)
           \/ ClaimReserve \/ ClaimLost \/ ClaimReturn
    PROVE  TypeOK'
  <1> USE DEF storeVars, facadeVars
  <1>1. ASSUME NEW c \in ClaimCallers, NEW w \in Claimants, ClaimPick(c, w)
        PROVE  TypeOK'
    <2>1. PICK j \in Claimable : Await(ClaimTask("claim.picked", j, w, 0, c))
      BY <1>1 DEF ClaimPick
    <2>2. microtasks' \in Seq(Tasks)
      BY <2>1, QueueType, TaskConstructors DEF Await, Claimable
    <2>3. QED
      BY <1>1, <2>2 DEF ClaimPick, TypeOK
  <1>2. ASSUME ClaimReserve
        PROVE  TypeOK'
    <2>1. /\ Task.job \in JobIds
          /\ Task.worker \in Claimants
          /\ Task.caller \in ClaimCallers
          /\ microtasks # <<>>
      BY <1>2, ClaimTaskType DEF ClaimReserve, Runs
    <2>2. jobs[Task.job] \in JobRows
      BY <2>1 DEF TypeOK
    <2>3. jobs' \in [JobIds -> JobRows]
      <3>1. fakeNow + LeaseTtlMs \in Nat
        BY OptionsAssumption DEF TypeOK
      <3>2. Claimed(Task.job) \in JobRows
        BY <2>2, <3>1, ClaimedRow DEF Claimed
      <3>3. QED
        BY <1>2, <2>1, <3>2 DEF ClaimReserve, TypeOK
    <2>4. workers' \in [JobIds -> Claimants \cup {None}]
      BY <1>2, <2>1 DEF ClaimReserve, TypeOK
    <2>5. jobs[Task.job].attempt + 1 \in Nat
      BY <2>2 DEF JobRows
    <2>6. microtasks' \in Seq(Tasks)
      BY <1>2, <2>1, <2>5, QueueType, TaskConstructors DEF ClaimReserve, AwaitNext
    <2>7. QED
      BY <1>2, <2>3, <2>4, <2>6 DEF ClaimReserve, TypeOK
  <1>3. ASSUME ClaimLost
        PROVE  TypeOK'
    BY <1>3, QueueType DEF ClaimLost, Runs, Return, TypeOK
  <1>4. ASSUME ClaimReturn
        PROVE  TypeOK'
    <2>1. /\ Task.job \in JobIds
          /\ Task.worker \in Claimants
          /\ Task.attempt \in Nat
          /\ Task.caller \in ClaimCallers
          /\ Task = ClaimTask("claim.reserved", Task.job, Task.worker, Task.attempt, Task.caller)
          /\ microtasks # <<>>
      BY <1>4, ClaimTaskType DEF ClaimReturn, Runs
    <2>2. trail' \in [JobIds -> Statuses \cup {None}]
      BY <1>4, <2>1 DEF ClaimReturn, TypeOK, Statuses
    <2>3. CASE Task.caller = "claim"
      <3>1. granted' = granted \cup {<<Task.job, Task.worker>>} /\ Return
        BY <1>4, <2>3 DEF ClaimReturn
      <3>2. QED
        BY <1>4, <2>1, <2>2, <2>3, <3>1, QueueType DEF ClaimReturn, Return, TypeOK
    <2>4. CASE Task.caller # "claim"
      <3>1. AwaitNext([Task EXCEPT !.at = "claim.returned"]) /\ UNCHANGED granted
        BY <1>4, <2>4 DEF ClaimReturn
      <3>2. [Task EXCEPT !.at = "claim.returned"] =
              ClaimTask("claim.returned", Task.job, Task.worker, Task.attempt, Task.caller)
        BY <2>1 DEF ClaimTask
      <3>3. microtasks' \in Seq(Tasks)
        BY <2>1, <3>1, <3>2, QueueType, TaskConstructors DEF AwaitNext
      <3>4. QED
        BY <1>4, <2>2, <3>1, <3>3 DEF ClaimReturn, TypeOK
    <2>5. QED
      BY <2>3, <2>4
  <1>5. QED
    BY <1>1, <1>2, <1>3, <1>4

LEMMA RescheduledType ==
    ASSUME TypeOK, NEW j \in JobIds, NEW made \in Nat
    PROVE  Rescheduled(j, made) \in JobRows
  <1>1. PICK next \in Int :
          next = fakeNow + ComputeBackoff(made, BackoffBaseMs, BackoffMaxMs)
    <2>1. BackoffBaseMs \in Nat /\ BackoffMaxMs \in Nat
      BY OptionsAssumption
    <2>2. ComputeBackoff(made, BackoffBaseMs, BackoffMaxMs) \in Nat
      BY <2>1, BackoffType
    <2>3. QED
      BY <2>2 DEF TypeOK
  <1>2. jobs[j] \in JobRows
    BY DEF TypeOK
  <1>3. [jobs[j] EXCEPT !.status = "retry_wait", !.attempt = made,
                        !.leaseExpiresAt = None, !.nextAttemptAt = next] \in JobRows
    BY <1>2 DEF JobRows, Statuses
  <1>4. QED
    BY <1>1, <1>3 DEF Rescheduled

\* A continuation that has stored an outcome tells the trail and returns.
LEMMA TypeOKWork ==
    ASSUME TypeOK,
           \/ CrashBeforeProvider \/ CrashAfterProvider \/ WorkFinish \/ CommitSuccess
           \/ \E j \in JobIds, w \in Workers : CompleteClaim(j, w)
    PROVE  TypeOK'
  <1> USE DEF storeVars, facadeVars
  <1>1. ASSUME CrashBeforeProvider
        PROVE  TypeOK'
    BY <1>1, QueueType DEF CrashBeforeProvider, Runs, Return, TypeOK
  <1>2. ASSUME CrashAfterProvider
        PROVE  TypeOK'
    <2>1. Task.job \in JobIds /\ microtasks # <<>>
      BY <1>2, ClaimTaskType DEF CrashAfterProvider, Runs
    <2>2. QED
      BY <1>2, <2>1, QueueType DEF CrashAfterProvider, Return, TypeOK
  <1>3. ASSUME WorkFinish
        PROVE  TypeOK'
    <2>1. Task.job \in JobIds /\ microtasks # <<>>
      BY <1>3, ClaimTaskType DEF WorkFinish, Runs
    <2>2. QED
      BY <1>3, <2>1, QueueType, CompleteType DEF WorkFinish
  <1>4. ASSUME NEW j \in JobIds, NEW w \in Workers, CompleteClaim(j, w)
        PROVE  TypeOK'
    <2>1. microtasks \in Seq(Tasks)
      BY DEF TypeOK
    <2>2. QED
      BY <1>4, <2>1, CompleteType DEF CompleteClaim
  <1>5. ASSUME CommitSuccess
        PROVE  TypeOK'
    <2>1. Task.job \in JobIds /\ microtasks # <<>>
      BY <1>5, JobTaskType DEF CommitSuccess, Report, Runs
    <2>2. ledger' \in [JobIds -> Ledgers]
      BY <1>5, <2>1, LedgerUpdate DEF CommitSuccess, Report, Commit, TypeOK
    <2>3. trail' \in [JobIds -> Statuses \cup {None}]
      BY <1>5, <2>1 DEF CommitSuccess, Report, TypeOK, Statuses
    <2>4. QED
      BY <1>5, <2>1, <2>2, <2>3, QueueType DEF CommitSuccess, Report, Return, TypeOK
  <1>6. QED
    BY <1>1, <1>2, <1>3, <1>4, <1>5

LEMMA TypeOKFail ==
    ASSUME TypeOK,
           FailDeadLetter \/ FailReschedule \/ FailTerminal \/ ReleaseFailed \/ NoteRetry
    PROVE  TypeOK'
  <1> USE DEF storeVars, facadeVars
  <1>1. ASSUME FailDeadLetter
        PROVE  TypeOK'
    <2>1. Task.job \in JobIds /\ microtasks # <<>>
      BY <1>1, ClaimTaskType DEF FailDeadLetter, Runs
    <2>2. /\ jobs' \in [JobIds -> JobRows]
          /\ workers' \in [JobIds -> Claimants \cup {None}]
      BY <1>1, <2>1, FinishFailedType DEF FailDeadLetter
    <2>3. microtasks' \in Seq(Tasks)
      BY <1>1, <2>1, QueueType, TaskConstructors DEF FailDeadLetter, AwaitNext
    <2>4. QED
      BY <1>1, <2>1, <2>2, <2>3 DEF FailDeadLetter, TypeOK
  <1>2. ASSUME FailReschedule
        PROVE  TypeOK'
    <2>1. Task.job \in JobIds /\ Task.attempt \in Nat /\ microtasks # <<>>
      BY <1>2, ClaimTaskType DEF FailReschedule, Runs
    <2>2. Rescheduled(Task.job, Task.attempt) \in JobRows
      BY <2>1, RescheduledType
    <2>3. /\ jobs' \in [JobIds -> JobRows]
          /\ workers' \in [JobIds -> Claimants \cup {None}]
      <3>1. \/ UNCHANGED <<jobs, workers>>
            \/ /\ jobs' = [jobs EXCEPT ![Task.job] = Rescheduled(Task.job, Task.attempt)]
               /\ workers' = [workers EXCEPT ![Task.job] = None]
        BY <1>2 DEF FailReschedule, ReleaseWorker
      <3>2. jobs' \in [JobIds -> JobRows]
        BY <2>1, <2>2, <3>1 DEF TypeOK
      <3>3. workers' \in [JobIds -> Claimants \cup {None}]
        BY <2>1, <3>1 DEF TypeOK
      <3>4. QED
        BY <3>2, <3>3
    <2>4. microtasks' \in Seq(Tasks)
      BY <1>2, <2>1, QueueType, TaskConstructors DEF FailReschedule, AwaitNext
    <2>5. QED
      BY <1>2, <2>3, <2>4 DEF FailReschedule, TypeOK
  <1>3. ASSUME FailTerminal
        PROVE  TypeOK'
    <2>1. Task.job \in JobIds /\ microtasks # <<>>
      BY <1>3, ClaimTaskType DEF FailTerminal, Runs
    <2>2. /\ jobs' \in [JobIds -> JobRows]
          /\ workers' \in [JobIds -> Claimants \cup {None}]
      BY <1>3, <2>1, FinishFailedType DEF FailTerminal
    <2>3. microtasks' \in Seq(Tasks)
      BY <1>3, <2>1, QueueType, TaskConstructors DEF FailTerminal, AwaitNext
    <2>4. QED
      BY <1>3, <2>2, <2>3 DEF FailTerminal, TypeOK
  <1>4. ASSUME ReleaseFailed
        PROVE  TypeOK'
    <2>1. Task.job \in JobIds /\ microtasks # <<>>
      BY <1>4, JobTaskType DEF ReleaseFailed, Report, Runs
    <2>2. ledger' \in [JobIds -> Ledgers]
      BY <1>4, <2>1, LedgerUpdate DEF ReleaseFailed, Report, Release, TypeOK
    <2>3. trail' \in [JobIds -> Statuses \cup {None}]
      BY <1>4, <2>1 DEF ReleaseFailed, Report, TypeOK, Statuses
    <2>4. QED
      BY <1>4, <2>1, <2>2, <2>3, QueueType DEF ReleaseFailed, Report, Return, TypeOK
  <1>5. ASSUME NoteRetry
        PROVE  TypeOK'
    <2>1. Task.job \in JobIds /\ microtasks # <<>>
      BY <1>5, JobTaskType DEF NoteRetry, Report, Runs
    <2>2. trail' \in [JobIds -> Statuses \cup {None}]
      BY <1>5, <2>1 DEF NoteRetry, Report, TypeOK, Statuses
    <2>3. QED
      BY <1>5, <2>1, <2>2, QueueType DEF NoteRetry, Report, Return, TypeOK
  <1>6. QED
    BY <1>1, <1>2, <1>3, <1>4, <1>5

LEMMA TypeOKTimers ==
    ASSUME TypeOK,
           \/ \E j \in JobIds, w \in Workers, now \in 0..MaxTime : Heartbeat(j, w, now)
           \/ \E now \in 0..MaxTime : ReapExpiredLeases(now)
           \/ ReleaseRetryWait \/ NoteReaped
    PROVE  TypeOK'
  <1> USE DEF storeVars, facadeVars
  <1>1. ASSUME NEW j \in JobIds, NEW w \in Workers, NEW now \in 0..MaxTime,
               Heartbeat(j, w, now)
        PROVE  TypeOK'
    <2>1. now \in Nat /\ now + LeaseTtlMs \in Nat
      BY BoundsAssumption, OptionsAssumption
    <2>2. [jobs[j] EXCEPT !.leaseExpiresAt = now + LeaseTtlMs] \in JobRows
      BY <2>1, RowUpdate DEF TypeOK
    <2>3. jobs' \in [JobIds -> JobRows]
      BY <1>1, <2>2 DEF Heartbeat, TypeOK
    <2>4. QED
      BY <1>1, <2>1, <2>3 DEF Heartbeat, TypeOK
  <1>2. ASSUME NEW now \in 0..MaxTime, ReapExpiredLeases(now)
        PROVE  TypeOK'
    <2> DEFINE reaped == {j \in JobIds : Expired(j, now)}
    <2>1. now \in Nat
      BY BoundsAssumption
    <2>2. \A j \in JobIds : Settled(j, "queued") \in JobRows
      BY SettledType DEF Statuses
    <2>3. jobs' \in [JobIds -> JobRows]
      BY <1>2, <2>2 DEF ReapExpiredLeases, TypeOK
    <2>4. workers' \in [JobIds -> Claimants \cup {None}]
      BY <1>2 DEF ReapExpiredLeases, TypeOK
    <2>5. microtasks' \in Seq(Tasks)
      <3>1. CASE reaped # {}
        BY <1>2, <3>1, QueueType, TaskConstructors DEF ReapExpiredLeases, Await
      <3>2. CASE reaped = {}
        BY <1>2, <3>2 DEF ReapExpiredLeases, TypeOK
      <3>3. QED
        BY <3>1, <3>2
    <2>6. QED
      BY <1>2, <2>1, <2>3, <2>4, <2>5 DEF ReapExpiredLeases, TypeOK
  <1>3. ASSUME ReleaseRetryWait
        PROVE  TypeOK'
    <2>1. \A j \in JobIds :
            [jobs[j] EXCEPT !.status = "queued", !.nextAttemptAt = fakeNow] \in JobRows
      BY RowUpdate DEF TypeOK
    <2>2. jobs' \in [JobIds -> JobRows]
      BY <1>3, <2>1 DEF ReleaseRetryWait, TypeOK
    <2>3. QED
      BY <1>3, <2>2 DEF ReleaseRetryWait, TypeOK
  <1>4. ASSUME NoteReaped
        PROVE  TypeOK'
    <2>1. trail' \in [JobIds -> Statuses \cup {None}]
      BY <1>4 DEF NoteReaped, TypeOK, Statuses
    <2>2. QED
      BY <1>4, <2>1, QueueType DEF NoteReaped, Runs, Return, TypeOK
  <1>5. QED
    BY <1>1, <1>2, <1>3, <1>4

LEMMA TypeOKCommands ==
    ASSUME TypeOK,
           \/ \E j \in JobIds : RequestCancel(j) \/ ManualRecover(j)
           \/ ReleaseCancelled \/ NoteRecovered
    PROVE  TypeOK'
  <1> USE DEF storeVars, facadeVars
  <1>1. ASSUME NEW j \in JobIds, RequestCancel(j)
        PROVE  TypeOK'
    <2>1. /\ jobs' \in [JobIds -> JobRows]
          /\ workers' \in [JobIds -> Claimants \cup {None}]
      BY <1>1, FinishType DEF RequestCancel, Statuses
    <2>2. microtasks' \in Seq(Tasks)
      BY <1>1, QueueType, TaskConstructors DEF RequestCancel, Await
    <2>3. QED
      BY <1>1, <2>1, <2>2 DEF RequestCancel, TypeOK
  <1>2. ASSUME NEW j \in JobIds, ManualRecover(j)
        PROVE  TypeOK'
    <2>1. Settled(j, "queued") \in JobRows
      BY SettledType DEF Statuses
    <2>2. [Settled(j, "queued") EXCEPT !.nextAttemptAt = fakeNow] \in JobRows
      BY <2>1, RowUpdate DEF TypeOK
    <2>3. jobs' \in [JobIds -> JobRows]
      BY <1>2, <2>2 DEF ManualRecover, TypeOK
    <2>4. audit' \in [JobIds -> Nat]
      BY <1>2 DEF ManualRecover, Audited, TypeOK
    <2>5. microtasks' \in Seq(Tasks)
      BY <1>2, QueueType, TaskConstructors DEF ManualRecover, Await
    <2>6. QED
      BY <1>2, <2>3, <2>4, <2>5 DEF ManualRecover, TypeOK
  <1>3. ASSUME ReleaseCancelled
        PROVE  TypeOK'
    <2>1. Task.job \in JobIds /\ microtasks # <<>>
      BY <1>3, JobTaskType DEF ReleaseCancelled, Report, Runs
    <2>2. ledger' \in [JobIds -> Ledgers]
      BY <1>3, <2>1, LedgerUpdate DEF ReleaseCancelled, Report, Release, TypeOK
    <2>3. trail' \in [JobIds -> Statuses \cup {None}]
      BY <1>3, <2>1 DEF ReleaseCancelled, Report, TypeOK, Statuses
    <2>4. QED
      BY <1>3, <2>1, <2>2, <2>3, QueueType DEF ReleaseCancelled, Report, Return, TypeOK
  <1>4. ASSUME NoteRecovered
        PROVE  TypeOK'
    <2>1. Task.job \in JobIds /\ microtasks # <<>>
      BY <1>4, JobTaskType DEF NoteRecovered, Report, Runs
    <2>2. trail' \in [JobIds -> Statuses \cup {None}]
      BY <1>4, <2>1 DEF NoteRecovered, Report, TypeOK, Statuses
    <2>3. QED
      BY <1>4, <2>1, <2>2, QueueType DEF NoteRecovered, Report, Return, TypeOK
  <1>5. QED
    BY <1>1, <1>2, <1>3, <1>4

LEMMA TypeOKStep == TypeOK /\ [Next]_vars => TypeOK'
  <1> SUFFICES ASSUME TypeOK, [Next]_vars PROVE TypeOK'
    OBVIOUS
  <1>1. CASE Next
    BY <1>1, TypeOKSubmit, TypeOKClaim, TypeOKWork, TypeOKFail, TypeOKTimers,
       TypeOKCommands DEF Next, RunTask, Call
  <1>2. CASE UNCHANGED vars
    BY <1>2 DEF vars, storeVars, facadeVars, TypeOK
  <1>3. QED
    BY <1>1, <1>2

\* Store, facade and event loop keep their shape for every number of jobs,
\* workers and pending continuations, and every lease and retry option.
THEOREM TypeCorrect == Spec => []TypeOK
  <1>1. QED
    BY TypeOKInit, TypeOKStep, PTL DEF Spec

-----------------------------------------------------------------------------
(* What a step does to the store.  The 27 actions touch the job rows in only *)
(* nine ways, one per mutating method of the store; StoreStepLemma           *)
(* establishes that once, and each property is then proved method by method. *)

Inserted(j) ==
    /\ jobs[j].status = "absent"
    /\ \A k \in Vacant : j <= k
    /\ \E s \in Scopes : jobs' = [jobs EXCEPT ![j] = NewJob(s)]
    /\ UNCHANGED <<workers, audit>>

ClaimedBy(j, w) ==
    /\ Runs("claim.picked") /\ Task.job = j
    /\ jobs[j].status = "queued"
    /\ jobs' = [jobs EXCEPT ![j] = Claimed(j)]
    /\ workers' = [workers EXCEPT ![j] = w]
    /\ UNCHANGED audit

FinishedBy(j, w, outcome) ==
    /\ workers[j] = w
    /\ Finish(j, outcome)
    /\ outcome = "succeeded" => j \in effected'
    /\ UNCHANGED audit

RetriedBy(j, w) ==
    /\ workers[j] = w
    /\ \E n \in Nat : jobs' = [jobs EXCEPT ![j] = Rescheduled(j, n)]
    /\ ReleaseWorker(j)
    /\ UNCHANGED audit

Extended(j) ==
    /\ jobs[j].status = "running"
    /\ \E n \in Nat : jobs' = [jobs EXCEPT ![j].leaseExpiresAt = n]
    /\ UNCHANGED <<workers, audit>>

Reaped(S) ==
    /\ \A j \in S : Expired(j, fakeNow')
    /\ jobs' = [j \in JobIds |-> IF j \in S THEN Settled(j, "queued") ELSE jobs[j]]
    /\ workers' = [j \in JobIds |-> IF j \in S THEN None ELSE workers[j]]
    /\ UNCHANGED audit

Released ==
    /\ jobs' = [j \in JobIds |->
                  IF jobs[j].status = "retry_wait"
                  THEN [jobs[j] EXCEPT !.status = "queued", !.nextAttemptAt = fakeNow]
                  ELSE jobs[j]]
    /\ UNCHANGED <<workers, audit>>

Cancelled(j) ==
    /\ Cancellable(j)
    /\ Finish(j, "cancelled")
    /\ UNCHANGED audit

Recovered(j) ==
    /\ jobs[j].status = "failed"
    /\ jobs' = [jobs EXCEPT ![j] = [Settled(j, "queued") EXCEPT !.nextAttemptAt = fakeNow]]
    /\ audit' = [audit EXCEPT ![j] = @ + 1]
    /\ UNCHANGED workers

\* Every mutation but the two that queue a stopped job again.
SteadyStep ==
    \/ UNCHANGED <<jobs, workers, audit>>
    \/ \E j \in JobIds :
         \/ Inserted(j) \/ Extended(j) \/ Cancelled(j)
         \/ \E w \in Claimants :
              \/ ClaimedBy(j, w) \/ RetriedBy(j, w)
              \/ \E outcome \in {"succeeded", "failed"} : FinishedBy(j, w, outcome)
    \/ \E S \in SUBSET JobIds : Reaped(S)

StoreStep == SteadyStep \/ Released \/ \E j \in JobIds : Recovered(j)

\* completeClaim, directly or from workOnce, is a finish or leaves the rows alone.
LEMMA CompleteStep ==
    ASSUME NEW j \in JobIds, NEW w \in Claimants, NEW rest, Complete(j, w, rest)
    PROVE  SteadyStep /\ effected \subseteq effected'
  <1>1. effected \subseteq effected' /\ j \in effected'
    BY DEF Complete, WithEffect
  <1>2. CASE HeldBy(j, w)
    <2>1. FinishedBy(j, w, "succeeded")
      BY <1>1, <1>2 DEF Complete, FinishedBy, HeldBy
    <2>2. QED
      BY <1>1, <2>1 DEF SteadyStep
  <1>3. CASE ~HeldBy(j, w)
    BY <1>1, <1>3 DEF Complete, SteadyStep
  <1>4. QED
    BY <1>2, <1>3

\* A failure is a finish or leaves the rows alone.
LEMMA FinishFailedStep ==
    ASSUME NEW j \in JobIds, NEW w \in Claimants, FinishFailed(j, w), UNCHANGED audit
    PROVE  SteadyStep
  <1>1. CASE HeldBy(j, w)
    <2>1. FinishedBy(j, w, "failed")
      BY <1>1 DEF FinishFailed, FinishedBy, HeldBy
    <2>2. QED
      BY <2>1 DEF SteadyStep
  <1>2. CASE ~HeldBy(j, w)
    BY <1>2 DEF FinishFailed, SteadyStep
  <1>3. QED
    BY <1>1, <1>2

LEMMA SteadyStepLemma ==
    ASSUME TypeOK, [Next]_vars, ~ReleaseRetryWait, \A j \in JobIds : ~ManualRecover(j)
    PROVE  SteadyStep /\ effected \subseteq effected'
  <1> USE DEF storeVars, facadeVars
  <1>1. ASSUME \/ \E s \in Scopes, f \in Fingerprints : Submit(s, f)
               \/ SubmitReply \/ SubmitIndex \/ SubmitReserve
        PROVE  SteadyStep /\ effected \subseteq effected'
    BY <1>1 DEF Submit, SubmitReply, SubmitIndex, SubmitReserve, Report, SteadyStep
  <1>2. ASSUME SubmitInsert
        PROVE  SteadyStep /\ effected \subseteq effected'
    <2>1. Task.scope \in Scopes
      BY <1>2, LookedUpTask DEF SubmitInsert
    <2>2. PICK j \in Vacant : /\ \A k \in Vacant : j <= k
                              /\ jobs' = [jobs EXCEPT ![j] = NewJob(Task.scope)]
      BY <1>2 DEF SubmitInsert
    <2>3. j \in JobIds /\ Inserted(j)
      BY <1>2, <2>1, <2>2 DEF SubmitInsert, Inserted, Vacant
    <2>4. QED
      BY <1>2, <2>3 DEF SteadyStep, SubmitInsert
  <1>3. ASSUME \/ \E c \in ClaimCallers, w \in Claimants : ClaimPick(c, w)
               \/ ClaimLost \/ ClaimReturn
        PROVE  SteadyStep /\ effected \subseteq effected'
    BY <1>3 DEF ClaimPick, ClaimLost, ClaimReturn, SteadyStep
  <1>4. ASSUME ClaimReserve
        PROVE  SteadyStep /\ effected \subseteq effected'
    <2>1. Task.job \in JobIds /\ Task.worker \in Claimants
      BY <1>4, ClaimTaskType DEF ClaimReserve
    <2>2. ClaimedBy(Task.job, Task.worker)
      BY <1>4 DEF ClaimReserve, ClaimedBy, Reservable
    <2>3. QED
      BY <1>4, <2>1, <2>2 DEF SteadyStep, ClaimReserve
  <1>5. ASSUME CrashBeforeProvider \/ CrashAfterProvider \/ CommitSuccess
        PROVE  SteadyStep /\ effected \subseteq effected'
    BY <1>5 DEF CrashBeforeProvider, CrashAfterProvider, CommitSuccess, Report, SteadyStep
  <1>6. ASSUME WorkFinish
        PROVE  SteadyStep /\ effected \subseteq effected'
    <2>1. Task.job \in JobIds /\ Task.worker \in Claimants
      BY <1>6, ClaimTaskType DEF WorkFinish
    <2>2. QED
      BY <1>6, <2>1, CompleteStep DEF WorkFinish
  <1>7. ASSUME NEW j \in JobIds, NEW w \in Workers, CompleteClaim(j, w)
        PROVE  SteadyStep /\ effected \subseteq effected'
    <2>1. w \in Claimants
      BY DEF Claimants
    <2>2. QED
      BY <1>7, <2>1, CompleteStep DEF CompleteClaim
  <1>8. ASSUME FailDeadLetter \/ FailTerminal
        PROVE  SteadyStep /\ effected \subseteq effected'
    <2>1. Task.job \in JobIds /\ Task.worker \in Claimants
      BY <1>8, ClaimTaskType DEF FailDeadLetter, FailTerminal
    <2>2. QED
      BY <1>8, <2>1, FinishFailedStep DEF FailDeadLetter, FailTerminal
  <1>9. ASSUME FailReschedule
        PROVE  SteadyStep /\ effected \subseteq effected'
    <2>1. Task.job \in JobIds /\ Task.worker \in Claimants /\ Task.attempt \in Nat
      BY <1>9, ClaimTaskType DEF FailReschedule
    <2>2. CASE HeldBy(Task.job, Task.worker) /\ Task.job \in Running
      <3>1. RetriedBy(Task.job, Task.worker)
        BY <1>9, <2>1, <2>2 DEF FailReschedule, RetriedBy, HeldBy
      <3>2. QED
        BY <1>9, <2>1, <3>1 DEF SteadyStep, FailReschedule
    <2>3. CASE ~(HeldBy(Task.job, Task.worker) /\ Task.job \in Running)
      BY <1>9, <2>3 DEF FailReschedule, SteadyStep
    <2>4. QED
      BY <2>2, <2>3
  <1>10. ASSUME ReleaseFailed \/ NoteRetry \/ NoteReaped \/ ReleaseCancelled \/ NoteRecovered
         PROVE  SteadyStep /\ effected \subseteq effected'
    BY <1>10 DEF ReleaseFailed, NoteRetry, NoteReaped, ReleaseCancelled, NoteRecovered,
                 Report, SteadyStep
  <1>11. ASSUME NEW j \in JobIds, NEW w \in Workers, NEW now \in 0..MaxTime,
                Heartbeat(j, w, now)
         PROVE  SteadyStep /\ effected \subseteq effected'
    <2>1. CASE HeldBy(j, w) /\ j \in Running
      <3>1. now + LeaseTtlMs \in Nat
        BY OptionsAssumption, BoundsAssumption
      <3>2. Extended(j)
        BY <1>11, <2>1, <3>1 DEF Heartbeat, Extended, Running
      <3>3. QED
        BY <1>11, <3>2 DEF SteadyStep, Heartbeat
    <2>2. CASE ~(HeldBy(j, w) /\ j \in Running)
      BY <1>11, <2>2 DEF Heartbeat, SteadyStep
    <2>3. QED
      BY <2>1, <2>2
  <1>12. ASSUME NEW now \in 0..MaxTime, ReapExpiredLeases(now)
         PROVE  SteadyStep /\ effected \subseteq effected'
    <2> DEFINE S == {j \in JobIds : Expired(j, now)}
    <2>1. fakeNow' = now
      BY <1>12 DEF ReapExpiredLeases
    <2>2. \A j \in S : Expired(j, fakeNow')
      BY <2>1
    <2>3. Reaped(S)
      BY <1>12, <2>2 DEF ReapExpiredLeases, Reaped
    <2>4. QED
      BY <1>12, <2>3 DEF SteadyStep, ReapExpiredLeases
  <1>13. ASSUME NEW j \in JobIds, RequestCancel(j)
         PROVE  SteadyStep /\ effected \subseteq effected'
    <2>1. Cancelled(j)
      BY <1>13 DEF RequestCancel, Cancelled
    <2>2. QED
      BY <1>13, <2>1 DEF SteadyStep, RequestCancel
  <1>14. CASE UNCHANGED vars
    BY <1>14 DEF vars, SteadyStep
  <1>15. QED
    BY <1>1, <1>2, <1>3, <1>4, <1>5, <1>6, <1>7, <1>8, <1>9, <1>10, <1>11, <1>12,
       <1>13, <1>14 DEF Next, RunTask, Call

LEMMA StoreStepLemma ==
    ASSUME TypeOK, [Next]_vars
    PROVE  StoreStep /\ effected \subseteq effected'
  <1>1. ASSUME ReleaseRetryWait
        PROVE  Released /\ UNCHANGED effected
    BY <1>1 DEF ReleaseRetryWait, Released, facadeVars
  <1>2. ASSUME NEW j \in JobIds, ManualRecover(j)
        PROVE  Recovered(j) /\ UNCHANGED effected
    BY <1>2 DEF ManualRecover, Recovered, Audited, facadeVars
  <1>3. QED
    BY <1>1, <1>2, SteadyStepLemma DEF StoreStep

-----------------------------------------------------------------------------
(* Ownership *)

\* Finishing a job, whatever the outcome, takes its owner and lease together.
LEMMA FinishHeld ==
    ASSUME TypeOK, HeldWhileRunning, NEW j \in JobIds, NEW outcome, outcome # "running",
           Finish(j, outcome)
    PROVE  HeldWhileRunning'
  <1>1. jobs[j] \in JobRows
    BY DEF TypeOK
  <1>2. Settled(j, outcome).status = outcome /\ Settled(j, outcome).leaseExpiresAt = None
    BY <1>1 DEF Settled, JobRows
  <1>3. QED
    BY <1>2 DEF HeldWhileRunning, Finish, ReleaseWorker, TypeOK

LEMMA HeldStep ==
    ASSUME TypeOK, HeldWhileRunning, StoreStep
    PROVE  HeldWhileRunning'
  <1>1. \A j \in JobIds : jobs[j] \in JobRows
    BY DEF TypeOK
  <1>2. CASE UNCHANGED <<jobs, workers, audit>>
    BY <1>2 DEF HeldWhileRunning
  <1>3. ASSUME NEW j \in JobIds, Inserted(j)
        PROVE  HeldWhileRunning'
    BY <1>3 DEF HeldWhileRunning, Inserted, NewJob, NoJob, TypeOK
  <1>4. ASSUME NEW j \in JobIds, NEW w \in Claimants, ClaimedBy(j, w)
        PROVE  HeldWhileRunning'
    <2>1. w # None /\ fakeNow + LeaseTtlMs # None
      BY NoneAssumption, OptionsAssumption DEF TypeOK
    <2>2. Claimed(j).status = "running" /\ Claimed(j).leaseExpiresAt = fakeNow + LeaseTtlMs
      BY <1>1 DEF Claimed, JobRows
    <2>3. QED
      BY <1>4, <2>1, <2>2 DEF HeldWhileRunning, ClaimedBy, TypeOK
  <1>5. ASSUME NEW j \in JobIds, NEW w \in Claimants, NEW outcome \in {"succeeded", "failed"},
               FinishedBy(j, w, outcome)
        PROVE  HeldWhileRunning'
    BY <1>5, FinishHeld DEF FinishedBy
  <1>6. ASSUME NEW j \in JobIds, NEW w \in Claimants, RetriedBy(j, w)
        PROVE  HeldWhileRunning'
    <2>1. PICK n \in Nat : jobs' = [jobs EXCEPT ![j] = Rescheduled(j, n)]
      BY <1>6 DEF RetriedBy
    <2>2. Rescheduled(j, n).status = "retry_wait" /\ Rescheduled(j, n).leaseExpiresAt = None
      BY <1>1 DEF Rescheduled, JobRows
    <2>3. QED
      BY <1>6, <2>1, <2>2 DEF HeldWhileRunning, RetriedBy, ReleaseWorker, TypeOK
  <1>7. ASSUME NEW j \in JobIds, Extended(j)
        PROVE  HeldWhileRunning'
    BY <1>1, <1>7, NoneAssumption DEF HeldWhileRunning, Extended, TypeOK, JobRows
  <1>8. ASSUME NEW S \in SUBSET JobIds, Reaped(S)
        PROVE  HeldWhileRunning'
    <2>1. \A j \in JobIds : /\ Settled(j, "queued").status = "queued"
                            /\ Settled(j, "queued").leaseExpiresAt = None
      BY <1>1 DEF Settled, JobRows
    <2>2. QED
      BY <1>8, <2>1 DEF HeldWhileRunning, Reaped
  <1>9. ASSUME Released
        PROVE  HeldWhileRunning'
    BY <1>1, <1>9 DEF HeldWhileRunning, Released, JobRows
  <1>10. ASSUME NEW j \in JobIds, Cancelled(j)
         PROVE  HeldWhileRunning'
    BY <1>10, FinishHeld DEF Cancelled
  <1>11. ASSUME NEW j \in JobIds, Recovered(j)
         PROVE  HeldWhileRunning'
    <2>1. jobs'[j].status = "queued" /\ jobs'[j].leaseExpiresAt = None
      BY <1>1, <1>11 DEF Recovered, Settled, JobRows, TypeOK
    <2>2. QED
      BY <1>11, <2>1 DEF HeldWhileRunning, Recovered, TypeOK
  <1>12. QED
    BY <1>2, <1>3, <1>4, <1>5, <1>6, <1>7, <1>8, <1>9, <1>10, <1>11 DEF StoreStep, SteadyStep

\* A job is running exactly while one worker holds its claim and it has a
\* lease: no interleaving of claims, finishes, reaps, retries, cancellations
\* and recoveries leaves a running job that the reaper cannot see.
THEOREM Ownership == Spec => []HeldWhileRunning
  <1>1. Init => HeldWhileRunning
    BY DEF Init, HeldWhileRunning, NoJob
  <1>2. TypeOK /\ HeldWhileRunning /\ [Next]_vars => HeldWhileRunning'
    BY StoreStepLemma, HeldStep
  <1>3. QED
    BY <1>1, <1>2, TypeCorrect, PTL DEF Spec

-----------------------------------------------------------------------------
(* What a step may never do to a job *)

\* The status a store step gives a job, from the status it had.
LEMMA StatusStep ==
    ASSUME TypeOK, HeldWhileRunning, StoreStep, NEW j \in JobIds,
           jobs'[j].status # jobs[j].status
    PROVE  \/ jobs[j].status = "absent" /\ jobs'[j].status = "queued"
           \/ jobs[j].status = "queued" /\ jobs'[j].status = "running"
           \/ /\ jobs[j].status = "running"
              /\ \/ jobs'[j].status = "failed"
                 \/ jobs'[j].status = "succeeded" /\ j \in effected'
                 \/ jobs'[j].status = "retry_wait"
                 \/ /\ jobs'[j].status = "queued"
                    /\ Expired(j, fakeNow')
           \/ jobs[j].status = "retry_wait" /\ jobs'[j].status = "queued"
           \/ /\ jobs[j].status \in {"queued", "running", "retry_wait"}
              /\ jobs'[j].status = "cancelled"
           \/ /\ jobs[j].status = "failed"
              /\ jobs'[j].status = "queued"
              /\ audit'[j] = audit[j] + 1
  <1>1. \A k \in JobIds : jobs[k] \in JobRows
    BY DEF TypeOK
  <1>2. ASSUME NEW k \in JobIds, NEW w \in Claimants, workers[k] = w
        PROVE  jobs[k].status = "running"
    BY <1>2, NoneAssumption DEF HeldWhileRunning
  <1>3. CASE UNCHANGED <<jobs, workers, audit>>
    BY <1>3
  <1>4. ASSUME NEW k \in JobIds, Inserted(k)
        PROVE  jobs[j].status = "absent" /\ jobs'[j].status = "queued"
    BY <1>4 DEF Inserted, NewJob, NoJob, TypeOK
  <1>5. ASSUME NEW k \in JobIds, NEW w \in Claimants, ClaimedBy(k, w)
        PROVE  jobs[j].status = "queued" /\ jobs'[j].status = "running"
    <2>1. Claimed(k).status = "running"
      BY <1>1 DEF Claimed, JobRows
    <2>2. QED
      BY <1>5, <2>1 DEF ClaimedBy, TypeOK
  <1>6. ASSUME NEW k \in JobIds, NEW w \in Claimants,
               NEW outcome \in {"succeeded", "failed"}, FinishedBy(k, w, outcome)
        PROVE  /\ jobs[j].status = "running"
               /\ \/ jobs'[j].status = "failed"
                  \/ jobs'[j].status = "succeeded" /\ j \in effected'
    <2>1. Settled(k, outcome).status = outcome
      BY <1>1 DEF Settled, JobRows
    <2>2. k = j
      BY <1>6 DEF FinishedBy, Finish, TypeOK
    <2>3. QED
      BY <1>2, <1>6, <2>1, <2>2 DEF FinishedBy, Finish, TypeOK
  <1>7. ASSUME NEW k \in JobIds, NEW w \in Claimants, RetriedBy(k, w)
        PROVE  jobs[j].status = "running" /\ jobs'[j].status = "retry_wait"
    <2>1. \A n \in Nat : Rescheduled(k, n).status = "retry_wait"
      BY <1>1 DEF Rescheduled, JobRows
    <2>2. QED
      BY <1>2, <1>7, <2>1 DEF RetriedBy, TypeOK
  <1>8. ASSUME NEW k \in JobIds, Extended(k)
        PROVE  FALSE
    BY <1>1, <1>8 DEF Extended, TypeOK, JobRows
  <1>9. ASSUME NEW S \in SUBSET JobIds, Reaped(S)
        PROVE  /\ jobs[j].status = "running"
               /\ jobs'[j].status = "queued"
               /\ Expired(j, fakeNow')
    <2>1. j \in S
      BY <1>9 DEF Reaped
    <2>2. Settled(j, "queued").status = "queued"
      BY <1>1 DEF Settled, JobRows
    <2>3. QED
      BY <1>9, <2>1, <2>2 DEF Reaped, Expired, Running
  <1>10. ASSUME Released
         PROVE  jobs[j].status = "retry_wait" /\ jobs'[j].status = "queued"
    BY <1>1, <1>10 DEF Released, JobRows
  <1>11. ASSUME NEW k \in JobIds, Cancelled(k)
         PROVE  /\ jobs[j].status \in {"queued", "running", "retry_wait"}
                /\ jobs'[j].status = "cancelled"
    <2>1. Settled(k, "cancelled").status = "cancelled"
      BY <1>1 DEF Settled, JobRows
    <2>2. k = j
      BY <1>11 DEF Cancelled, Finish, TypeOK
    <2>3. QED
      BY <1>1, <1>11, <2>1, <2>2 DEF Cancelled, Cancellable, Finish, TypeOK, JobRows, Statuses
  <1>12. ASSUME NEW k \in JobIds, Recovered(k)
         PROVE  /\ jobs[j].status = "failed"
                /\ jobs'[j].status = "queued"
                /\ audit'[j] = audit[j] + 1
    <2>1. k = j
      BY <1>12 DEF Recovered, TypeOK
    <2>2. [Settled(k, "queued") EXCEPT !.nextAttemptAt = fakeNow].status = "queued"
      BY <1>1 DEF Settled, JobRows
    <2>3. QED
      BY <1>12, <2>1, <2>2 DEF Recovered, TypeOK
  <1>13. QED
    BY <1>3, <1>4, <1>5, <1>6, <1>7, <1>8, <1>9, <1>10, <1>11, <1>12 DEF StoreStep, SteadyStep

\* Succeeded and cancelled are final, whatever late completion, stale claim,
\* reap or retry comes after.
THEOREM FinalStates == Spec => FinishedStaysFinished
  <1> DEFINE Step == \A j \in JobIds : jobs[j].status \in {"succeeded", "cancelled"} =>
                                         jobs'[j].status = jobs[j].status
  <1>1. TypeOK /\ HeldWhileRunning /\ [Next]_vars => [Step]_vars
    BY StoreStepLemma, StatusStep
  <1>2. QED
    BY <1>1, TypeCorrect, Ownership, PTL DEF Spec, FinishedStaysFinished

\* A failed job is queued again only by the audited command.
THEOREM AuditedRecovery == Spec => FailedLeavesAudited
  <1> DEFINE Step == \A j \in JobIds :
                       jobs[j].status = "failed" /\ jobs'[j].status # "failed" =>
                         jobs'[j].status = "queued" /\ audit'[j] = audit[j] + 1
  <1>1. TypeOK /\ HeldWhileRunning /\ [Next]_vars => [Step]_vars
    BY StoreStepLemma, StatusStep
  <1>2. QED
    BY <1>1, TypeCorrect, Ownership, PTL DEF Spec, FailedLeavesAudited

\* Success is never reported without the provider's effect.
THEOREM EffectBeforeSuccess == Spec => []SuccessIsEffected
  <1>1. Init => SuccessIsEffected
    BY DEF Init, SuccessIsEffected, NoJob
  <1>2. TypeOK /\ HeldWhileRunning /\ SuccessIsEffected /\ [Next]_vars => SuccessIsEffected'
    <2> SUFFICES ASSUME TypeOK, HeldWhileRunning, SuccessIsEffected, [Next]_vars,
                        NEW j \in JobIds, jobs'[j].status = "succeeded"
                 PROVE  j \in effected'
      BY DEF SuccessIsEffected
    <2>1. CASE jobs[j].status = "succeeded"
      BY <2>1, StoreStepLemma DEF SuccessIsEffected
    <2>2. CASE jobs[j].status # "succeeded"
      BY <2>2, StoreStepLemma, StatusStep
    <2>3. QED
      BY <2>1, <2>2
  <1>3. QED
    BY <1>1, <1>2, TypeCorrect, Ownership, PTL DEF Spec

\* A store step leaves the worker of a running job in place or takes the claim
\* from it; it never puts another worker there.
LEMMA HolderStep ==
    ASSUME TypeOK, StoreStep, NEW j \in JobIds, jobs[j].status = "running"
    PROVE  workers'[j] \in {workers[j], None}
  <1>1. \A k \in JobIds : Finish(k, "succeeded") \/ Finish(k, "failed") \/ Finish(k, "cancelled")
                           => workers'[j] \in {workers[j], None}
    BY DEF Finish, ReleaseWorker, TypeOK
  <1>2. ASSUME NEW k \in JobIds, NEW w \in Claimants, ClaimedBy(k, w)
        PROVE  workers'[j] = workers[j]
    BY <1>2 DEF ClaimedBy, TypeOK
  <1>3. ASSUME NEW k \in JobIds, NEW w \in Claimants, RetriedBy(k, w)
        PROVE  workers'[j] \in {workers[j], None}
    BY <1>3 DEF RetriedBy, ReleaseWorker, TypeOK
  <1>4. ASSUME NEW S \in SUBSET JobIds, Reaped(S)
        PROVE  workers'[j] \in {workers[j], None}
    BY <1>4 DEF Reaped
  <1>5. QED
    BY <1>1, <1>2, <1>3, <1>4
    DEF StoreStep, SteadyStep, Inserted, FinishedBy, Extended, Released, Cancelled, Recovered

\* No worker loses its claim to the queue before its lease and the safety
\* margin are over, and none to another worker directly.
THEOREM ClaimRespected == Spec => ClaimIsRespected
  <1> DEFINE Step ==
        \A j \in JobIds :
          workers[j] # None /\ workers'[j] # workers[j] =>
            /\ workers'[j] = None
            /\ jobs'[j].status = "queued" =>
                 jobs[j].leaseExpiresAt + LeaseSafetyMarginMs <= fakeNow'
  <1>1. TypeOK /\ HeldWhileRunning /\ [Next]_vars => [Step]_vars
    <2> SUFFICES ASSUME TypeOK, HeldWhileRunning, [Next]_vars, NEW j \in JobIds,
                        workers[j] # None, workers'[j] # workers[j]
                 PROVE  /\ workers'[j] = None
                        /\ jobs'[j].status = "queued" =>
                             jobs[j].leaseExpiresAt + LeaseSafetyMarginMs <= fakeNow'
      OBVIOUS
    <2>1. StoreStep
      BY StoreStepLemma
    <2>2. jobs[j].status = "running"
      BY DEF HeldWhileRunning
    <2>3. workers'[j] = None
      BY <2>1, <2>2, HolderStep
    <2>4. ASSUME jobs'[j].status = "queued"
          PROVE  Expired(j, fakeNow')
      BY <2>1, <2>2, <2>4, StatusStep
    <2>5. QED
      BY <2>3, <2>4 DEF Expired
  <1>2. QED
    BY <1>1, TypeCorrect, Ownership, PTL DEF Spec, ClaimIsRespected
=============================================================================

------------------------------ MODULE JobQueue ------------------------------
(***************************************************************************)
(* The asynchronous job queue: application/QueueSpike.ts over              *)
(* adapters/memory-store.ts.                                               *)
(*                                                                         *)
(* The queue lives in one JavaScript process.  A call runs without         *)
(* interruption up to its first `await`; what follows the `await` is a     *)
(* continuation at the tail of the event loop's microtask queue, and the   *)
(* loop runs continuations strictly in that order.  So the state of the    *)
(* model is the store, the facade's own maps and `microtasks`, the FIFO    *)
(* queue of pending continuations.  A call action is the synchronous first *)
(* part of a method; every other action runs the continuation at the head. *)
(* A caller may call at any time, between any two continuations: callers   *)
(* are other continuations, timers and request handlers.  A continuation   *)
(* that would do nothing (claim found no job, a finish that was refused)   *)
(* is not queued: leaving it out does not reorder the others.              *)
(***************************************************************************)
EXTENDS Integers, Sequences, FiniteSets, RetryPolicy

CONSTANTS
    JobIds,          \* job ids: naturals, handed out in order of insertion
    Workspaces,
    Keys,            \* idempotency keys, each within one operation
    Fingerprints,    \* request fingerprints
    Workers,         \* ids of the callers of claim and workOnce
    TestWorker,      \* the literal 'worker-test' of the failNext methods
    Codes,           \* failure codes a caller passes
    None,            \* JavaScript's null and undefined
    LeaseTtlMs, LeaseSafetyMarginMs, MaxAttempts, BackoffBaseMs, BackoffMaxMs,
    Calls,           \* the methods this environment calls
    MaxTime,         \* bound: the largest `now` a caller passes
    MaxClaims,       \* bound: how often one job may be claimed
    MaxRecoveries,   \* bound: how often one job may be recovered
    MaxInFlight      \* bound: continuations pending when a call starts

Claimants == Workers \cup {TestWorker}

CrashPoints == {"beforeProvider", "afterProviderBeforeCommit"}

ASSUME JobIdsAssumption == JobIds \subseteq Nat

ASSUME NoneAssumption ==
    /\ None \notin Nat
    /\ None \notin Claimants
    /\ None \notin Workspaces
    /\ None \notin [job : JobIds, fingerprint : Fingerprints]

ASSUME OptionsAssumption ==
    /\ LeaseTtlMs \in Nat
    /\ LeaseSafetyMarginMs \in Nat
    /\ MaxAttempts \in Nat
    /\ BackoffBaseMs \in Nat
    /\ BackoffMaxMs \in Nat

ASSUME BoundsAssumption ==
    /\ MaxTime \in Nat
    /\ MaxClaims \in Nat
    /\ MaxRecoveries \in Nat
    /\ MaxInFlight \in Nat

\* A failure code names failNextJobRetryable(code) among the callers of claim.
ASSUME CodesAssumption ==
    Codes \cap ({"claim", "work", "failTerminal"} \cup CrashPoints) = {}

VARIABLES
    jobs,            \* store: the job rows
    workers,         \* store: job -> the worker that holds its claim
    idem,            \* store: idempotency scope -> record
    audit,           \* store: number of manual_recover events of a job
    trail,           \* facade: the last entry of a job's status trail
    ledger,          \* facade: quota, kept here per job
    reservationIds,  \* facade: jobs that were given a reservation id
    effected,        \* facade: jobs whose provider effect happened
    deadLetterIds,   \* facade: jobs parked as dead letters
    fakeNow,         \* facade: the clock
    microtasks,      \* event loop: pending continuations, first in first out
    granted          \* callers: the (job, worker) claims handed to a caller

storeVars  == <<jobs, workers, idem, audit>>
facadeVars == <<trail, ledger, reservationIds, effected, deadLetterIds, fakeNow>>
vars == <<storeVars, facadeVars, microtasks, granted>>

-----------------------------------------------------------------------------
(* Types *)

Statuses == {"queued", "running", "retry_wait", "succeeded", "failed", "cancelled"}

Scopes == Workspaces \X Keys

IdempotencyRecords == [job : JobIds, fingerprint : Fingerprints]

\* A row of the jobs map; "absent" stands for an id with no row.  `key` is
\* the fingerprint of the idempotency key that the payload keeps.
JobRows == [status         : Statuses \cup {"absent"},
            workspaceId    : Workspaces \cup {None},
            key            : Keys \cup {None},
            attempt        : Nat,
            leaseExpiresAt : Nat \cup {None},
            nextAttemptAt  : Int \cup {None}]

NoJob == [status |-> "absent", workspaceId |-> None, key |-> None,
          attempt |-> 0, leaseExpiresAt |-> None, nextAttemptAt |-> None]

Ledgers == [reserved : Nat, committed : Nat, released : Nat]

ClaimCallers == {"claim", "work", "failTerminal"} \cup CrashPoints \cup Codes

Tasks ==
    [at : {"submit.lookedUp"}, scope : Scopes, fingerprint : Fingerprints,
     hit : IdempotencyRecords \cup {None}]
    \cup
    [at : {"submit.inserted"}, scope : Scopes, fingerprint : Fingerprints, job : JobIds]
    \cup
    [at : {"claim.picked", "claim.reserved", "claim.returned"}, job : JobIds,
     worker : Claimants, attempt : Nat, caller : ClaimCallers]
    \cup
    [at : {"submit.indexed", "success.stored", "failure.stored", "retry.stored",
           "cancel.stored", "recover.stored"}, job : JobIds]
    \cup
    [at : {"reap.stored"}, jobs : SUBSET JobIds]

\* Type invariant: the shape of the store, the facade and the event loop.
TypeOK ==
    /\ jobs \in [JobIds -> JobRows]
    /\ workers \in [JobIds -> Claimants \cup {None}]
    /\ idem \in [Scopes -> IdempotencyRecords \cup {None}]
    /\ audit \in [JobIds -> Nat]
    /\ trail \in [JobIds -> Statuses \cup {None}]
    /\ ledger \in [JobIds -> Ledgers]
    /\ reservationIds \subseteq JobIds
    /\ effected \subseteq JobIds
    /\ deadLetterIds \subseteq JobIds
    /\ fakeNow \in Nat
    /\ microtasks \in Seq(Tasks)
    /\ granted \subseteq JobIds \X Claimants

Init ==
    /\ jobs = [j \in JobIds |-> NoJob]
    /\ workers = [j \in JobIds |-> None]
    /\ idem = [s \in Scopes |-> None]
    /\ audit = [j \in JobIds |-> 0]
    /\ trail = [j \in JobIds |-> None]
    /\ ledger = [j \in JobIds |-> [reserved |-> 0, committed |-> 0, released |-> 0]]
    /\ reservationIds = {}
    /\ effected = {}
    /\ deadLetterIds = {}
    /\ fakeNow = 0
    /\ microtasks = <<>>
    /\ granted = {}

-----------------------------------------------------------------------------
(* The event loop *)

\* A method that leaves a continuation may be called now: the environment
\* calls it, within the bound.
MayCall(method) == method \in Calls /\ Len(microtasks) < MaxInFlight

\* The continuation at the head of the microtask queue.
Task == Head(microtasks)

Runs(point) == microtasks # <<>> /\ Task.at = point

Await(task) == microtasks' = Append(microtasks, task)

AwaitNext(task) == microtasks' = Append(Tail(microtasks), task)

Return == microtasks' = Tail(microtasks)

JobTask(point, j) == [at |-> point, job |-> j]

\* The last part of most methods: the trail is told, and the call returns.
Report(point, status) ==
    /\ Runs(point)
    /\ trail' = [trail EXCEPT ![Task.job] = status]
    /\ Return
    /\ UNCHANGED <<storeVars, effected, fakeNow, granted>>

Reserve(j) == ledger' = [ledger EXCEPT ![j].reserved = @ + 1]

Commit(j) == ledger' = [ledger EXCEPT ![j].committed = @ + 1]

Release(j) == ledger' = [ledger EXCEPT ![j].released = @ + 1]

ClaimTask(point, j, worker, attempt, caller) ==
    [at |-> point, job |-> j, worker |-> worker, attempt |-> attempt, caller |-> caller]

-----------------------------------------------------------------------------
(* The store *)

Running == {j \in JobIds : jobs[j].status = "running"}

\* nextAttemptAt is unset or due at the facade's clock.
Due(j) == jobs[j].nextAttemptAt # None => jobs[j].nextAttemptAt <= fakeNow

\* A plausible bug: any caller passes for the worker that holds the claim.
HeldByAnyone(j, worker) == jobs[j].status # "absent"

HeldBy(j, worker) == workers[j] = worker

\* A plausible bug: the worker's entry outlives the claim.
KeepWorker(j) == UNCHANGED workers

ReleaseWorker(j) == workers' = [workers EXCEPT ![j] = None]

\* The row as finish, requestCancel and auditRecover write it.
Settled(j, outcome) == [jobs[j] EXCEPT !.status = outcome, !.leaseExpiresAt = None]

\* finish, for a worker that holds the claim.
Finish(j, outcome) ==
    /\ jobs' = [jobs EXCEPT ![j] = Settled(j, outcome)]
    /\ ReleaseWorker(j)

\* finalizeFailure and markDeadLetter: refused unless the worker holds the claim.
FinishFailed(j, worker) ==
    IF HeldBy(j, worker) THEN Finish(j, "failed") ELSE UNCHANGED <<jobs, workers>>

\* A plausible bug: the reaper forgets the safety margin.
ExpiredWithoutMargin(j, now) ==
    /\ j \in Running
    /\ jobs[j].leaseExpiresAt # None
    /\ jobs[j].leaseExpiresAt <= now

Expired(j, now) ==
    /\ j \in Running
    /\ jobs[j].leaseExpiresAt # None
    /\ jobs[j].leaseExpiresAt + LeaseSafetyMarginMs <= now

-----------------------------------------------------------------------------
(* submit *)

Vacant == {j \in JobIds : jobs[j].status = "absent"}

AwaitingInsert == {i \in DOMAIN microtasks :
                     microtasks[i].at = "submit.lookedUp" /\ microtasks[i].hit = None}

\* submit up to its first await: look the idempotency scope up.
Submit(scope, fingerprint) ==
    /\ MayCall("submit")
    /\ idem[scope] # None \/ Cardinality(Vacant) > Cardinality(AwaitingInsert)
    /\ Await([at |-> "submit.lookedUp", scope |-> scope,
              fingerprint |-> fingerprint, hit |-> idem[scope]])
    /\ UNCHANGED <<storeVars, facadeVars, granted>>

\* A record was found: the call replies with its job, or throws
\* IdempotencyKeyReusedError when the fingerprint differs.
SubmitReply ==
    /\ Runs("submit.lookedUp")
    /\ Task.hit # None
    /\ Return
    /\ UNCHANGED <<storeVars, facadeVars, granted>>

NewJob(scope) == [NoJob EXCEPT !.status = "queued", !.workspaceId = scope[1],
                               !.key = scope[2]]

\* A plausible bug: the idempotency record is written with the row, one
\* continuation before the reservation is known.
SubmitInsertAndIndex ==
    /\ Runs("submit.lookedUp")
    /\ Task.hit = None
    /\ \E j \in Vacant :
         /\ \A k \in Vacant : j <= k
         /\ jobs' = [jobs EXCEPT ![j] = NewJob(Task.scope)]
         /\ idem' = [idem EXCEPT ![Task.scope] =
                        [job |-> j, fingerprint |-> Task.fingerprint]]
         /\ AwaitNext([at |-> "submit.inserted", scope |-> Task.scope,
                       fingerprint |-> Task.fingerprint, job |-> j])
    /\ UNCHANGED <<workers, audit, facadeVars, granted>>

\* No record was found: insert the row, queued from the first moment.
SubmitInsert ==
    /\ Runs("submit.lookedUp")
    /\ Task.hit = None
    /\ \E j \in Vacant :
         /\ \A k \in Vacant : j <= k
         /\ jobs' = [jobs EXCEPT ![j] = NewJob(Task.scope)]
         /\ AwaitNext([at |-> "submit.inserted", scope |-> Task.scope,
                       fingerprint |-> Task.fingerprint, job |-> j])
    /\ UNCHANGED <<workers, idem, audit, facadeVars, granted>>

\* A plausible bug: the call ends once the record is written.
SubmitIndexForgets ==
    /\ Runs("submit.inserted")
    /\ idem' = [idem EXCEPT ![Task.scope] =
                   [job |-> Task.job, fingerprint |-> Task.fingerprint]]
    /\ Return
    /\ UNCHANGED <<jobs, workers, audit, facadeVars, granted>>

\* insertIdempotency: set, whether or not a record is already there.
SubmitIndex ==
    /\ Runs("submit.inserted")
    /\ idem' = [idem EXCEPT ![Task.scope] =
                   [job |-> Task.job, fingerprint |-> Task.fingerprint]]
    /\ AwaitNext(JobTask("submit.indexed", Task.job))
    /\ UNCHANGED <<jobs, workers, audit, facadeVars, granted>>

\* The reservation id, the quota reservation, and the trail's created, queued.
SubmitReserve ==
    /\ Report("submit.indexed", "queued")
    /\ reservationIds' = reservationIds \cup {Task.job}
    /\ Reserve(Task.job)
    /\ UNCHANGED deadLetterIds

-----------------------------------------------------------------------------
(* claim, alone or inside workOnce and the failNext methods *)

\* A plausible bug: no workspace is excluded from the choice.
NoneBlocked == {}

\* The workspaces of the running jobs: claim's `blocked`.
Blocked == {jobs[j].workspaceId : j \in Running}

Claimable == {j \in JobIds : /\ jobs[j].status = "queued"
                             /\ jobs[j].workspaceId \notin Blocked
                             /\ Due(j)}

ClaimantOf(caller) == IF caller \in {"failTerminal"} \cup Codes THEN {TestWorker} ELSE Workers

MethodOf(caller) ==
    CASE caller = "claim"        -> "claim"
      [] caller = "work"         -> "workOnce"
      [] caller \in CrashPoints  -> "workOnce"
      [] caller = "failTerminal" -> "failNextJobTerminal"
      [] OTHER                   -> "failNextJobRetryable"

\* claim up to its first await: pick the oldest claimable job of a workspace
\* that has none running.
ClaimPick(caller, worker) ==
    /\ MayCall(MethodOf(caller))
    /\ worker \in ClaimantOf(caller)
    /\ \E j \in Claimable :
         /\ \A k \in Claimable : j <= k
         /\ jobs[j].attempt < MaxClaims
         /\ Await(ClaimTask("claim.picked", j, worker, 0, caller))
    /\ UNCHANGED <<storeVars, facadeVars, granted>>

\* A plausible bug: the picked job is not checked again.
AlwaysReservable(j) == jobs[j].status # "absent"

\* reserveClaim's compare: the job is still queued and due.
Reservable(j) == jobs[j].status = "queued" /\ Due(j)

\* The row as reserveClaim writes it.
Claimed(j) == [jobs[j] EXCEPT !.status = "running", !.attempt = @ + 1,
                              !.leaseExpiresAt = fakeNow + LeaseTtlMs]

\* reserveClaim's set.
ClaimReserve ==
    /\ Runs("claim.picked")
    /\ Reservable(Task.job)
    /\ jobs' = [jobs EXCEPT ![Task.job] = Claimed(Task.job)]
    /\ workers' = [workers EXCEPT ![Task.job] = Task.worker]
    /\ AwaitNext(ClaimTask("claim.reserved", Task.job, Task.worker,
                           jobs[Task.job].attempt + 1, Task.caller))
    /\ UNCHANGED <<idem, audit, facadeVars, granted>>

\* Another claim, or a cancellation, came first: claim returns null.
ClaimLost ==
    /\ Runs("claim.picked")
    /\ ~Reservable(Task.job)
    /\ Return
    /\ UNCHANGED <<storeVars, facadeVars, granted>>

\* claim's last part: the trail, then back to the caller.
ClaimReturn ==
    /\ Runs("claim.reserved")
    /\ trail' = [trail EXCEPT ![Task.job] = "running"]
    /\ \/ /\ Task.caller = "claim"
          /\ granted' = granted \cup {<<Task.job, Task.worker>>}
          /\ Return
       \/ /\ Task.caller # "claim"
          /\ AwaitNext([Task EXCEPT !.at = "claim.returned"])
          /\ UNCHANGED granted
    /\ UNCHANGED <<storeVars, ledger, reservationIds, effected, deadLetterIds, fakeNow>>

-----------------------------------------------------------------------------
(* The rest of workOnce, and completeClaim *)

\* workOnce throws before the provider is called.
CrashBeforeProvider ==
    /\ Runs("claim.returned")
    /\ Task.caller = "beforeProvider"
    /\ Return
    /\ UNCHANGED <<storeVars, facadeVars, granted>>

\* workOnce throws after the provider's effect.
CrashAfterProvider ==
    /\ Runs("claim.returned")
    /\ Task.caller = "afterProviderBeforeCommit"
    /\ effected' = effected \cup {Task.job}
    /\ Return
    /\ UNCHANGED <<storeVars, trail, ledger, reservationIds, deadLetterIds, fakeNow, granted>>

\* A plausible bug: completion relies on the caller having recorded the effect.
NoEffect(j) == effected

WithEffect(j) == effected \cup {j}

\* completeClaim up to its await: the effect is recorded, whoever asks; the
\* row is finished if the worker holds the claim.  `rest` is what stays queued.
Complete(j, worker, rest) ==
    /\ effected' = WithEffect(j)
    /\ IF HeldBy(j, worker)
       THEN /\ Finish(j, "succeeded")
            /\ microtasks' = Append(rest, JobTask("success.stored", j))
       ELSE /\ microtasks' = rest
            /\ UNCHANGED <<jobs, workers>>
    /\ UNCHANGED <<idem, audit, trail, ledger, reservationIds, deadLetterIds, fakeNow, granted>>

\* workOnce without a crash: the effect, then completeClaim.
WorkFinish ==
    /\ Runs("claim.returned")
    /\ Task.caller = "work"
    /\ Complete(Task.job, Task.worker, Tail(microtasks))

\* completeClaim called by a caller that was handed this claim, then or earlier.
CompleteClaim(j, worker) ==
    /\ MayCall("completeClaim")
    /\ <<j, worker>> \in granted
    /\ Complete(j, worker, microtasks)

\* A plausible bug: the units are given back instead of charged.
CommitReleases ==
    /\ Report("success.stored", "succeeded")
    /\ Release(Task.job)
    /\ UNCHANGED <<reservationIds, deadLetterIds>>

\* completeClaim's last part: the trail and the quota commit.
CommitSuccess ==
    /\ Report("success.stored", "succeeded")
    /\ Commit(Task.job)
    /\ UNCHANGED <<reservationIds, deadLetterIds>>

-----------------------------------------------------------------------------
(* The rest of failNextJobRetryable and failNextJobTerminal *)

\* The last attempt of a retryable code, or a terminal code: dead letter.
\* The result of markDeadLetter is ignored.
FailDeadLetter ==
    /\ Runs("claim.returned")
    /\ Task.caller \in Codes
    /\ ~MayRetry(Task.attempt, MaxAttempts, Task.caller)
    /\ deadLetterIds' = deadLetterIds \cup {Task.job}
    /\ FinishFailed(Task.job, Task.worker)
    /\ AwaitNext(JobTask("failure.stored", Task.job))
    /\ UNCHANGED <<idem, audit, trail, ledger, reservationIds, effected, fakeNow, granted>>

\* The row as rescheduleRetry writes it.
Rescheduled(j, attempt) ==
    [jobs[j] EXCEPT !.status = "retry_wait", !.attempt = attempt, !.leaseExpiresAt = None,
                    !.nextAttemptAt = fakeNow +
                        ComputeBackoff(attempt, BackoffBaseMs, BackoffMaxMs)]

\* rescheduleRetry, if the worker still holds the running job; its result is
\* ignored.
FailReschedule ==
    /\ Runs("claim.returned")
    /\ Task.caller \in Codes
    /\ MayRetry(Task.attempt, MaxAttempts, Task.caller)
    /\ IF HeldBy(Task.job, Task.worker) /\ Task.job \in Running
       THEN /\ jobs' = [jobs EXCEPT ![Task.job] = Rescheduled(Task.job, Task.attempt)]
            /\ ReleaseWorker(Task.job)
       ELSE UNCHANGED <<jobs, workers>>
    /\ AwaitNext(JobTask("retry.stored", Task.job))
    /\ UNCHANGED <<idem, audit, facadeVars, granted>>

\* failNextJobTerminal: finalizeFailure, its result ignored; no dead letter.
FailTerminal ==
    /\ Runs("claim.returned")
    /\ Task.caller = "failTerminal"
    /\ FinishFailed(Task.job, Task.worker)
    /\ AwaitNext(JobTask("failure.stored", Task.job))
    /\ UNCHANGED <<idem, audit, facadeVars, granted>>

\* A plausible bug: the failure path forgets the quota.
FailureKeepsUnits ==
    /\ Report("failure.stored", "failed")
    /\ UNCHANGED <<ledger, reservationIds, deadLetterIds>>

\* The trail and the quota release of a failure, stored or not.
ReleaseFailed ==
    /\ Report("failure.stored", "failed")
    /\ Release(Task.job)
    /\ UNCHANGED <<reservationIds, deadLetterIds>>

NoteRetry ==
    /\ Report("retry.stored", "retry_wait")
    /\ UNCHANGED <<ledger, reservationIds, deadLetterIds>>

-----------------------------------------------------------------------------
(* heartbeat, reaper, retry release *)

\* heartbeat moves the facade's clock, and the lease if the worker holds the job.
Heartbeat(j, worker, now) ==
    /\ "heartbeat" \in Calls
    /\ <<j, worker>> \in granted
    /\ fakeNow' = now
    /\ jobs' = IF HeldBy(j, worker) /\ j \in Running
               THEN [jobs EXCEPT ![j].leaseExpiresAt = now + LeaseTtlMs]
               ELSE jobs
    /\ UNCHANGED <<workers, idem, audit, trail, ledger, reservationIds, effected,
                   deadLetterIds, microtasks, granted>>

\* reapExpiredLeases up to its await: every expired job goes back to the queue.
ReapExpiredLeases(now) ==
    LET reaped == {j \in JobIds : Expired(j, now)}
    IN  /\ MayCall("reapExpiredLeases")
        /\ fakeNow' = now
        /\ jobs' = [j \in JobIds |-> IF j \in reaped THEN Settled(j, "queued") ELSE jobs[j]]
        /\ workers' = [j \in JobIds |-> IF j \in reaped THEN None ELSE workers[j]]
        /\ IF reaped # {}
           THEN Await([at |-> "reap.stored", jobs |-> reaped])
           ELSE UNCHANGED microtasks
        /\ UNCHANGED <<idem, audit, trail, ledger, reservationIds, effected,
                       deadLetterIds, granted>>

\* A plausible bug: the reaper forgets to tell the trail.
NoteReapedNothing ==
    /\ Runs("reap.stored")
    /\ Return
    /\ UNCHANGED <<storeVars, facadeVars, granted>>

NoteReaped ==
    /\ Runs("reap.stored")
    /\ trail' = [j \in JobIds |-> IF j \in Task.jobs THEN "queued" ELSE trail[j]]
    /\ Return
    /\ UNCHANGED <<storeVars, ledger, reservationIds, effected, deadLetterIds, fakeNow, granted>>

\* Every waiting retry is queued and due at once, whatever its nextAttemptAt;
\* the trail is not told.
ReleaseRetryWait ==
    /\ "releaseRetryWait" \in Calls
    /\ jobs' = [j \in JobIds |->
                  IF jobs[j].status = "retry_wait"
                  THEN [jobs[j] EXCEPT !.status = "queued", !.nextAttemptAt = fakeNow]
                  ELSE jobs[j]]
    /\ UNCHANGED <<workers, idem, audit, facadeVars, microtasks, granted>>

-----------------------------------------------------------------------------
(* Cancellation and manual recovery *)

\* A plausible bug: a succeeded job may still be cancelled.
CancellableLate(j) == jobs[j].status \notin {"absent", "failed", "cancelled"}

Cancellable(j) == jobs[j].status \notin {"absent", "succeeded", "failed", "cancelled"}

\* The ids that callers know: a random id is out once submit has returned it.
Known == reservationIds

\* requestCancel up to its await: cancelled at once, running or not.
RequestCancel(j) ==
    /\ MayCall("requestCancel")
    /\ j \in Known
    /\ Cancellable(j)
    /\ Finish(j, "cancelled")
    /\ Await(JobTask("cancel.stored", j))
    /\ UNCHANGED <<idem, audit, facadeVars, granted>>

\* A plausible bug: a cancellation forgets the quota.
CancellationKeepsUnits ==
    /\ Report("cancel.stored", "cancelled")
    /\ UNCHANGED <<ledger, reservationIds, deadLetterIds>>

ReleaseCancelled ==
    /\ Report("cancel.stored", "cancelled")
    /\ Release(Task.job)
    /\ UNCHANGED <<reservationIds, deadLetterIds>>

\* A plausible bug: the audit event is skipped.
Unaudited(j) == audit

Audited(j) == [audit EXCEPT ![j] = @ + 1]

\* manualRecover up to its await: a failed job, dead letter or not, is queued
\* again with its attempt count and its settled quota, and the audit says so.
ManualRecover(j) ==
    /\ MayCall("manualRecover")
    /\ j \in Known
    /\ jobs[j].status = "failed"
    /\ audit[j] < MaxRecoveries
    /\ jobs' = [jobs EXCEPT ![j] = [Settled(j, "queued") EXCEPT !.nextAttemptAt = fakeNow]]
    /\ audit' = Audited(j)
    /\ Await(JobTask("recover.stored", j))
    /\ UNCHANGED <<workers, idem, facadeVars, granted>>

NoteRecovered ==
    /\ Report("recover.stored", "queued")
    /\ deadLetterIds' = deadLetterIds \ {Task.job}
    /\ UNCHANGED <<ledger, reservationIds>>

-----------------------------------------------------------------------------
(* The specification *)

\* The event loop runs the continuation at the head of the queue.
RunTask ==
    \/ SubmitReply \/ SubmitInsert \/ SubmitIndex \/ SubmitReserve
    \/ ClaimReserve \/ ClaimLost \/ ClaimReturn
    \/ CrashBeforeProvider \/ CrashAfterProvider \/ WorkFinish \/ CommitSuccess
    \/ FailDeadLetter \/ FailReschedule \/ FailTerminal \/ ReleaseFailed \/ NoteRetry
    \/ NoteReaped \/ ReleaseCancelled \/ NoteRecovered

\* Some caller starts a call.
Call ==
    \/ \E s \in Scopes, f \in Fingerprints : Submit(s, f)
    \/ \E c \in ClaimCallers, w \in Claimants : ClaimPick(c, w)
    \/ \E j \in JobIds, w \in Workers : CompleteClaim(j, w)
    \/ \E j \in JobIds, w \in Workers, now \in 0..MaxTime : Heartbeat(j, w, now)
    \/ \E now \in 0..MaxTime : ReapExpiredLeases(now)
    \/ ReleaseRetryWait
    \/ \E j \in JobIds : RequestCancel(j)
    \/ \E j \in JobIds : ManualRecover(j)

Next == RunTask \/ Call

Spec == Init /\ [][Next]_vars

\* The event loop drains the microtask queue before anything else happens, so
\* a pending continuation is eventually run.
FairSpec == Spec /\ WF_vars(RunTask)

-----------------------------------------------------------------------------
(* Invariants *)

Pending(point, j) == {i \in DOMAIN microtasks :
                        microtasks[i].at = point /\ microtasks[i].job = j}

\* A job is running exactly while one worker holds its claim, and exactly then
\* it has a lease: no sequence of claims, finishes, reaps, retries and
\* cancellations leaves a running job without an owner (lost for ever, as the
\* reaper only looks at leases) or an owner of a job that is not running.
HeldWhileRunning ==
    \A j \in JobIds :
      /\ (workers[j] # None) <=> (jobs[j].status = "running")
      /\ (jobs[j].leaseExpiresAt # None) <=> (jobs[j].status = "running")

\* The quota of a job is committed once, and only for its success: between the
\* row's update and the facade's bookkeeping stands one pending continuation,
\* so the success is either charged or about to be, never both nor twice.
CommittedOncePerSuccess ==
    \A j \in JobIds :
      ledger[j].committed + Cardinality(Pending("success.stored", j)) =
        IF jobs[j].status = "succeeded" THEN 1 ELSE 0

\* No quota leaks: a job that reached a terminal state has given its units
\* back or been charged, or a continuation that will is pending.
NoQuotaLeak ==
    \A j \in JobIds :
      jobs[j].status \in {"succeeded", "failed", "cancelled"} =>
        \/ ledger[j].committed + ledger[j].released > 0
        \/ \E p \in {"success.stored", "failure.stored", "cancel.stored"} :
             Pending(p, j) # {}

\* Success is never reported without the provider's effect.
SuccessIsEffected ==
    \A j \in JobIds : jobs[j].status = "succeeded" => j \in effected

\* A duplicate submit finds the job its record names, in its own workspace,
\* with its reservation id: submit's `reservationIds.get(job.id) ?? ''` never
\* falls back to the empty string, although the record is written one
\* continuation before the reservation id is.
DuplicateFindsReservation ==
    Runs("submit.lookedUp") /\ Task.hit # None =>
        /\ jobs[Task.hit.job].workspaceId = Task.scope[1]
        /\ Task.hit.job \in reservationIds

\* Whenever the event loop is idle, the status trail ends in the job's status.
TrailEndsInStatus ==
    microtasks = <<>> =>
        \A j \in JobIds : jobs[j].status # "absent" => trail[j] = jobs[j].status

\* At most one job of a workspace runs at a time (perWorkspaceConcurrency is 1).
OneRunningPerWorkspace ==
    \A j, k \in Running : jobs[j].workspaceId = jobs[k].workspaceId => j = k

\* Quota is settled exactly once: a job's units are committed or released, not
\* both and not twice.
QuotaSettledOnce ==
    \A j \in JobIds : ledger[j].committed + ledger[j].released <= 1

\* An idempotency key names one job: no two rows of a workspace carry the same
\* key.
OneJobPerKey ==
    \A j, k \in JobIds :
      /\ jobs[j].status # "absent" /\ jobs[k].status # "absent"
      /\ jobs[j].workspaceId = jobs[k].workspaceId
      /\ jobs[j].key = jobs[k].key
      => j = k

-----------------------------------------------------------------------------
(* Action and liveness properties *)

\* Succeeded and cancelled are final: a late completion, a stale claim, the
\* reaper or a retry never takes a job out of them.
FinishedStaysFinished ==
    [][\A j \in JobIds : jobs[j].status \in {"succeeded", "cancelled"} =>
                          jobs'[j].status = jobs[j].status]_vars

\* A failed job leaves that state only through the audited command.
FailedLeavesAudited ==
    [][\A j \in JobIds : jobs[j].status = "failed" /\ jobs'[j].status # "failed" =>
                          jobs'[j].status = "queued" /\ audit'[j] = audit[j] + 1]_vars

\* A claim is never taken from its worker before the lease and the safety
\* margin are over: until then only a finish, a retry or a cancellation ends
\* it, and it never passes to another worker directly.
ClaimIsRespected ==
    [][\A j \in JobIds :
         workers[j] # None /\ workers'[j] # workers[j] =>
           /\ workers'[j] = None
           /\ jobs'[j].status = "queued" =>
                jobs[j].leaseExpiresAt + LeaseSafetyMarginMs <= fakeNow']_vars

\* A submission that inserted its row completes: the row is eventually
\* reserved and found under its key.
SubmissionCompletes ==
    \A j \in JobIds :
      (jobs[j].status # "absent") ~>
        (j \in reservationIds /\ idem[<<jobs[j].workspaceId, jobs[j].key>>] # None)

\* The units of a finished job are eventually settled.
FinishedIsSettled ==
    \A j \in JobIds :
      (jobs[j].status \in {"succeeded", "failed", "cancelled"}) ~>
        (ledger[j].committed + ledger[j].released > 0)

=============================================================================

--------------------------- MODULE JobQueueOrder ---------------------------
(***************************************************************************)
(* Theorems about JobQueue that rest on the order of its continuations: a  *)
(* fact about a job is first promised by a task in the microtask queue and *)
(* becomes true when the event loop reaches that task.  First what replies *)
(* and trail tell, then the quota, and last that the queue implements      *)
(* JobPool.                                                                *)
(***************************************************************************)
EXTENDS JobQueueProofs, JobQueueRefinement, FiniteSetTheorems

-----------------------------------------------------------------------------
(* Tasks in a queue *)

Matches(t, point, j) == t.at = point /\ t.job = j

Never(q, point, j) == \A i \in DOMAIN q : ~Matches(q[i], point, j)

Once(q, point, j) ==
    \E i \in DOMAIN q : /\ Matches(q[i], point, j)
                        /\ \A h \in DOMAIN q : Matches(q[h], point, j) => h = i

\* A task at the end of the queue adds itself to what is pending.
LEMMA AppendedTask ==
    ASSUME NEW q \in Seq(Tasks), NEW t \in Tasks, NEW point, NEW j
    PROVE  /\ ~Matches(t, point, j) =>
                /\ Never(q, point, j) => Never(Append(q, t), point, j)
                /\ Once(q, point, j) => Once(Append(q, t), point, j)
                /\ ~Never(q, point, j) => ~Never(Append(q, t), point, j)
           /\ Matches(t, point, j) =>
                /\ Never(q, point, j) => Once(Append(q, t), point, j)
                /\ ~Never(Append(q, t), point, j)
<1> DEFINE r == Append(q, t)
<1>1. /\ Len(q) \in Nat /\ DOMAIN q = 1 .. Len(q) /\ DOMAIN r = 1 .. Len(q) + 1
      /\ r[Len(q) + 1] = t /\ \A i \in 1 .. Len(q) : r[i] = q[i]
    OBVIOUS
<1> HIDE DEF r
<1>2. ASSUME ~Matches(t, point, j)
      PROVE  /\ Never(q, point, j) => Never(r, point, j)
             /\ ~Never(q, point, j) => ~Never(r, point, j)
    BY <1>1, <1>2 DEF Never
<1>3. ASSUME ~Matches(t, point, j), Once(q, point, j) PROVE Once(r, point, j)
    BY <1>1, <1>3 DEF Once
<1>4. ASSUME Matches(t, point, j), Never(q, point, j) PROVE Once(r, point, j)
  <2>1. \A h \in DOMAIN r : Matches(r[h], point, j) => h = Len(q) + 1
      BY <1>1, <1>4 DEF Never
  <2>2. Len(q) + 1 \in DOMAIN r /\ Matches(r[Len(q) + 1], point, j)
      BY <1>1, <1>4
  <2>3. QED
      BY <2>1, <2>2 DEF Once
<1>5. ASSUME Matches(t, point, j) PROVE ~Never(r, point, j)
    BY <1>1, <1>5 DEF Never
<1>6. QED
    BY <1>2, <1>3, <1>4, <1>5 DEF r

\* Running the task at the head takes that task, and no other, away.
LEMMA RunTaskAtHead ==
    ASSUME NEW q \in Seq(Tasks), q # <<>>, NEW point, NEW j
    PROVE  /\ Never(q, point, j) => Never(Tail(q), point, j)
           /\ ~Matches(Head(q), point, j) =>
                /\ Once(q, point, j) => Once(Tail(q), point, j)
                /\ ~Never(q, point, j) => ~Never(Tail(q), point, j)
           /\ Matches(Head(q), point, j) /\ Once(q, point, j) => Never(Tail(q), point, j)
<1> DEFINE r == Tail(q)
<1>1. /\ Len(q) \in Nat /\ DOMAIN q = 1 .. Len(q) /\ DOMAIN r = 1 .. Len(q) - 1
      /\ Len(q) > 0 /\ q[1] = Head(q) /\ \A i \in 1 .. Len(q) - 1 : r[i] = q[i + 1]
    OBVIOUS
<1> HIDE DEF r
<1>2. \A i \in DOMAIN r : i + 1 \in DOMAIN q /\ r[i] = q[i + 1]
    BY <1>1
<1>3. \A i \in DOMAIN q : i # 1 => i - 1 \in DOMAIN r /\ r[i - 1] = q[i]
    BY <1>1
<1>4. ASSUME Never(q, point, j) PROVE Never(r, point, j)
    BY <1>2, <1>4 DEF Never
<1>5. ASSUME ~Matches(Head(q), point, j), Once(q, point, j) PROVE Once(r, point, j)
  <2>1. PICK i \in DOMAIN q : /\ Matches(q[i], point, j)
                              /\ \A h \in DOMAIN q : Matches(q[h], point, j) => h = i
      BY <1>5 DEF Once
  <2>2. i - 1 \in DOMAIN r /\ Matches(r[i - 1], point, j)
      BY <1>1, <1>3, <1>5, <2>1
  <2>3. ASSUME NEW h \in DOMAIN r, Matches(r[h], point, j) PROVE h = i - 1
    <3>1. h + 1 = i
        BY <1>2, <2>1, <2>3
    <3>2. QED
        BY <1>1, <3>1
  <2>4. QED
      BY <2>2, <2>3 DEF Once
<1>6. ASSUME ~Matches(Head(q), point, j), ~Never(q, point, j) PROVE ~Never(r, point, j)
    BY <1>1, <1>3, <1>6 DEF Never
<1>7. ASSUME Matches(Head(q), point, j), Once(q, point, j) PROVE Never(r, point, j)
  <2>1. \A h \in DOMAIN q : Matches(q[h], point, j) => h = 1
      BY <1>1, <1>7 DEF Once
  <2>2. QED
      BY <1>1, <1>2, <2>1 DEF Never
<1>8. QED
    BY <1>4, <1>5, <1>6, <1>7 DEF r

\* Never and Once are the counts 0 and 1.
LEMMA PendingCount ==
    ASSUME TypeOK, NEW point, NEW j
    PROVE  /\ Never(microtasks, point, j) <=> Pending(point, j) = {}
           /\ Never(microtasks, point, j) => Cardinality(Pending(point, j)) = 0
           /\ Once(microtasks, point, j) => Cardinality(Pending(point, j)) = 1
<1>1. Never(microtasks, point, j) <=> Pending(point, j) = {}
    BY DEF Never, Matches, Pending
<1>2. Once(microtasks, point, j) => \E i : Pending(point, j) = {i}
    BY DEF Once, Matches, Pending
<1>3. QED
    BY <1>1, <1>2, FS_EmptySet, FS_Singleton

-----------------------------------------------------------------------------
(* What a step does to the queue *)

\* A step queues task t, alone or after running the task at the head.
Pushes(from, t) ==
    /\ t \in Tasks
    /\ \/ from = "call" /\ microtasks' = Append(microtasks, t)
       \/ from # "call" /\ Runs(from) /\ microtasks' = Append(Tail(microtasks), t)

\* A step runs the task at the head and queues nothing.
Pops(from) == Runs(from) /\ microtasks' = Tail(microtasks)

LEMMA SubmitMoves ==
    ASSUME TypeOK
    PROVE  /\ \A s \in Scopes, f \in Fingerprints : Submit(s, f) =>
                Pushes("call", [at |-> "submit.lookedUp", scope |-> s, fingerprint |-> f,
                                hit |-> idem[s]])
           /\ SubmitReply => Pops("submit.lookedUp")
           /\ SubmitInsert => \E j \in JobIds :
                Pushes("submit.lookedUp",
                       [at |-> "submit.inserted", scope |-> Task.scope,
                        fingerprint |-> Task.fingerprint, job |-> j])
           /\ SubmitIndex => Pushes("submit.inserted", JobTask("submit.indexed", Task.job))
           /\ SubmitReserve => Pops("submit.indexed")
<1>1. ASSUME NEW s \in Scopes, NEW f \in Fingerprints, Submit(s, f)
      PROVE  Pushes("call", [at |-> "submit.lookedUp", scope |-> s, fingerprint |-> f,
                             hit |-> idem[s]])
  <2>1. idem[s] \in IdempotencyRecords \cup {None}
      BY DEF TypeOK
  <2>2. QED
      BY <1>1, <2>1, TaskConstructors DEF Submit, Await, Pushes
<1>2. SubmitReply => Pops("submit.lookedUp")
    BY DEF SubmitReply, Return, Pops
<1>3. ASSUME SubmitInsert
      PROVE  \E j \in JobIds : Pushes("submit.lookedUp",
                 [at |-> "submit.inserted", scope |-> Task.scope,
                  fingerprint |-> Task.fingerprint, job |-> j])
  <2>1. PICK j \in Vacant : AwaitNext([at |-> "submit.inserted", scope |-> Task.scope,
                                       fingerprint |-> Task.fingerprint, job |-> j])
      BY <1>3 DEF SubmitInsert
  <2>2. j \in JobIds
      BY DEF Vacant
  <2>3. QED
      BY <1>3, <2>1, <2>2, LookedUpTask, TaskConstructors DEF SubmitInsert, AwaitNext, Pushes
<1>4. SubmitIndex => Pushes("submit.inserted", JobTask("submit.indexed", Task.job))
    BY InsertedTask, TaskConstructors DEF SubmitIndex, AwaitNext, Pushes
<1>5. SubmitReserve => Pops("submit.indexed")
    BY DEF SubmitReserve, Report, Return, Pops
<1>6. QED
    BY <1>1, <1>2, <1>3, <1>4, <1>5

LEMMA ClaimMoves ==
    ASSUME TypeOK
    PROVE  /\ \A c \in ClaimCallers, w \in Claimants : ClaimPick(c, w) =>
                \E j \in Claimable : /\ \A k \in Claimable : j <= k
                                     /\ Pushes("call", ClaimTask("claim.picked", j, w, 0, c))
           /\ ClaimReserve =>
                Pushes("claim.picked", ClaimTask("claim.reserved", Task.job, Task.worker,
                                                 jobs[Task.job].attempt + 1, Task.caller))
           /\ ClaimLost => Pops("claim.picked")
           /\ ClaimReturn =>
                \/ Pops("claim.reserved")
                \/ Pushes("claim.reserved", ClaimTask("claim.returned", Task.job, Task.worker,
                                                      Task.attempt, Task.caller))
<1>1. ASSUME NEW c \in ClaimCallers, NEW w \in Claimants, ClaimPick(c, w)
      PROVE  \E j \in Claimable : /\ \A k \in Claimable : j <= k
                                  /\ Pushes("call", ClaimTask("claim.picked", j, w, 0, c))
  <2>1. PICK j \in Claimable : /\ \A k \in Claimable : j <= k
                               /\ Await(ClaimTask("claim.picked", j, w, 0, c))
      BY <1>1 DEF ClaimPick
  <2>2. ClaimTask("claim.picked", j, w, 0, c) \in Tasks
      BY TaskConstructors DEF Claimable
  <2>3. QED
      BY <2>1, <2>2 DEF Await, Pushes
<1>2. ASSUME ClaimReserve
      PROVE  Pushes("claim.picked", ClaimTask("claim.reserved", Task.job, Task.worker,
                                              jobs[Task.job].attempt + 1, Task.caller))
  <2>1. Task.job \in JobIds /\ Task.worker \in Claimants /\ Task.caller \in ClaimCallers
      BY <1>2, ClaimTaskType DEF ClaimReserve
  <2>2. jobs[Task.job].attempt + 1 \in Nat
      BY <2>1 DEF TypeOK, JobRows
  <2>3. ClaimTask("claim.reserved", Task.job, Task.worker, jobs[Task.job].attempt + 1,
                  Task.caller) \in Tasks
      BY <2>1, <2>2, TaskConstructors
  <2>4. QED
      BY <1>2, <2>3 DEF ClaimReserve, AwaitNext, Pushes
<1>3. ClaimLost => Pops("claim.picked")
    BY DEF ClaimLost, Return, Pops
<1>4. ASSUME ClaimReturn
      PROVE  \/ Pops("claim.reserved")
             \/ Pushes("claim.reserved", ClaimTask("claim.returned", Task.job, Task.worker,
                                                   Task.attempt, Task.caller))
  <2> DEFINE t == [Task EXCEPT !.at = "claim.returned"]
  <2>1. t = ClaimTask("claim.returned", Task.job, Task.worker, Task.attempt, Task.caller)
      BY <1>4, ClaimTaskType DEF ClaimReturn, ClaimTask
  <2>2. t \in Tasks
      BY <1>4, <2>1, ClaimTaskType, TaskConstructors DEF ClaimReturn
  <2>3. microtasks' = Tail(microtasks) \/ microtasks' = Append(Tail(microtasks), t)
      BY <1>4 DEF ClaimReturn, Return, AwaitNext
  <2> HIDE DEF t
  <2>4. QED
      BY <1>4, <2>1, <2>2, <2>3 DEF ClaimReturn, Pops, Pushes
<1>5. QED
    BY <1>1, <1>2, <1>3, <1>4

LEMMA WorkMoves ==
    ASSUME TypeOK
    PROVE  /\ CrashBeforeProvider \/ CrashAfterProvider => Pops("claim.returned")
           /\ WorkFinish =>
                IF HeldBy(Task.job, Task.worker)
                THEN Pushes("claim.returned", JobTask("success.stored", Task.job))
                ELSE Pops("claim.returned")
           /\ \A j \in JobIds, w \in Workers : CompleteClaim(j, w) =>
                IF HeldBy(j, w) THEN Pushes("call", JobTask("success.stored", j))
                                ELSE microtasks' = microtasks
           /\ FailDeadLetter \/ FailTerminal =>
                Pushes("claim.returned", JobTask("failure.stored", Task.job))
           /\ FailReschedule => Pushes("claim.returned", JobTask("retry.stored", Task.job))
<1>1. CrashBeforeProvider \/ CrashAfterProvider => Pops("claim.returned")
    BY DEF CrashBeforeProvider, CrashAfterProvider, Return, Pops
<1>2. ASSUME WorkFinish
      PROVE  IF HeldBy(Task.job, Task.worker)
             THEN Pushes("claim.returned", JobTask("success.stored", Task.job))
             ELSE Pops("claim.returned")
    BY <1>2, ClaimTaskType, TaskConstructors DEF WorkFinish, Complete, Pops, Pushes
<1>3. ASSUME NEW j \in JobIds, NEW w \in Workers, CompleteClaim(j, w)
      PROVE  IF HeldBy(j, w) THEN Pushes("call", JobTask("success.stored", j))
                             ELSE microtasks' = microtasks
    BY <1>3, TaskConstructors DEF CompleteClaim, Complete, Pushes
<1>4. FailDeadLetter \/ FailTerminal =>
        Pushes("claim.returned", JobTask("failure.stored", Task.job))
    BY ClaimTaskType, TaskConstructors DEF FailDeadLetter, FailTerminal, AwaitNext, Pushes
<1>5. FailReschedule => Pushes("claim.returned", JobTask("retry.stored", Task.job))
    BY ClaimTaskType, TaskConstructors DEF FailReschedule, AwaitNext, Pushes
<1>6. QED
    BY <1>1, <1>2, <1>3, <1>4, <1>5

LEMMA OtherMoves ==
    ASSUME TypeOK
    PROVE  /\ CommitSuccess => Pops("success.stored")
           /\ ReleaseFailed => Pops("failure.stored")
           /\ NoteRetry => Pops("retry.stored")
           /\ NoteReaped => Pops("reap.stored")
           /\ ReleaseCancelled => Pops("cancel.stored")
           /\ NoteRecovered => Pops("recover.stored")
           /\ \A j \in JobIds, w \in Workers, now \in 0..MaxTime :
                Heartbeat(j, w, now) => microtasks' = microtasks
           /\ \A now \in 0..MaxTime : ReapExpiredLeases(now) =>
                LET reaped == {j \in JobIds : Expired(j, now)}
                IN  IF reaped # {} THEN Pushes("call", [at |-> "reap.stored", jobs |-> reaped])
                                   ELSE microtasks' = microtasks
           /\ ReleaseRetryWait => microtasks' = microtasks
           /\ \A j \in JobIds : RequestCancel(j) => Pushes("call", JobTask("cancel.stored", j))
           /\ \A j \in JobIds : ManualRecover(j) => Pushes("call", JobTask("recover.stored", j))
<1>1. /\ CommitSuccess => Pops("success.stored")
      /\ ReleaseFailed => Pops("failure.stored")
      /\ NoteRetry => Pops("retry.stored")
      /\ NoteReaped => Pops("reap.stored")
      /\ ReleaseCancelled => Pops("cancel.stored")
      /\ NoteRecovered => Pops("recover.stored")
    BY DEF CommitSuccess, ReleaseFailed, NoteRetry, NoteReaped, ReleaseCancelled, NoteRecovered,
           Report, Return, Pops
<1>2. \A j \in JobIds, w \in Workers, now \in 0..MaxTime :
        Heartbeat(j, w, now) => microtasks' = microtasks
    BY DEF Heartbeat
<1>3. ASSUME NEW now \in 0..MaxTime, ReapExpiredLeases(now)
      PROVE  LET reaped == {j \in JobIds : Expired(j, now)}
             IN  IF reaped # {} THEN Pushes("call", [at |-> "reap.stored", jobs |-> reaped])
                                ELSE microtasks' = microtasks
    BY <1>3, TaskConstructors DEF ReapExpiredLeases, Await, Pushes
<1>4. ReleaseRetryWait => microtasks' = microtasks
    BY DEF ReleaseRetryWait
<1>5. \A j \in JobIds : RequestCancel(j) => Pushes("call", JobTask("cancel.stored", j))
    BY TaskConstructors DEF RequestCancel, Await, Pushes
<1>6. \A j \in JobIds : ManualRecover(j) => Pushes("call", JobTask("recover.stored", j))
    BY TaskConstructors DEF ManualRecover, Await, Pushes
<1>7. QED
    BY <1>1, <1>2, <1>3, <1>4, <1>5, <1>6

\* The status of a row after the updates of the store.
LEMMA RowStatus ==
    ASSUME TypeOK, NEW j \in JobIds
    PROVE  /\ \A outcome : Settled(j, outcome).status = outcome
           /\ Claimed(j).status = "running"
           /\ \A n : Rescheduled(j, n).status = "retry_wait"
           /\ \A n : [jobs[j] EXCEPT !.leaseExpiresAt = n].status = jobs[j].status
           /\ \A n : [jobs[j] EXCEPT !.status = "queued", !.nextAttemptAt = n].status = "queued"
           /\ \A n : [Settled(j, "queued") EXCEPT !.nextAttemptAt = n].status = "queued"
BY DEF TypeOK, JobRows, Settled, Claimed, Rescheduled

LEMMA FinishStatus ==
    ASSUME TypeOK, NEW j \in JobIds, NEW outcome, Finish(j, outcome)
    PROVE  /\ jobs'[j].status = outcome
           /\ \A k \in JobIds \ {j} : jobs'[k].status = jobs[k].status
BY RowStatus DEF Finish, TypeOK

-----------------------------------------------------------------------------
(* A duplicate submit finds the reservation *)

\* A row that is there stays there, in its workspace.
LEMMA RowsStay ==
    ASSUME TypeOK, HeldWhileRunning, StoreStep, NEW j \in JobIds, jobs[j].status # "absent"
    PROVE  jobs'[j].status # "absent" /\ jobs'[j].workspaceId = jobs[j].workspaceId
<1>1. \A k \in JobIds : jobs[k] \in JobRows
    BY DEF TypeOK
<1>2. jobs'[j].status # "absent"
    BY StatusStep
<1>3. \A k \in JobIds : \A outcome : Settled(k, outcome).workspaceId = jobs[k].workspaceId
    BY <1>1 DEF Settled, JobRows
<1>4. ASSUME NEW k \in JobIds, Inserted(k) PROVE jobs'[j].workspaceId = jobs[j].workspaceId
    BY <1>4 DEF Inserted, TypeOK
<1>5. ASSUME NEW k \in JobIds, NEW w \in Claimants, ClaimedBy(k, w)
      PROVE  jobs'[j].workspaceId = jobs[j].workspaceId
  <2>1. Claimed(k).workspaceId = jobs[k].workspaceId
      BY <1>1 DEF Claimed, JobRows
  <2>2. QED
      BY <1>5, <2>1 DEF ClaimedBy, TypeOK
<1>6. ASSUME NEW k \in JobIds, NEW w \in Claimants, RetriedBy(k, w)
      PROVE  jobs'[j].workspaceId = jobs[j].workspaceId
  <2>1. PICK n \in Nat : jobs' = [jobs EXCEPT ![k] = Rescheduled(k, n)]
      BY <1>6 DEF RetriedBy
  <2>2. Rescheduled(k, n).workspaceId = jobs[k].workspaceId
      BY <1>1 DEF Rescheduled, JobRows
  <2>3. QED
      BY <2>1, <2>2 DEF TypeOK
<1>7. ASSUME NEW k \in JobIds, NEW outcome, Finish(k, outcome)
      PROVE  jobs'[j].workspaceId = jobs[j].workspaceId
    BY <1>3, <1>7 DEF Finish, TypeOK
<1>8. ASSUME NEW k \in JobIds, Extended(k) PROVE jobs'[j].workspaceId = jobs[j].workspaceId
    BY <1>1, <1>8 DEF Extended, TypeOK, JobRows
<1>9. ASSUME NEW S \in SUBSET JobIds, Reaped(S)
      PROVE  jobs'[j].workspaceId = jobs[j].workspaceId
    BY <1>3, <1>9 DEF Reaped
<1>10. ASSUME Released PROVE jobs'[j].workspaceId = jobs[j].workspaceId
    BY <1>1, <1>10 DEF Released, JobRows
<1>11. ASSUME NEW k \in JobIds, Recovered(k) PROVE jobs'[j].workspaceId = jobs[j].workspaceId
  <2>1. Settled(k, "queued").workspaceId = jobs[k].workspaceId /\ Settled(k, "queued") \in
          [status : {"queued"}, workspaceId : Workspaces \cup {None}, key : Keys \cup {None},
           attempt : Nat, leaseExpiresAt : {None}, nextAttemptAt : Int \cup {None}]
      BY <1>1 DEF Settled, JobRows
  <2>2. [Settled(k, "queued") EXCEPT !.nextAttemptAt = fakeNow].workspaceId
          = jobs[k].workspaceId
      BY <2>1
  <2>3. QED
      BY <1>11, <2>2 DEF Recovered, TypeOK
<1>12. QED
    BY <1>2, <1>4, <1>5, <1>6, <1>7, <1>8, <1>9, <1>10, <1>11
    DEF StoreStep, SteadyStep, FinishedBy, Cancelled

\* Job j has a row, in the workspace of scope s.
Named(rows, j, s) == rows[j].status # "absent" /\ rows[j].workspaceId = s[1]

\* A reservation id is there, or its task stands before position n of the queue.
Promised(ids, q, n, j) ==
    j \in ids \/ \E h \in DOMAIN q : h < n /\ Matches(q[h], "submit.indexed", j)

\* What the task at position n says of its job holds, or will when it runs.
Kept(rows, ids, q, n, t) ==
    /\ t.at = "submit.inserted" => Named(rows, t.job, t.scope)
    /\ t.at = "submit.lookedUp" /\ t.hit # None =>
         Named(rows, t.hit.job, t.scope) /\ Promised(ids, q, n, t.hit.job)

QueueKept(rows, ids, q) == \A n \in DOMAIN q : Kept(rows, ids, q, n, q[n])

RecordsKept(rows, ids, q, records) ==
    \A s \in Scopes : records[s] # None =>
        /\ Named(rows, records[s].job, s)
        /\ records[s].job \in ids \/ ~Never(q, "submit.indexed", records[s].job)

\* The inductive invariant: an idempotency record and a lookup that found one
\* are never ahead of the task that assigns the reservation id.
ReplyInv ==
    /\ QueueKept(jobs, reservationIds, microtasks)
    /\ RecordsKept(jobs, reservationIds, microtasks, idem)

\* Both parts survive a step that queues a task they hold of.
LEMMA PushKept ==
    ASSUME NEW rows, NEW ids, NEW records, NEW q \in Seq(Tasks), NEW t \in Tasks,
           QueueKept(rows, ids, q), RecordsKept(rows, ids, q, records),
           Kept(rows, ids, q, Len(q) + 1, t)
    PROVE  QueueKept(rows, ids, Append(q, t)) /\ RecordsKept(rows, ids, Append(q, t), records)
<1> DEFINE r == Append(q, t)
<1>1. /\ Len(q) \in Nat /\ DOMAIN q = 1 .. Len(q) /\ DOMAIN r = 1 .. Len(q) + 1
      /\ r[Len(q) + 1] = t /\ \A i \in 1 .. Len(q) : r[i] = q[i]
    OBVIOUS
<1>2. \A j : ~Never(q, "submit.indexed", j) => ~Never(r, "submit.indexed", j)
    BY <1>1 DEF Never
<1> HIDE DEF r
<1>3. \A n, j : Promised(ids, q, n, j) => Promised(ids, r, n, j)
    BY <1>1 DEF Promised
<1>4. ASSUME NEW n \in DOMAIN r PROVE Kept(rows, ids, r, n, r[n])
  <2>1. CASE n = Len(q) + 1
      BY <1>1, <1>3, <2>1 DEF Kept
  <2>2. CASE n # Len(q) + 1
    <3>1. n \in DOMAIN q /\ r[n] = q[n]
        BY <1>1, <2>2
    <3>2. Kept(rows, ids, q, n, q[n])
        BY <3>1 DEF QueueKept
    <3>3. QED
        BY <1>3, <3>1, <3>2 DEF Kept
  <2>3. QED
      BY <2>1, <2>2
<1>5. QED
    BY <1>2, <1>4 DEF QueueKept, RecordsKept, r

\* Both parts survive a step that runs the task at the head, if the step gives
\* the job of a "submit.indexed" task its reservation id.
LEMMA PopKept ==
    ASSUME NEW rows, NEW ids, NEW more, NEW records, NEW q \in Seq(Tasks), q # <<>>,
           QueueKept(rows, ids, q), RecordsKept(rows, ids, q, records),
           ids \subseteq more, Head(q).at = "submit.indexed" => Head(q).job \in more
    PROVE  QueueKept(rows, more, Tail(q)) /\ RecordsKept(rows, more, Tail(q), records)
<1> DEFINE r == Tail(q)
<1>1. /\ Len(q) \in Nat /\ DOMAIN q = 1 .. Len(q) /\ DOMAIN r = 1 .. Len(q) - 1
      /\ Len(q) > 0 /\ q[1] = Head(q) /\ \A i \in 1 .. Len(q) - 1 : r[i] = q[i + 1]
    OBVIOUS
<1> HIDE DEF r
<1>2. \A i \in DOMAIN r : i + 1 \in DOMAIN q /\ r[i] = q[i + 1]
    BY <1>1
<1>3. \A i \in DOMAIN q : i # 1 => i - 1 \in DOMAIN r /\ r[i - 1] = q[i]
    BY <1>1
<1>4. ASSUME NEW n \in DOMAIN r, NEW j, Promised(ids, q, n + 1, j)
      PROVE  Promised(more, r, n, j)
  <2>1. CASE j \in ids
      BY <2>1 DEF Promised
  <2>2. ASSUME NEW h \in DOMAIN q, h < n + 1, Matches(q[h], "submit.indexed", j)
        PROVE  Promised(more, r, n, j)
    <3>1. CASE h = 1
        BY <1>1, <2>2, <3>1 DEF Promised, Matches
    <3>2. CASE h # 1
      <4>1. h - 1 \in DOMAIN r /\ r[h - 1] = q[h] /\ h - 1 < n
          BY <1>1, <1>3, <2>2, <3>2
      <4>2. QED
          BY <2>2, <4>1 DEF Promised
    <3>3. QED
        BY <3>1, <3>2
  <2>3. QED
      BY <1>4, <2>1, <2>2 DEF Promised
<1>5. ASSUME NEW n \in DOMAIN r PROVE Kept(rows, more, r, n, r[n])
  <2>1. n + 1 \in DOMAIN q /\ r[n] = q[n + 1] /\ Kept(rows, ids, q, n + 1, q[n + 1])
      BY <1>2 DEF QueueKept
  <2>2. QED
      BY <1>4, <2>1 DEF Kept
<1>6. ASSUME NEW j, ~Never(q, "submit.indexed", j)
      PROVE  j \in more \/ ~Never(r, "submit.indexed", j)
  <2>1. PICK i \in DOMAIN q : Matches(q[i], "submit.indexed", j)
      BY <1>6 DEF Never
  <2>2. CASE i = 1
      BY <1>1, <2>1, <2>2 DEF Matches
  <2>3. CASE i # 1
      BY <1>3, <2>1, <2>3 DEF Never
  <2>4. QED
      BY <2>2, <2>3
<1>7. RecordsKept(rows, more, r, records)
    BY <1>6 DEF RecordsKept
<1>8. QED
    BY <1>5, <1>7 DEF QueueKept, r

\* Both parts survive a change of rows that keeps what is there.
LEMMA RowsKept ==
    ASSUME NEW rows, NEW later, NEW ids, NEW records, NEW q \in Seq(Tasks),
           records \in [Scopes -> IdempotencyRecords \cup {None}],
           QueueKept(rows, ids, q), RecordsKept(rows, ids, q, records),
           \A j \in JobIds : rows[j].status # "absent" =>
             later[j].status # "absent" /\ later[j].workspaceId = rows[j].workspaceId
    PROVE  QueueKept(later, ids, q) /\ RecordsKept(later, ids, q, records)
<1>1. \A j \in JobIds : \A s : Named(rows, j, s) => Named(later, j, s)
    BY DEF Named
<1>2. ASSUME NEW n \in DOMAIN q PROVE Kept(later, ids, q, n, q[n])
  <2>1. q[n] \in Tasks /\ Kept(rows, ids, q, n, q[n])
      BY DEF QueueKept
  <2>2. q[n].at = "submit.inserted" => q[n].job \in JobIds
      BY <2>1 DEF Tasks
  <2>3. q[n].at = "submit.lookedUp" /\ q[n].hit # None => q[n].hit.job \in JobIds
      BY <2>1 DEF Tasks, IdempotencyRecords
  <2>4. QED
      BY <1>1, <2>1, <2>2, <2>3 DEF Kept
<1>3. \A s \in Scopes : records[s] # None => records[s].job \in JobIds
    BY DEF IdempotencyRecords
<1>4. RecordsKept(later, ids, q, records)
    BY <1>1, <1>3 DEF RecordsKept
<1>5. QED
    BY <1>2, <1>4 DEF QueueKept

\* A step outside submit leaves records, reservation ids and submit's tasks alone.
LeavesSubmit ==
    /\ UNCHANGED <<idem, reservationIds>>
    /\ \/ microtasks' = microtasks
       \/ \E from : from # "submit.indexed" /\ Pops(from)
       \/ \E from, t : /\ from # "submit.indexed" /\ Pushes(from, t)
                       /\ t.at \notin {"submit.inserted", "submit.lookedUp"}

SubmitStep ==
    \/ \E s \in Scopes, f \in Fingerprints : Submit(s, f)
    \/ SubmitReply \/ SubmitInsert \/ SubmitIndex \/ SubmitReserve

LEMMA OutsideSubmit ==
    ASSUME TypeOK, [Next]_vars, ~SubmitStep
    PROVE  LeavesSubmit
<1> USE DEF storeVars, facadeVars
<1>1. ASSUME NEW c \in ClaimCallers, NEW w \in Claimants, ClaimPick(c, w) PROVE LeavesSubmit
  <2>1. PICK j \in Claimable : Pushes("call", ClaimTask("claim.picked", j, w, 0, c))
      BY <1>1, ClaimMoves
  <2>2. QED
      BY <1>1, <2>1 DEF ClaimPick, LeavesSubmit, ClaimTask
<1>2. ASSUME ClaimReserve \/ ClaimLost PROVE LeavesSubmit
    BY <1>2, ClaimMoves DEF ClaimReserve, ClaimLost, LeavesSubmit, ClaimTask
<1>3. ASSUME ClaimReturn PROVE LeavesSubmit
    BY <1>3, ClaimMoves DEF ClaimReturn, LeavesSubmit, ClaimTask
<1>4. ASSUME CrashBeforeProvider \/ CrashAfterProvider PROVE LeavesSubmit
    BY <1>4, WorkMoves DEF CrashBeforeProvider, CrashAfterProvider, LeavesSubmit
<1>5. ASSUME WorkFinish PROVE LeavesSubmit
    BY <1>5, WorkMoves DEF WorkFinish, Complete, LeavesSubmit, JobTask
<1>6. ASSUME NEW j \in JobIds, NEW w \in Workers, CompleteClaim(j, w) PROVE LeavesSubmit
    BY <1>6, WorkMoves DEF CompleteClaim, Complete, LeavesSubmit, JobTask
<1>7. ASSUME FailDeadLetter \/ FailTerminal \/ FailReschedule PROVE LeavesSubmit
    BY <1>7, WorkMoves DEF FailDeadLetter, FailTerminal, FailReschedule, LeavesSubmit, JobTask
<1>8. ASSUME \/ CommitSuccess \/ ReleaseFailed \/ NoteRetry \/ ReleaseCancelled
             \/ NoteRecovered \/ NoteReaped
      PROVE  LeavesSubmit
    BY <1>8, OtherMoves DEF CommitSuccess, ReleaseFailed, NoteRetry, ReleaseCancelled,
       NoteRecovered, NoteReaped, Report, LeavesSubmit
<1>9. ASSUME \/ \E j \in JobIds, w \in Workers, now \in 0..MaxTime : Heartbeat(j, w, now)
             \/ ReleaseRetryWait
      PROVE  LeavesSubmit
    BY <1>9 DEF Heartbeat, ReleaseRetryWait, LeavesSubmit
<1>10. ASSUME NEW now \in 0..MaxTime, ReapExpiredLeases(now) PROVE LeavesSubmit
  <2> DEFINE reaped == {j \in JobIds : Expired(j, now)}
             t == [at |-> "reap.stored", jobs |-> reaped]
  <2>1. t.at = "reap.stored"
      OBVIOUS
  <2>2. microtasks' = microtasks \/ Pushes("call", t)
      BY <1>10, OtherMoves
  <2>3. UNCHANGED <<idem, reservationIds>>
      BY <1>10 DEF ReapExpiredLeases
  <2> HIDE DEF t
  <2>4. QED
      BY <2>1, <2>2, <2>3 DEF LeavesSubmit
<1>11. ASSUME NEW j \in JobIds, RequestCancel(j) \/ ManualRecover(j) PROVE LeavesSubmit
    BY <1>11, OtherMoves DEF RequestCancel, ManualRecover, LeavesSubmit, JobTask
<1>12. CASE UNCHANGED vars
    BY <1>12 DEF vars, LeavesSubmit
<1>13. QED
    BY <1>1, <1>2, <1>3, <1>4, <1>5, <1>6, <1>7, <1>8, <1>9, <1>10, <1>11, <1>12
    DEF Next, RunTask, Call, SubmitStep

\* What submit does to the queue, its records and the reservation ids keeps ReplyInv
\* of the rows the step leaves.
LEMMA ReplyStep ==
    ASSUME TypeOK, HeldWhileRunning, ReplyInv, [Next]_vars
    PROVE  ReplyInv'
<1> USE DEF storeVars, facadeVars
<1>1. \A j \in JobIds : jobs[j].status # "absent" =>
        jobs'[j].status # "absent" /\ jobs'[j].workspaceId = jobs[j].workspaceId
    BY StoreStepLemma, RowsStay
<1>2. microtasks \in Seq(Tasks) /\ idem \in [Scopes -> IdempotencyRecords \cup {None}]
    BY DEF TypeOK
<1>3. /\ QueueKept(jobs', reservationIds, microtasks)
      /\ RecordsKept(jobs', reservationIds, microtasks, idem)
    BY <1>1, <1>2, RowsKept DEF ReplyInv
<1>4. ASSUME NEW from, from # "submit.indexed", Runs(from)
      PROVE  /\ Tail(microtasks) \in Seq(Tasks)
             /\ QueueKept(jobs', reservationIds, Tail(microtasks))
             /\ RecordsKept(jobs', reservationIds, Tail(microtasks), idem)
  <2>1. microtasks # <<>> /\ Head(microtasks).at # "submit.indexed"
      BY <1>4 DEF Runs, Task
  <2>2. QED
      BY <1>2, <1>3, <2>1, PopKept, HeadTask
<1>5. ASSUME NEW from, NEW t, from # "submit.indexed", Pushes(from, t),
             \A n : \A q : Kept(jobs', reservationIds, q, n, t)
      PROVE  /\ QueueKept(jobs', reservationIds, microtasks')
             /\ RecordsKept(jobs', reservationIds, microtasks', idem)
    BY <1>2, <1>3, <1>4, <1>5, PushKept DEF Pushes
<1>6. CASE ~SubmitStep
  <2>1. LeavesSubmit
      BY <1>6, OutsideSubmit
  <2>2. CASE microtasks' = microtasks
      BY <1>3, <2>1, <2>2 DEF LeavesSubmit, ReplyInv
  <2>3. ASSUME NEW from, from # "submit.indexed", Pops(from) PROVE ReplyInv'
      BY <1>4, <2>1, <2>3 DEF LeavesSubmit, ReplyInv, Pops
  <2>4. ASSUME NEW from, NEW t, from # "submit.indexed", Pushes(from, t),
               t.at \notin {"submit.inserted", "submit.lookedUp"}
        PROVE  ReplyInv'
    <3>1. \A n : \A q : Kept(jobs', reservationIds, q, n, t)
        BY <2>4 DEF Kept
    <3>2. QED
        BY <1>5, <2>1, <2>4, <3>1 DEF LeavesSubmit, ReplyInv
  <2>5. QED
      BY <2>1, <2>2, <2>3, <2>4 DEF LeavesSubmit
<1>7. ASSUME NEW s \in Scopes, NEW f \in Fingerprints, Submit(s, f) PROVE ReplyInv'
  <2> DEFINE t == [at |-> "submit.lookedUp", scope |-> s, fingerprint |-> f, hit |-> idem[s]]
  <2>1. t.at = "submit.lookedUp" /\ t.scope = s /\ t.hit = idem[s]
      OBVIOUS
  <2>2. Pushes("call", t)
      BY <1>7, SubmitMoves
  <2> HIDE DEF t
  <2>3. t \in Tasks /\ microtasks' = Append(microtasks, t)
      BY <2>2 DEF Pushes, Runs
  <2>4. ASSUME idem[s] # None, ~Never(microtasks, "submit.indexed", idem[s].job)
        PROVE  Promised(reservationIds, microtasks, Len(microtasks) + 1, idem[s].job)
    <3>1. PICK i \in DOMAIN microtasks : Matches(microtasks[i], "submit.indexed", idem[s].job)
        BY <2>4 DEF Never
    <3>2. i < Len(microtasks) + 1
        BY <1>2
    <3>3. QED
        BY <3>1, <3>2 DEF Promised
  <2>5. Kept(jobs', reservationIds, microtasks, Len(microtasks) + 1, t)
      BY <1>3, <2>1, <2>4 DEF Kept, RecordsKept, Promised
  <2>6. /\ QueueKept(jobs', reservationIds, Append(microtasks, t))
        /\ RecordsKept(jobs', reservationIds, Append(microtasks, t), idem)
      BY <1>2, <1>3, <2>3, <2>5, PushKept
  <2>7. QED
      BY <1>7, <2>3, <2>6 DEF Submit, ReplyInv
<1>8. CASE SubmitReply
  <2>1. Pops("submit.lookedUp") /\ UNCHANGED <<idem, reservationIds>>
      BY <1>8, SubmitMoves DEF SubmitReply
  <2>2. QED
      BY <1>4, <2>1 DEF Pops, ReplyInv
<1>9. CASE SubmitInsert
  <2>1. PICK j \in Vacant :
          /\ jobs' = [jobs EXCEPT ![j] = NewJob(Task.scope)]
          /\ AwaitNext([at |-> "submit.inserted", scope |-> Task.scope,
                        fingerprint |-> Task.fingerprint, job |-> j])
      BY <1>9 DEF SubmitInsert
  <2> DEFINE t == [at |-> "submit.inserted", scope |-> Task.scope,
                   fingerprint |-> Task.fingerprint, job |-> j]
  <2>2. t.at = "submit.inserted" /\ t.job = j /\ t.scope = Task.scope
      OBVIOUS
  <2>3. j \in JobIds /\ Task.scope \in Scopes /\ Task.fingerprint \in Fingerprints
      BY <1>9, LookedUpTask DEF SubmitInsert, Vacant
  <2>4. t \in Tasks
      BY <2>3, TaskConstructors
  <2>5. Runs("submit.lookedUp") /\ microtasks' = Append(Tail(microtasks), t)
      BY <1>9, <2>1 DEF SubmitInsert, AwaitNext
  <2> HIDE DEF t
  <2>6. Named(jobs', j, Task.scope)
      BY <2>1, <2>3 DEF Named, NewJob, NoJob, TypeOK
  <2>7. \A n : \A q : Kept(jobs', reservationIds, q, n, t)
      BY <2>2, <2>6 DEF Kept
  <2>8. Pushes("submit.lookedUp", t)
      BY <2>4, <2>5 DEF Pushes
  <2>9. QED
      BY <1>5, <1>9, <2>7, <2>8 DEF SubmitInsert, ReplyInv
<1>10. CASE SubmitIndex
  <2> DEFINE t == JobTask("submit.indexed", Task.job)
             records == [idem EXCEPT ![Task.scope] =
                            [job |-> Task.job, fingerprint |-> Task.fingerprint]]
  <2>1. /\ Runs("submit.inserted") /\ idem' = records /\ UNCHANGED reservationIds
        /\ microtasks' = Append(Tail(microtasks), t)
      BY <1>10 DEF SubmitIndex, AwaitNext
  <2>2. /\ t.at = "submit.indexed" /\ t.job = Task.job /\ t \in Tasks
        /\ Task.scope \in Scopes
      BY <2>1, InsertedTask, TaskConstructors DEF JobTask
  <2>3. \A s \in Scopes :
          records[s] = IF s = Task.scope
                       THEN [job |-> Task.job, fingerprint |-> Task.fingerprint] ELSE idem[s]
      BY <1>2
  <2> HIDE DEF t, records
  <2>4. \A n : \A q : Kept(jobs', reservationIds, q, n, t)
      BY <2>2 DEF Kept
  <2>5. /\ QueueKept(jobs', reservationIds, microtasks')
        /\ RecordsKept(jobs', reservationIds, microtasks', idem)
      BY <1>5, <2>1, <2>2, <2>4 DEF Pushes
  <2>6. ~Never(microtasks', "submit.indexed", Task.job)
    <3>1. Tail(microtasks) \in Seq(Tasks) /\ Matches(t, "submit.indexed", Task.job)
        BY <2>1, <2>2, HeadTask DEF Runs, Matches
    <3>2. QED
        BY <2>1, <2>2, <3>1, AppendedTask
  <2>7. Named(jobs', Task.job, Task.scope)
    <3>1. 1 \in DOMAIN microtasks /\ microtasks[1] = Task
        BY <1>2, <2>1 DEF Runs, Task
    <3>2. Kept(jobs', reservationIds, microtasks, 1, Task)
        BY <1>3, <3>1 DEF QueueKept
    <3>3. QED
        BY <2>1, <3>2 DEF Kept, Runs
  <2>8. RecordsKept(jobs', reservationIds, microtasks', records)
      BY <2>3, <2>5, <2>6, <2>7 DEF RecordsKept
  <2>9. QED
      BY <2>1, <2>5, <2>8 DEF ReplyInv
<1>11. CASE SubmitReserve
  <2>1. /\ Runs("submit.indexed") /\ microtasks' = Tail(microtasks) /\ UNCHANGED idem
        /\ reservationIds' = reservationIds \cup {Task.job}
      BY <1>11 DEF SubmitReserve, Report, Return
  <2>2. microtasks # <<>> /\ Head(microtasks).job \in reservationIds'
      BY <2>1 DEF Runs, Task
  <2>3. reservationIds \subseteq reservationIds'
      BY <2>1
  <2>4. /\ QueueKept(jobs', reservationIds', Tail(microtasks))
        /\ RecordsKept(jobs', reservationIds', Tail(microtasks), idem)
      BY <1>2, <1>3, <2>2, <2>3, PopKept
  <2>5. QED
      BY <2>1, <2>4 DEF ReplyInv
<1>12. QED
    BY <1>6, <1>7, <1>8, <1>9, <1>10, <1>11 DEF SubmitStep

\* A duplicate submit never replies with an empty reservation id, nor with a job
\* of another workspace, although the record it finds is written one
\* continuation before the reservation id: the continuation that assigns the id
\* always stands before the duplicate's own in the queue.
THEOREM DuplicatesAreReserved == Spec => []DuplicateFindsReservation
<1>1. Init => ReplyInv
    BY DEF Init, ReplyInv, QueueKept, RecordsKept
<1>2. TypeOK /\ ReplyInv => DuplicateFindsReservation
  <2> SUFFICES ASSUME TypeOK, ReplyInv, Runs("submit.lookedUp"), Task.hit # None
               PROVE  /\ jobs[Task.hit.job].workspaceId = Task.scope[1]
                      /\ Task.hit.job \in reservationIds
      BY DEF DuplicateFindsReservation
  <2>1. 1 \in DOMAIN microtasks /\ microtasks[1] = Task /\ \A h \in DOMAIN microtasks : h >= 1
      BY DEF TypeOK, Runs, Task
  <2>2. Kept(jobs, reservationIds, microtasks, 1, Task)
      BY <2>1 DEF ReplyInv, QueueKept
  <2>3. Task.at = "submit.lookedUp"
      BY DEF Runs
  <2>4. ~\E h \in DOMAIN microtasks : h < 1 /\ Matches(microtasks[h], "submit.indexed",
                                                       Task.hit.job)
    <3>1. \A h \in DOMAIN microtasks : h \in Int
        BY DEF TypeOK
    <3>2. QED
        BY <2>1, <3>1
  <2>5. QED
      BY <2>2, <2>3, <2>4 DEF Kept, Named, Promised
<1>3. QED
    BY <1>1, <1>2, ReplyStep, TypeCorrect, Ownership, PTL DEF Spec

-----------------------------------------------------------------------------
(* One running job in a workspace *)

\* Nothing but a retry release or a recovery queues such a job again.
Stopped(row) == row.status \in {"retry_wait", "succeeded", "failed", "cancelled"}

\* Every older job of the workspace of j has stopped.
Eldest(rows, j) ==
    \A k \in JobIds : k < j /\ rows[k].workspaceId = rows[j].workspaceId => Stopped(rows[k])

PicksEldest(rows, q) ==
    \A n \in DOMAIN q : q[n].at = "claim.picked" =>
        rows[q[n].job].status # "absent" /\ Eldest(rows, q[n].job)

\* The inductive invariant: jobs start in the order of their ids.
OrderInv ==
    /\ \A j \in JobIds : jobs[j].status \in {"queued", "running"} => jobs[j].nextAttemptAt = None
    /\ \A j, k \in JobIds : jobs[j].status = "absent" /\ j < k => jobs[k].status = "absent"
    /\ \A j \in Running : Eldest(jobs, j)
    /\ PicksEldest(jobs, microtasks)

\* What a mutation that queues no stopped job does to the row of job j.
LEMMA SteadyRow ==
    ASSUME TypeOK, HeldWhileRunning, SteadyStep, NEW j \in JobIds
    PROVE  /\ Stopped(jobs[j]) => Stopped(jobs'[j])
           /\ jobs'[j].status = "running" =>
                jobs[j].status = "running" \/ (Runs("claim.picked") /\ Task.job = j)
           /\ jobs[j].status = "absent" /\ jobs'[j].status # "absent" =>
                \A k \in Vacant : j <= k
           /\ jobs'[j].status \in {"queued", "running"} =>
                jobs'[j].nextAttemptAt = None \/
                  /\ jobs[j].status \in {"queued", "running"}
                  /\ jobs'[j].nextAttemptAt = jobs[j].nextAttemptAt
<1> DEFINE Good ==
             /\ Stopped(jobs[j]) => Stopped(jobs'[j])
             /\ jobs'[j].status = "running" =>
                  jobs[j].status = "running" \/ (Runs("claim.picked") /\ Task.job = j)
             /\ jobs[j].status = "absent" /\ jobs'[j].status # "absent" =>
                  \A k \in Vacant : j <= k
             /\ jobs'[j].status \in {"queued", "running"} =>
                  jobs'[j].nextAttemptAt = None \/
                    /\ jobs[j].status \in {"queued", "running"}
                    /\ jobs'[j].nextAttemptAt = jobs[j].nextAttemptAt
<1>1. \A k \in JobIds : jobs[k] \in JobRows
    BY DEF TypeOK
<1>2. ASSUME jobs'[j] = jobs[j] PROVE Good
    BY <1>2 DEF Stopped
<1>3. ASSUME NEW k \in JobIds, Inserted(k) PROVE Good
  <2>1. CASE k = j
    <3>1. jobs'[j].status = "queued" /\ jobs'[j].nextAttemptAt = None
        BY <1>3, <2>1 DEF Inserted, NewJob, NoJob, TypeOK
    <3>2. QED
        BY <1>3, <2>1, <3>1 DEF Inserted, Stopped
  <2>2. CASE k # j
      BY <1>2, <1>3, <2>2 DEF Inserted, TypeOK
  <2>3. QED
      BY <2>1, <2>2
<1>4. ASSUME NEW k \in JobIds, NEW w \in Claimants, ClaimedBy(k, w) PROVE Good
  <2>1. Claimed(k).status = "running" /\ Claimed(k).nextAttemptAt = jobs[k].nextAttemptAt
      BY <1>1 DEF Claimed, JobRows
  <2>2. QED
      BY <1>2, <1>4, <2>1 DEF ClaimedBy, TypeOK, Stopped
<1>5. ASSUME NEW k \in JobIds, workers[k] # None \/ Cancellable(k),
             NEW outcome \in {"succeeded", "failed", "cancelled"}, Finish(k, outcome)
      PROVE  Good
  <2>1. Settled(k, outcome).status = outcome
      BY <1>1 DEF Settled, JobRows
  <2>2. jobs[k].status # "absent"
      BY <1>5 DEF HeldWhileRunning, Cancellable
  <2>3. QED
      BY <1>2, <1>5, <2>1, <2>2 DEF Finish, TypeOK, Stopped
<1>6. ASSUME NEW k \in JobIds, NEW w \in Claimants, RetriedBy(k, w) PROVE Good
  <2>1. PICK n \in Nat : jobs' = [jobs EXCEPT ![k] = Rescheduled(k, n)]
      BY <1>6 DEF RetriedBy
  <2>2. Rescheduled(k, n).status = "retry_wait"
      BY <1>1 DEF Rescheduled, JobRows
  <2>3. jobs[k].status = "running"
      BY <1>6, NoneAssumption DEF RetriedBy, HeldWhileRunning
  <2>4. CASE k = j
      BY <2>1, <2>2, <2>3, <2>4 DEF TypeOK, Stopped
  <2>5. CASE k # j
      BY <1>2, <2>1, <2>5 DEF TypeOK
  <2>6. QED
      BY <2>4, <2>5
<1>7. ASSUME NEW k \in JobIds, Extended(k) PROVE Good
  <2>1. PICK n \in Nat : jobs' = [jobs EXCEPT ![k].leaseExpiresAt = n]
      BY <1>7 DEF Extended
  <2>2. /\ jobs'[j].status = jobs[j].status
        /\ jobs'[j].nextAttemptAt = jobs[j].nextAttemptAt
      BY <1>1, <2>1 DEF TypeOK, JobRows
  <2>3. QED
      BY <2>2 DEF Stopped
<1>8. ASSUME NEW S \in SUBSET JobIds, Reaped(S) PROVE Good
  <2>1. /\ Settled(j, "queued").status = "queued"
        /\ Settled(j, "queued").nextAttemptAt = jobs[j].nextAttemptAt
      BY <1>1 DEF Settled, JobRows
  <2>2. CASE j \in S
    <3>1. jobs[j].status = "running"
        BY <1>8, <2>2 DEF Reaped, Expired, Running
    <3>2. jobs'[j] = Settled(j, "queued")
        BY <1>8, <2>2 DEF Reaped
    <3>3. QED
        BY <2>1, <3>1, <3>2 DEF Stopped
  <2>3. CASE j \notin S
      BY <1>2, <1>8, <2>3 DEF Reaped
  <2>4. QED
      BY <2>2, <2>3
<1>9. ASSUME NEW k \in JobIds, NEW w \in Claimants, NEW outcome \in {"succeeded", "failed"},
             FinishedBy(k, w, outcome)
      PROVE  Good
    BY <1>5, <1>9, NoneAssumption DEF FinishedBy
<1>10. ASSUME NEW k \in JobIds, Cancelled(k) PROVE Good
    BY <1>5, <1>10 DEF Cancelled
<1>11. CASE UNCHANGED <<jobs, workers, audit>>
    BY <1>2, <1>11
<1>12. ASSUME NEW k \in JobIds,
              \/ Inserted(k) \/ Extended(k) \/ Cancelled(k)
              \/ \E w \in Claimants :
                   \/ ClaimedBy(k, w) \/ RetriedBy(k, w)
                   \/ \E outcome \in {"succeeded", "failed"} : FinishedBy(k, w, outcome)
       PROVE  Good
    BY <1>3, <1>4, <1>6, <1>7, <1>9, <1>10, <1>12
<1>13. CASE \E S \in SUBSET JobIds : Reaped(S)
    BY <1>8, <1>13
<1>14. CASE \E k \in JobIds :
              \/ Inserted(k) \/ Extended(k) \/ Cancelled(k)
              \/ \E w \in Claimants :
                   \/ ClaimedBy(k, w) \/ RetriedBy(k, w)
                   \/ \E outcome \in {"succeeded", "failed"} : FinishedBy(k, w, outcome)
    BY <1>12, <1>14
<1>15. QED
    BY <1>11, <1>13, <1>14 DEF SteadyStep

LEMMA PointOf ==
    /\ \A point, j : JobTask(point, j).at = point
    /\ \A point, j, w, n, c : ClaimTask(point, j, w, n, c).at = point
    /\ \A point, j, w, n, c : ClaimTask(point, j, w, n, c).caller = c
BY DEF JobTask, ClaimTask

ClaimPoints == {"claim.picked", "claim.reserved", "claim.returned"}

\* A task of a claim is left by an earlier one of the same claim.
PassesOn(from, t) ==
    t.at \in ClaimPoints =>
        /\ t.at # "claim.picked"
        /\ from \in {"claim.picked", "claim.reserved"}
        /\ t.caller = Task.caller

\* Every step but a pick leaves the picks that are pending, or runs one.
LEMMA OutsidePick ==
    ASSUME TypeOK, [Next]_vars, \A c \in ClaimCallers, w \in Claimants : ~ClaimPick(c, w)
    PROVE  \/ microtasks' = microtasks
           \/ \E from : Pops(from)
           \/ \E from, t : Pushes(from, t) /\ PassesOn(from, t)
<1> DEFINE Moves == \/ microtasks' = microtasks
                    \/ \E from : Pops(from)
                    \/ \E from, t : Pushes(from, t) /\ PassesOn(from, t)
<1>1. ASSUME NEW s \in Scopes, NEW f \in Fingerprints, Submit(s, f) PROVE Moves
  <2> DEFINE t == [at |-> "submit.lookedUp", scope |-> s, fingerprint |-> f, hit |-> idem[s]]
  <2>1. PassesOn("call", t)
      BY DEF PassesOn, ClaimPoints
  <2>2. Pushes("call", t)
      BY <1>1, SubmitMoves
  <2> HIDE DEF t
  <2>3. QED
      BY <2>1, <2>2
<1>2. ASSUME SubmitReply \/ SubmitReserve PROVE Moves
    BY <1>2, SubmitMoves
<1>3. ASSUME SubmitInsert \/ SubmitIndex PROVE Moves
  <2>1. ASSUME SubmitInsert
        PROVE  \E t : Pushes("submit.lookedUp", t) /\ PassesOn("submit.lookedUp", t)
    <3>1. PICK j \in JobIds :
            Pushes("submit.lookedUp", [at |-> "submit.inserted", scope |-> Task.scope,
                                       fingerprint |-> Task.fingerprint, job |-> j])
        BY <2>1, SubmitMoves
    <3> DEFINE t == [at |-> "submit.inserted", scope |-> Task.scope,
                     fingerprint |-> Task.fingerprint, job |-> j]
    <3>2. PassesOn("submit.lookedUp", t)
        BY DEF PassesOn, ClaimPoints
    <3> HIDE DEF t
    <3>3. QED
        BY <3>1, <3>2 DEF t
  <2>2. ASSUME SubmitIndex
        PROVE  \E t : Pushes("submit.inserted", t) /\ PassesOn("submit.inserted", t)
      BY <2>2, SubmitMoves, PointOf DEF PassesOn, ClaimPoints
  <2>3. QED
      BY <1>3, <2>1, <2>2
<1>4. ASSUME ClaimReserve \/ ClaimLost \/ ClaimReturn PROVE Moves
  <2>1. ASSUME ClaimReserve
        PROVE  \E t : Pushes("claim.picked", t) /\ PassesOn("claim.picked", t)
      BY <2>1, ClaimMoves, PointOf DEF PassesOn, ClaimPoints
  <2>2. ASSUME ClaimReturn
        PROVE  \/ Pops("claim.reserved")
               \/ \E t : Pushes("claim.reserved", t) /\ PassesOn("claim.reserved", t)
      BY <2>2, ClaimMoves, PointOf DEF PassesOn, ClaimPoints
  <2>3. ClaimLost => Pops("claim.picked")
      BY ClaimMoves
  <2>4. QED
      BY <1>4, <2>1, <2>2, <2>3
<1>5. ASSUME CrashBeforeProvider \/ CrashAfterProvider \/ WorkFinish PROVE Moves
    BY <1>5, WorkMoves DEF JobTask, PassesOn, ClaimPoints
<1>6. ASSUME NEW j \in JobIds, NEW w \in Workers, CompleteClaim(j, w) PROVE Moves
    BY <1>6, WorkMoves, PointOf DEF PassesOn, ClaimPoints
<1>7. ASSUME FailDeadLetter \/ FailTerminal \/ FailReschedule PROVE Moves
  <2>1. \E t : Pushes("claim.returned", t) /\ PassesOn("claim.returned", t)
      BY <1>7, WorkMoves, PointOf DEF PassesOn, ClaimPoints
  <2>2. QED
      BY <2>1
<1>8. ASSUME \/ CommitSuccess \/ ReleaseFailed \/ NoteRetry \/ ReleaseCancelled
             \/ NoteRecovered \/ NoteReaped \/ ReleaseRetryWait
             \/ \E j \in JobIds, w \in Workers, now \in 0..MaxTime : Heartbeat(j, w, now)
      PROVE  Moves
    BY <1>8, OtherMoves
<1>9. ASSUME NEW now \in 0..MaxTime, ReapExpiredLeases(now) PROVE Moves
  <2> DEFINE reaped == {j \in JobIds : Expired(j, now)}
             t == [at |-> "reap.stored", jobs |-> reaped]
  <2>1. PassesOn("call", t)
      BY DEF PassesOn, ClaimPoints
  <2>2. microtasks' = microtasks \/ Pushes("call", t)
      BY <1>9, OtherMoves
  <2> HIDE DEF t
  <2>3. QED
      BY <2>1, <2>2
<1>10. ASSUME NEW j \in JobIds, RequestCancel(j) \/ ManualRecover(j) PROVE Moves
    BY <1>10, OtherMoves, PointOf DEF PassesOn, ClaimPoints
<1>11. CASE UNCHANGED vars
    BY <1>11 DEF vars
<1>12. QED
    BY <1>1, <1>2, <1>3, <1>4, <1>5, <1>6, <1>7, <1>8, <1>9, <1>10, <1>11
    DEF Next, RunTask, Call

\* The job that a claim picks is the oldest of its workspace that has not stopped.
LEMMA PickedEldest ==
    ASSUME TypeOK, OrderInv, NEW j \in Claimable, \A k \in Claimable : j <= k
    PROVE  jobs[j].status # "absent" /\ Eldest(jobs, j)
<1>1. j \in JobIds /\ jobs[j].status = "queued" /\ jobs[j].workspaceId \notin Blocked
    BY DEF Claimable
<1>2. ASSUME NEW k \in JobIds, k < j, jobs[k].workspaceId = jobs[j].workspaceId
      PROVE  Stopped(jobs[k])
  <2>1. jobs[k].status # "absent"
      BY <1>1, <1>2 DEF OrderInv
  <2>2. jobs[k].status # "running"
      BY <1>1, <1>2 DEF Blocked, Running
  <2>3. jobs[k].status # "queued"
    <3>1. ASSUME jobs[k].status = "queued" PROVE k \in Claimable
        BY <1>1, <1>2, <3>1 DEF Claimable, Due, OrderInv
    <3>2. ~(j <= k)
        BY <1>1, <1>2, JobIdsAssumption
    <3>3. QED
        BY <3>1, <3>2
  <2>4. QED
      BY <2>1, <2>2, <2>3 DEF TypeOK, JobRows, Statuses, Stopped
<1>3. QED
    BY <1>1, <1>2 DEF Eldest

LEMMA OrderStep ==
    ASSUME TypeOK, HeldWhileRunning, OrderInv, [Next]_vars, ~ReleaseRetryWait,
           \A j \in JobIds : ~ManualRecover(j)
    PROVE  OrderInv'
<1>1. SteadyStep
    BY SteadyStepLemma
<1>2. \A j \in JobIds : jobs[j].status # "absent" =>
        jobs'[j].status # "absent" /\ jobs'[j].workspaceId = jobs[j].workspaceId
    BY <1>1, RowsStay DEF StoreStep
<1>3. ASSUME NEW j \in JobIds, jobs[j].status # "absent", Eldest(jobs, j)
      PROVE  Eldest(jobs', j)
  <2>1. ASSUME NEW k \in JobIds, k < j, jobs'[k].workspaceId = jobs'[j].workspaceId
        PROVE  Stopped(jobs'[k])
    <3>1. jobs[k].status # "absent"
        BY <1>3, <2>1 DEF OrderInv
    <3>2. jobs[k].workspaceId = jobs[j].workspaceId
        BY <1>2, <1>3, <2>1, <3>1
    <3>3. QED
        BY <1>1, <1>3, <2>1, <3>2, SteadyRow DEF Eldest
  <2>2. QED
      BY <2>1 DEF Eldest
<1>4. ASSUME NEW j \in JobIds, jobs'[j].status \in {"queued", "running"}
      PROVE  jobs'[j].nextAttemptAt = None
    BY <1>1, <1>4, SteadyRow DEF OrderInv
<1>5. ASSUME NEW j \in JobIds, NEW k \in JobIds, jobs'[j].status = "absent", j < k
      PROVE  jobs'[k].status = "absent"
  <2>1. jobs[j].status = "absent"
      BY <1>2, <1>5
  <2>2. jobs[k].status = "absent"
      BY <1>5, <2>1 DEF OrderInv
  <2>3. ~(k <= j)
      BY <1>5, JobIdsAssumption
  <2>4. QED
      BY <1>1, <2>1, <2>2, <2>3, SteadyRow DEF Vacant
<1>6. ASSUME NEW j \in JobIds, jobs'[j].status = "running" PROVE Eldest(jobs', j)
  <2>1. CASE jobs[j].status = "running"
      BY <1>3, <2>1 DEF OrderInv, Running
  <2>2. CASE jobs[j].status # "running"
    <3>1. Runs("claim.picked") /\ Task.job = j
        BY <1>1, <1>6, <2>2, SteadyRow
    <3>2. 1 \in DOMAIN microtasks /\ microtasks[1] = Task /\ Task.at = "claim.picked"
        BY <3>1 DEF TypeOK, Runs, Task
    <3>3. jobs[j].status # "absent" /\ Eldest(jobs, j)
        BY <3>1, <3>2 DEF OrderInv, PicksEldest
    <3>4. QED
        BY <1>3, <3>3
  <2>3. QED
      BY <2>1, <2>2
<1>7. PicksEldest(jobs', microtasks)
  <2>1. ASSUME NEW n \in DOMAIN microtasks, microtasks[n].at = "claim.picked"
        PROVE  jobs'[microtasks[n].job].status # "absent" /\ Eldest(jobs', microtasks[n].job)
    <3>1. microtasks[n].job \in JobIds
        BY <2>1, SMTT(30) DEF TypeOK, Tasks
    <3>2. jobs[microtasks[n].job].status # "absent" /\ Eldest(jobs, microtasks[n].job)
        BY <2>1 DEF OrderInv, PicksEldest
    <3>3. QED
        BY <1>2, <1>3, <3>1, <3>2
  <2>2. QED
      BY <2>1 DEF PicksEldest
<1>8. ASSUME microtasks # <<>>
      PROVE  Tail(microtasks) \in Seq(Tasks) /\ PicksEldest(jobs', Tail(microtasks))
  <2>1. \A n \in DOMAIN Tail(microtasks) :
          n + 1 \in DOMAIN microtasks /\ Tail(microtasks)[n] = microtasks[n + 1]
      BY <1>8 DEF TypeOK
  <2>2. QED
      BY <1>7, <1>8, <2>1, HeadTask DEF PicksEldest
<1>9. ASSUME NEW q \in Seq(Tasks), PicksEldest(jobs', q), NEW t \in Tasks,
             t.at = "claim.picked" => jobs'[t.job].status # "absent" /\ Eldest(jobs', t.job)
      PROVE  PicksEldest(jobs', Append(q, t))
    BY <1>9 DEF PicksEldest
<1>10. PicksEldest(jobs', microtasks')
  <2>1. CASE \E c \in ClaimCallers, w \in Claimants : ClaimPick(c, w)
    <3>1. PICK c \in ClaimCallers, w \in Claimants : ClaimPick(c, w)
        BY <2>1
    <3>2. PICK j \in Claimable :
            /\ \A k \in Claimable : j <= k
            /\ Pushes("call", ClaimTask("claim.picked", j, w, 0, c))
        BY <3>1, ClaimMoves
    <3> DEFINE t == ClaimTask("claim.picked", j, w, 0, c)
    <3>3. t.job = j /\ j \in JobIds
        BY DEF ClaimTask, Claimable
    <3>4. t \in Tasks /\ microtasks' = Append(microtasks, t)
        BY <3>2 DEF Pushes
    <3> HIDE DEF t
    <3>5. jobs[j].status # "absent" /\ Eldest(jobs, j)
        BY <3>2, PickedEldest
    <3>6. jobs'[j].status # "absent" /\ Eldest(jobs', j)
        BY <1>2, <1>3, <3>3, <3>5
    <3>7. QED
        BY <1>7, <1>9, <3>3, <3>4, <3>6 DEF TypeOK
  <2>2. CASE ~\E c \in ClaimCallers, w \in Claimants : ClaimPick(c, w)
    <3>1. CASE microtasks' = microtasks
        BY <1>7, <3>1
    <3>2. ASSUME NEW from, Pops(from) PROVE PicksEldest(jobs', microtasks')
        BY <1>8, <3>2 DEF Pops, Runs
    <3>3. ASSUME NEW from, NEW t, Pushes(from, t), PassesOn(from, t)
          PROVE  PicksEldest(jobs', microtasks')
      <4> USE DEF PassesOn, ClaimPoints
      <4>1. CASE microtasks' = Append(microtasks, t)
          BY <1>7, <1>9, <3>3, <4>1 DEF Pushes, TypeOK
      <4>2. CASE microtasks # <<>> /\ microtasks' = Append(Tail(microtasks), t)
          BY <1>8, <1>9, <3>3, <4>2 DEF Pushes
      <4>3. QED
          BY <3>3, <4>1, <4>2 DEF Pushes, Runs
    <3>4. QED
        BY <2>2, <3>1, <3>2, <3>3, OutsidePick
  <2>3. QED
      BY <2>1, <2>2
<1>11. QED
    BY <1>4, <1>5, <1>6, <1>10 DEF OrderInv, Running

\* In an environment that never releases retries early and never recovers
\* failed jobs, at most one job of a workspace runs, although claim picks a
\* job in one continuation and reserves it in a later one: the jobs of a
\* workspace start in the order of their ids, each after the older ones stopped.
THEOREM OneAtATime ==
    ASSUME "releaseRetryWait" \notin Calls, "manualRecover" \notin Calls
    PROVE  Spec => []OneRunningPerWorkspace
<1>1. Init => OrderInv
    BY DEF Init, OrderInv, NoJob, Running, PicksEldest
<1>2. ~ReleaseRetryWait /\ \A j \in JobIds : ~ManualRecover(j)
    BY DEF ReleaseRetryWait, ManualRecover, MayCall
<1>3. TypeOK /\ HeldWhileRunning /\ OrderInv /\ [Next]_vars => OrderInv'
    BY <1>2, OrderStep
<1>4. OrderInv => OneRunningPerWorkspace
  <2> SUFFICES ASSUME OrderInv, NEW j \in Running, NEW k \in Running,
                      jobs[j].workspaceId = jobs[k].workspaceId
               PROVE  j = k
      BY DEF OneRunningPerWorkspace
  <2>1. j \in Nat /\ k \in Nat /\ j \in JobIds /\ k \in JobIds
      BY JobIdsAssumption DEF Running
  <2>2. ~Stopped(jobs[j]) /\ ~Stopped(jobs[k])
      BY DEF Running, Stopped
  <2>3. ~(j < k) /\ ~(k < j)
      BY <2>1, <2>2 DEF OrderInv, Eldest
  <2>4. QED
      BY <2>1, <2>3
<1>5. QED
    BY <1>1, <1>3, <1>4, TypeCorrect, Ownership, PTL DEF Spec

-----------------------------------------------------------------------------
(* Who is claiming *)

\* The callers that go on to fail the job they claimed.
Failers == {"failTerminal"} \cup Codes

AllWilling(q) == \A n \in DOMAIN q : q[n].at \in ClaimPoints => q[n].caller \notin Failers

\* No pending continuation of a claim will fail its job.
NoFailers == AllWilling(microtasks)

\* Where the failing methods are not called, no claim is made for them.
LEMMA NoFailersStep ==
    ASSUME "failNextJobRetryable" \notin Calls, "failNextJobTerminal" \notin Calls,
           TypeOK, NoFailers, [Next]_vars
    PROVE  NoFailers'
<1>1. ASSUME NEW q \in Seq(Tasks), AllWilling(q), NEW t \in Tasks,
             t.at \in ClaimPoints => t.caller \notin Failers
      PROVE  AllWilling(Append(q, t))
    BY <1>1 DEF AllWilling
<1>2. ASSUME microtasks # <<>>
      PROVE  Tail(microtasks) \in Seq(Tasks) /\ AllWilling(Tail(microtasks))
  <2>1. \A n \in DOMAIN Tail(microtasks) :
          n + 1 \in DOMAIN microtasks /\ Tail(microtasks)[n] = microtasks[n + 1]
      BY <1>2 DEF TypeOK
  <2>2. QED
      BY <1>2, <2>1, HeadTask DEF NoFailers, AllWilling
<1>3. ASSUME NEW c \in ClaimCallers, NEW w \in Claimants, ClaimPick(c, w) PROVE NoFailers'
  <2>1. PICK j \in Claimable : Pushes("call", ClaimTask("claim.picked", j, w, 0, c))
      BY <1>3, ClaimMoves
  <2> DEFINE t == ClaimTask("claim.picked", j, w, 0, c)
  <2>2. t.caller = c
      BY PointOf
  <2>3. t \in Tasks /\ microtasks' = Append(microtasks, t)
      BY <2>1 DEF Pushes
  <2> HIDE DEF t
  <2>4. c \notin Failers
      BY <1>3, CodesAssumption DEF ClaimPick, MayCall, MethodOf, Failers, CrashPoints
  <2>5. AllWilling(Append(microtasks, t))
      BY <1>1, <2>2, <2>3, <2>4 DEF TypeOK, NoFailers
  <2>6. QED
      BY <2>3, <2>5 DEF NoFailers
<1>4. ASSUME \A c \in ClaimCallers, w \in Claimants : ~ClaimPick(c, w) PROVE NoFailers'
  <2>1. CASE microtasks' = microtasks
      BY <2>1 DEF NoFailers
  <2>2. ASSUME NEW from, Pops(from) PROVE NoFailers'
      BY <1>2, <2>2 DEF NoFailers, Pops, Runs
  <2>3. ASSUME NEW from, NEW t, Pushes(from, t), PassesOn(from, t) PROVE NoFailers'
    <3>1. t.at \in ClaimPoints => t.caller \notin Failers
      <4>1. SUFFICES ASSUME t.at \in ClaimPoints PROVE t.caller \notin Failers
          OBVIOUS
      <4>2. from \in {"claim.picked", "claim.reserved"} /\ t.caller = Task.caller
          BY <2>3, <4>1 DEF PassesOn
      <4>3. 1 \in DOMAIN microtasks /\ microtasks[1] = Task /\ Task.at = from
          BY <2>3, <4>2 DEF TypeOK, Pushes, Runs, Task
      <4>4. QED
          BY <4>2, <4>3 DEF NoFailers, AllWilling, ClaimPoints
    <3>2. CASE microtasks' = Append(microtasks, t)
      <4>1. AllWilling(Append(microtasks, t))
          BY <1>1, <2>3, <3>1 DEF Pushes, TypeOK, NoFailers
      <4>2. QED
          BY <3>2, <4>1 DEF NoFailers
    <3>3. CASE microtasks # <<>> /\ microtasks' = Append(Tail(microtasks), t)
      <4>1. AllWilling(Append(Tail(microtasks), t))
          BY <1>1, <1>2, <2>3, <3>1, <3>3 DEF Pushes
      <4>2. QED
          BY <3>3, <4>1 DEF NoFailers
    <3>4. QED
        BY <2>3, <3>2, <3>3 DEF Pushes, Runs
  <2>4. QED
      BY <1>4, <2>1, <2>2, <2>3, OutsidePick
<1>5. QED
    BY <1>3, <1>4

-----------------------------------------------------------------------------
(* The trail ends in the status *)

\* A continuation that tells the trail about job j, and what it says.
Writes(t, j) ==
    \/ /\ t.at \in {"submit.indexed", "claim.reserved", "success.stored", "failure.stored",
                    "retry.stored", "cancel.stored", "recover.stored"}
       /\ t.job = j
    \/ t.at = "reap.stored" /\ j \in t.jobs

Said(t) ==
    CASE t.at = "claim.reserved" -> "running"
      [] t.at = "success.stored" -> "succeeded"
      [] t.at = "failure.stored" -> "failed"
      [] t.at = "retry.stored"   -> "retry_wait"
      [] t.at = "cancel.stored"  -> "cancelled"
      [] OTHER                   -> "queued"

Silent(q, j) == \A n \in DOMAIN q : ~Writes(q[n], j)

\* The last thing the trail hears about job j is v.
Tells(q, told, j, v) ==
    \/ Silent(q, j) /\ told[j] = v
    \/ \E n \in DOMAIN q : /\ Writes(q[n], j) /\ Said(q[n]) = v
                           /\ \A m \in DOMAIN q : n < m => ~Writes(q[m], j)

\* The continuation of job j's insertion stands at n: it will leave the first
\* of the job's trail entries, and a claim of the job comes after it.
Inserting(q, ids, j, n) ==
    /\ j \notin ids
    /\ Silent(q, j)
    /\ \A m \in DOMAIN q : Matches(q[m], "submit.inserted", j) => m = n
    /\ \A m \in DOMAIN q : Matches(q[m], "claim.picked", j) => n < m

\* A job of status s: nothing is pending about it while it has no row, and
\* once it is inserted the last pending entry of its trail is its status.
Trailed(s, ids, q, told, j) ==
    /\ s # "retry_wait"
    /\ s = "absent" => /\ j \notin ids /\ Silent(q, j)
                       /\ Never(q, "submit.inserted", j) /\ Never(q, "claim.picked", j)
    /\ \A n \in DOMAIN q : Matches(q[n], "submit.inserted", j) =>
         s = "queued" /\ Inserting(q, ids, j, n)
    /\ s # "absent" /\ Never(q, "submit.inserted", j) => Tells(q, told, j, s)

TrailInv == \A j \in JobIds : Trailed(jobs[j].status, reservationIds, microtasks, trail, j)

LEMMA PointsOfTasks ==
    ASSUME NEW t \in Tasks, NEW j
    PROVE  /\ Writes(t, j) => ~Matches(t, "submit.inserted", j) /\ ~Matches(t, "claim.picked", j)
           /\ Matches(t, "submit.inserted", j) => ~Matches(t, "claim.picked", j)
BY DEF Writes, Matches

\* A task that says nothing of job j is queued.
LEMMA PushOther ==
    ASSUME NEW s, NEW ids, NEW told, NEW j, NEW q \in Seq(Tasks), NEW t \in Tasks,
           Trailed(s, ids, q, told, j), ~Writes(t, j), ~Matches(t, "submit.inserted", j),
           Matches(t, "claim.picked", j) => s # "absent"
    PROVE  Trailed(s, ids, Append(q, t), told, j)
<1> DEFINE r == Append(q, t)
<1>1. /\ Len(q) \in Nat /\ DOMAIN q = 1 .. Len(q) /\ DOMAIN r = 1 .. Len(q) + 1
      /\ r[Len(q) + 1] = t /\ \A i \in 1 .. Len(q) : r[i] = q[i]
    OBVIOUS
<1> HIDE DEF r
<1>2. \A n \in DOMAIN r : n = Len(q) + 1 \/ (n \in DOMAIN q /\ r[n] = q[n])
    BY <1>1
<1>3. \A n \in DOMAIN q : n \in DOMAIN r /\ r[n] = q[n] /\ n < Len(q) + 1
    BY <1>1
<1>4. Silent(q, j) => Silent(r, j)
    BY <1>1, <1>2 DEF Silent
<1>5. s = "absent" => /\ j \notin ids /\ Silent(r, j)
                      /\ Never(r, "submit.inserted", j) /\ Never(r, "claim.picked", j)
    BY <1>1, <1>2, <1>4 DEF Trailed, Never
<1>6. ASSUME NEW n \in DOMAIN r, Matches(r[n], "submit.inserted", j)
      PROVE  s = "queued" /\ Inserting(r, ids, j, n)
  <2>1. n \in DOMAIN q /\ Matches(q[n], "submit.inserted", j)
      BY <1>1, <1>2, <1>6
  <2>2. s = "queued" /\ Inserting(q, ids, j, n)
      BY <2>1 DEF Trailed
  <2>3. \A m \in DOMAIN r : Matches(r[m], "submit.inserted", j) => m = n
      BY <1>1, <1>2, <2>2 DEF Inserting
  <2>4. \A m \in DOMAIN r : Matches(r[m], "claim.picked", j) => n < m
      BY <1>1, <1>2, <1>3, <2>1, <2>2 DEF Inserting
  <2>5. QED
      BY <1>4, <2>2, <2>3, <2>4 DEF Inserting
<1>7. ASSUME s # "absent", Never(r, "submit.inserted", j) PROVE Tells(r, told, j, s)
  <2>1. Never(q, "submit.inserted", j)
      BY <1>3, <1>7 DEF Never
  <2>2. CASE Silent(q, j) /\ told[j] = s
      BY <1>4, <2>2 DEF Tells
  <2>3. ASSUME NEW n \in DOMAIN q, Writes(q[n], j), Said(q[n]) = s,
               \A m \in DOMAIN q : n < m => ~Writes(q[m], j)
        PROVE  Tells(r, told, j, s)
    <3>1. \A m \in DOMAIN r : n < m => ~Writes(r[m], j)
        BY <1>1, <1>2, <2>3
    <3>2. QED
        BY <1>3, <2>3, <3>1 DEF Tells
  <2>4. QED
      BY <1>7, <2>1, <2>2, <2>3 DEF Trailed, Tells
<1>8. QED
    BY <1>5, <1>6, <1>7 DEF Trailed, r

\* The task at the head, not the job's insertion, runs and says what it says.
LEMMA PopOther ==
    ASSUME NEW s, NEW ids, NEW later, NEW told, NEW heard, NEW j, NEW q \in Seq(Tasks),
           q # <<>>, Trailed(s, ids, q, told, j), ~Matches(Head(q), "submit.inserted", j),
           j \in later => j \in ids \/ Matches(Head(q), "submit.indexed", j),
           heard[j] = IF Writes(Head(q), j) THEN Said(Head(q)) ELSE told[j]
    PROVE  Trailed(s, later, Tail(q), heard, j)
<1> DEFINE r == Tail(q)
<1>1. /\ Len(q) \in Nat /\ DOMAIN q = 1 .. Len(q) /\ DOMAIN r = 1 .. Len(q) - 1
      /\ Len(q) > 0 /\ q[1] = Head(q) /\ \A i \in 1 .. Len(q) - 1 : r[i] = q[i + 1]
    OBVIOUS
<1> HIDE DEF r
<1>2. \A i \in DOMAIN r : i + 1 \in DOMAIN q /\ r[i] = q[i + 1]
    BY <1>1
<1>3. \A i \in DOMAIN q : i # 1 => i - 1 \in DOMAIN r /\ r[i - 1] = q[i]
    BY <1>1
<1>4. 1 \in DOMAIN q /\ q[1] = Head(q)
    BY <1>1
<1>5. Silent(q, j) => /\ Silent(r, j) /\ heard[j] = told[j]
                      /\ ~Matches(Head(q), "submit.indexed", j)
    BY <1>2, <1>4 DEF Silent, Writes, Matches
<1>6. s = "absent" => /\ j \notin later /\ Silent(r, j)
                      /\ Never(r, "submit.inserted", j) /\ Never(r, "claim.picked", j)
    BY <1>2, <1>5 DEF Trailed, Never
<1>7. ASSUME NEW n \in DOMAIN r, Matches(r[n], "submit.inserted", j)
      PROVE  s = "queued" /\ Inserting(r, later, j, n)
  <2>1. n + 1 \in DOMAIN q /\ Matches(q[n + 1], "submit.inserted", j) /\ n \in Int
      BY <1>1, <1>2, <1>7
  <2>2. s = "queued" /\ Inserting(q, ids, j, n + 1)
      BY <2>1 DEF Trailed
  <2>3. j \notin later /\ Silent(r, j)
      BY <1>5, <2>2 DEF Inserting
  <2>4. ASSUME NEW m \in DOMAIN r
        PROVE  /\ Matches(r[m], "submit.inserted", j) => m = n
               /\ Matches(r[m], "claim.picked", j) => n < m
    <3>1. m + 1 \in DOMAIN q /\ r[m] = q[m + 1] /\ m \in Int
        BY <1>1, <1>2
    <3>2. Matches(r[m], "submit.inserted", j) => m + 1 = n + 1
        BY <2>2, <3>1 DEF Inserting
    <3>3. Matches(r[m], "claim.picked", j) => n + 1 < m + 1
        BY <2>2, <3>1 DEF Inserting
    <3>4. QED
        BY <2>1, <3>1, <3>2, <3>3
  <2>5. QED
      BY <2>2, <2>3, <2>4 DEF Inserting
<1>8. ASSUME s # "absent", Never(r, "submit.inserted", j) PROVE Tells(r, heard, j, s)
  <2>1. Never(q, "submit.inserted", j)
      BY <1>3, <1>4, <1>8 DEF Never
  <2>2. CASE Silent(q, j) /\ told[j] = s
      BY <1>5, <2>2 DEF Tells
  <2>3. ASSUME NEW n \in DOMAIN q, Writes(q[n], j), Said(q[n]) = s,
               \A m \in DOMAIN q : n < m => ~Writes(q[m], j)
        PROVE  Tells(r, heard, j, s)
    <3>1. \A m \in DOMAIN r : n < m + 1 => ~Writes(r[m], j)
        BY <1>2, <2>3
    <3>2. CASE n = 1
      <4>1. heard[j] = s
          BY <1>4, <2>3, <3>2
      <4>2. \A m \in DOMAIN r : 1 < m + 1
          BY <1>1
      <4>3. Silent(r, j)
          BY <3>1, <3>2, <4>2 DEF Silent
      <4>4. QED
          BY <4>1, <4>3 DEF Tells
    <3>3. CASE n # 1
      <4>1. n - 1 \in DOMAIN r /\ r[n - 1] = q[n]
          BY <1>3, <3>3
      <4>2. \A m \in DOMAIN r : n - 1 < m => n < m + 1
          BY <1>1
      <4>3. QED
          BY <2>3, <3>1, <4>1, <4>2 DEF Tells
    <3>4. QED
        BY <3>2, <3>3
  <2>4. QED
      BY <1>8, <2>1, <2>2, <2>3 DEF Trailed, Tells
<1>9. QED
    BY <1>6, <1>7, <1>8 DEF Trailed, r

\* A step changes the job's status and queues the task that says so.
LEMMA PushWrite ==
    ASSUME NEW s, NEW v, NEW ids, NEW told, NEW j, NEW q \in Seq(Tasks), NEW t \in Tasks,
           Never(q, "submit.inserted", j), Writes(t, j), Said(t) = v,
           v \notin {"absent", "retry_wait"}
    PROVE  Trailed(v, ids, Append(q, t), told, j)
<1> DEFINE r == Append(q, t)
<1>1. /\ Len(q) \in Nat /\ DOMAIN q = 1 .. Len(q) /\ DOMAIN r = 1 .. Len(q) + 1
      /\ r[Len(q) + 1] = t /\ \A i \in 1 .. Len(q) : r[i] = q[i]
    OBVIOUS
<1> HIDE DEF r
<1>2. \A n \in DOMAIN r : ~Matches(r[n], "submit.inserted", j)
    BY <1>1, PointsOfTasks DEF Never
<1>3. Tells(r, told, j, v)
  <2>1. Len(q) + 1 \in DOMAIN r /\ \A m \in DOMAIN r : ~(Len(q) + 1 < m)
      BY <1>1
  <2>2. QED
      BY <1>1, <2>1 DEF Tells
<1>4. QED
    BY <1>2, <1>3 DEF Trailed, r

\* The row is inserted, and nothing was pending about the job.
LEMMA PushInsertion ==
    ASSUME NEW ids, NEW told, NEW j, NEW q \in Seq(Tasks), NEW t \in Tasks,
           Trailed("absent", ids, q, told, j), Matches(t, "submit.inserted", j)
    PROVE  Trailed("queued", ids, Append(q, t), told, j)
<1> DEFINE r == Append(q, t)
<1>1. /\ Len(q) \in Nat /\ DOMAIN q = 1 .. Len(q) /\ DOMAIN r = 1 .. Len(q) + 1
      /\ r[Len(q) + 1] = t /\ \A i \in 1 .. Len(q) : r[i] = q[i]
    OBVIOUS
<1> HIDE DEF r
<1>2. /\ j \notin ids /\ Silent(q, j)
      /\ Never(q, "submit.inserted", j) /\ Never(q, "claim.picked", j)
    BY DEF Trailed
<1>3. ~Writes(t, j) /\ ~Matches(t, "claim.picked", j)
    BY PointsOfTasks
<1>4. Silent(r, j) /\ Never(r, "claim.picked", j)
    BY <1>1, <1>2, <1>3 DEF Silent, Never
<1>5. \A m \in DOMAIN r : Matches(r[m], "submit.inserted", j) => m = Len(q) + 1
    BY <1>1, <1>2 DEF Never
<1>6. Inserting(r, ids, j, Len(q) + 1)
    BY <1>2, <1>4, <1>5 DEF Inserting, Never
<1>7. ~Never(r, "submit.inserted", j)
    BY <1>1 DEF Never
<1>8. QED
    BY <1>5, <1>6, <1>7 DEF Trailed, r

\* The insertion goes on: the record is written, the trail's entry is queued.
LEMMA InsertionGoesOn ==
    ASSUME NEW s, NEW ids, NEW told, NEW j, NEW q \in Seq(Tasks), q # <<>>, NEW t \in Tasks,
           Trailed(s, ids, q, told, j), Matches(Head(q), "submit.inserted", j),
           Matches(t, "submit.indexed", j)
    PROVE  Trailed(s, ids, Append(Tail(q), t), told, j)
<1>1. /\ Len(q) \in Nat /\ DOMAIN q = 1 .. Len(q) /\ DOMAIN Tail(q) = 1 .. Len(q) - 1
      /\ Len(q) > 0 /\ q[1] = Head(q) /\ \A i \in 1 .. Len(q) - 1 : Tail(q)[i] = q[i + 1]
      /\ Tail(q) \in Seq(Tasks)
    OBVIOUS
<1>2. s = "queued" /\ Inserting(q, ids, j, 1)
    BY <1>1 DEF Trailed
<1>3. Never(Tail(q), "submit.inserted", j)
  <2>1. \A m \in DOMAIN q : Matches(q[m], "submit.inserted", j) => m = 1
      BY <1>2 DEF Inserting
  <2>2. \A i \in DOMAIN Tail(q) : i + 1 \in DOMAIN q /\ Tail(q)[i] = q[i + 1] /\ i + 1 # 1
      BY <1>1
  <2>3. QED
      BY <2>1, <2>2 DEF Never
<1>4. Writes(t, j) /\ Said(t) = "queued"
    BY DEF Matches, Writes, Said
<1>5. QED
    BY <1>1, <1>2, <1>3, <1>4, PushWrite

\* The queue that a step leaves before it queues a task: a call leaves the
\* queue alone; the event loop takes the head, which says what it has to say.
Left(q) ==
    \/ q = microtasks /\ UNCHANGED <<trail, reservationIds>>
    \/ /\ q = Tail(microtasks) /\ microtasks # <<>> /\ Task.at # "submit.inserted"
       /\ \A k \in JobIds :
            /\ trail'[k] = IF Writes(Task, k) THEN Said(Task) ELSE trail[k]
            /\ k \in reservationIds' =>
                 k \in reservationIds \/ Matches(Task, "submit.indexed", k)

LEMMA LeftTrailed ==
    ASSUME TypeOK, TrailInv, NEW q, Left(q)
    PROVE  /\ q \in Seq(Tasks)
           /\ \A k \in JobIds : Trailed(jobs[k].status, reservationIds', q, trail', k)
<1>1. microtasks \in Seq(Tasks) /\ (microtasks # <<>> => Tail(microtasks) \in Seq(Tasks))
    BY QueueType DEF TypeOK
<1>2. CASE q = microtasks /\ UNCHANGED <<trail, reservationIds>>
    BY <1>1, <1>2 DEF TrailInv
<1>3. CASE q # microtasks \/ ~UNCHANGED <<trail, reservationIds>>
  <2>1. /\ q = Tail(microtasks) /\ microtasks # <<>> /\ Task.at # "submit.inserted"
        /\ \A k \in JobIds :
             /\ trail'[k] = IF Writes(Task, k) THEN Said(Task) ELSE trail[k]
             /\ k \in reservationIds' =>
                  k \in reservationIds \/ Matches(Task, "submit.indexed", k)
      BY <1>3 DEF Left
  <2>2. ASSUME NEW k \in JobIds
        PROVE  Trailed(jobs[k].status, reservationIds', Tail(microtasks), trail', k)
    <3>1. Trailed(jobs[k].status, reservationIds, microtasks, trail, k)
        BY DEF TrailInv
    <3>2. ~Matches(Head(microtasks), "submit.inserted", k)
        BY <2>1 DEF Matches, Task
    <3>3. k \in reservationIds' =>
            k \in reservationIds \/ Matches(Head(microtasks), "submit.indexed", k)
        BY <2>1 DEF Task
    <3>4. trail'[k] = IF Writes(Head(microtasks), k) THEN Said(Head(microtasks)) ELSE trail[k]
        BY <2>1 DEF Task
    <3>5. QED
        BY <1>1, <2>1, <3>1, <3>2, <3>3, <3>4, PopOther
  <2>3. QED
      BY <1>1, <2>1, <2>2
<1>4. QED
    BY <1>2, <1>3

\* A step that changes no status and queues nothing.
LEMMA StillTrailed ==
    ASSUME TypeOK, TrailInv, Left(microtasks'),
           \A k \in JobIds : jobs'[k].status = jobs[k].status
    PROVE  TrailInv'
BY LeftTrailed DEF TrailInv

\* A step that queues a task: it gives the jobs the task writes about the status
\* it will say, and leaves the status of the others alone.
LEMMA PushTrailed ==
    ASSUME TypeOK, TrailInv, NEW q, Left(q), NEW t \in Tasks, microtasks' = Append(q, t),
           t.at # "submit.inserted",
           \A k \in JobIds :
             /\ Writes(t, k) => /\ jobs'[k].status = Said(t)
                                /\ Never(microtasks, "submit.inserted", k)
             /\ ~Writes(t, k) => /\ jobs'[k].status = jobs[k].status
                                 /\ Matches(t, "claim.picked", k) => jobs[k].status # "absent",
           Said(t) # "retry_wait"
    PROVE  TrailInv'
<1>1. ASSUME NEW k \in JobIds
      PROVE  Trailed(jobs'[k].status, reservationIds', Append(q, t), trail', k)
  <2>1. q \in Seq(Tasks) /\ Trailed(jobs[k].status, reservationIds', q, trail', k)
      BY LeftTrailed
  <2>2. CASE Writes(t, k)
    <3>1. Never(q, "submit.inserted", k)
      <4>1. CASE q = microtasks
          BY <2>2, <4>1
      <4>2. CASE q = Tail(microtasks) /\ microtasks # <<>>
          BY <2>2, <4>2, RunTaskAtHead DEF TypeOK
      <4>3. QED
          BY <4>1, <4>2 DEF Left
    <3>2. Said(t) # "absent"
        BY DEF Said
    <3>3. Trailed(Said(t), reservationIds', Append(q, t), trail', k)
        BY <2>1, <2>2, <3>1, <3>2, PushWrite
    <3>4. QED
        BY <2>2, <3>3
  <2>3. CASE ~Writes(t, k)
    <3>1. ~Matches(t, "submit.inserted", k)
        BY DEF Matches
    <3>2. QED
        BY <2>1, <2>3, <3>1, PushOther
  <2>4. QED
      BY <2>2, <2>3
<1>2. QED
    BY <1>1 DEF TrailInv

\* Once a job left the queue, was reserved or is being claimed, its insertion
\* is over.
LEMMA InsertionIsOver ==
    ASSUME TypeOK, TrailInv, NEW k \in JobIds,
           \/ jobs[k].status # "queued"
           \/ k \in reservationIds
           \/ Runs("claim.picked") /\ Task.job = k
    PROVE  Never(microtasks, "submit.inserted", k)
<1>1. SUFFICES ASSUME NEW n \in DOMAIN microtasks, Matches(microtasks[n], "submit.inserted", k)
               PROVE  FALSE
    BY DEF Never
<1>2. jobs[k].status = "queued" /\ Inserting(microtasks, reservationIds, k, n)
    BY <1>1 DEF TrailInv, Trailed
<1>3. Runs("claim.picked") /\ Task.job = k
    BY <1>2 DEF Inserting
<1>4. 1 \in DOMAIN microtasks /\ Matches(microtasks[1], "claim.picked", k) /\ ~(n < 1)
    BY <1>3 DEF TypeOK, Runs, Task, Matches
<1>5. QED
    BY <1>2, <1>4 DEF Inserting

\* The points whose continuations say nothing to the trail.
LEMMA PlainLeft ==
    ASSUME NEW point \in {"submit.lookedUp", "claim.picked", "claim.returned"}, Runs(point),
           UNCHANGED <<trail, reservationIds>>
    PROVE  Left(Tail(microtasks))
BY DEF Left, Runs, Writes

\* The points whose continuations are the last part of a method.
LEMMA ReportLeft ==
    ASSUME TypeOK,
           NEW point \in {"submit.indexed", "success.stored", "failure.stored",
                          "retry.stored", "cancel.stored", "recover.stored"},
           NEW status, Report(point, status), Said(Task) = status,
           reservationIds' = reservationIds \/
             (point = "submit.indexed" /\ reservationIds' = reservationIds \cup {Task.job})
    PROVE  Left(microtasks') /\ UNCHANGED jobs
<1>1. /\ Runs(point) /\ microtasks' = Tail(microtasks) /\ UNCHANGED jobs
      /\ trail' = [trail EXCEPT ![Task.job] = status]
    BY DEF Report, Return, storeVars
<1>2. \A k \in JobIds : Writes(Task, k) <=> k = Task.job
    BY <1>1 DEF Runs, Writes
<1>3. \A k \in JobIds : trail'[k] = IF Writes(Task, k) THEN Said(Task) ELSE trail[k]
    BY <1>1, <1>2 DEF TypeOK
<1>4. \A k \in JobIds : k \in reservationIds' =>
        k \in reservationIds \/ Matches(Task, "submit.indexed", k)
    BY <1>1 DEF Runs, Matches
<1>5. QED
    BY <1>1, <1>3, <1>4 DEF Left, Runs

\* submit.
LEMMA SubmitTrailed ==
    ASSUME TypeOK, TrailInv, SubmitStep
    PROVE  TrailInv'
<1> USE DEF storeVars, facadeVars
<1>1. ASSUME NEW s \in Scopes, NEW f \in Fingerprints, Submit(s, f) PROVE TrailInv'
  <2> DEFINE t == [at |-> "submit.lookedUp", scope |-> s, fingerprint |-> f, hit |-> idem[s]]
  <2>1. Pushes("call", t) /\ Left(microtasks) /\ UNCHANGED jobs
      BY <1>1, SubmitMoves DEF Submit, Left
  <2>2. /\ t.at # "submit.inserted" /\ \A k \in JobIds : ~Writes(t, k)
        /\ \A k \in JobIds : ~Matches(t, "claim.picked", k)
      BY DEF Writes, Matches
  <2> HIDE DEF t
  <2>3. t \in Tasks /\ microtasks' = Append(microtasks, t)
      BY <2>1 DEF Pushes
  <2>4. Said(t) # "retry_wait"
      BY <2>2 DEF Said, t
  <2>5. QED
      BY <2>1, <2>2, <2>3, <2>4, PushTrailed
<1>2. CASE SubmitReply
  <2>1. Left(microtasks') /\ UNCHANGED jobs
      BY <1>2, PlainLeft DEF SubmitReply, Return
  <2>2. QED
      BY <2>1, StillTrailed
<1>3. CASE SubmitInsert
  <2>1. PICK j \in Vacant :
          /\ jobs' = [jobs EXCEPT ![j] = NewJob(Task.scope)]
          /\ AwaitNext([at |-> "submit.inserted", scope |-> Task.scope,
                        fingerprint |-> Task.fingerprint, job |-> j])
      BY <1>3 DEF SubmitInsert
  <2> DEFINE t == [at |-> "submit.inserted", scope |-> Task.scope,
                   fingerprint |-> Task.fingerprint, job |-> j]
             q == Tail(microtasks)
  <2>2. t.at = "submit.inserted" /\ t.job = j
      OBVIOUS
  <2>3. j \in JobIds /\ jobs[j].status = "absent" /\ t \in Tasks
      BY <1>3, LookedUpTask, TaskConstructors DEF SubmitInsert, Vacant
  <2>4. microtasks' = Append(q, t) /\ Left(q)
      BY <1>3, <2>1, PlainLeft DEF SubmitInsert, AwaitNext
  <2> HIDE DEF t, q
  <2>5. /\ jobs'[j].status = "queued"
        /\ \A k \in JobIds : k # j => jobs'[k] = jobs[k]
      BY <2>1, <2>3 DEF NewJob, NoJob, TypeOK
  <2>6. /\ q \in Seq(Tasks)
        /\ \A k \in JobIds : Trailed(jobs[k].status, reservationIds', q, trail', k)
      BY <2>4, LeftTrailed
  <2>7. Trailed("queued", reservationIds', Append(q, t), trail', j)
      BY <2>2, <2>3, <2>6, PushInsertion DEF Matches
  <2>8. ASSUME NEW k \in JobIds, k # j
        PROVE  Trailed(jobs[k].status, reservationIds', Append(q, t), trail', k)
    <3>1. ~Writes(t, k) /\ ~Matches(t, "submit.inserted", k) /\ ~Matches(t, "claim.picked", k)
        BY <2>2, <2>8 DEF Writes, Matches
    <3>2. QED
        BY <2>3, <2>6, <3>1, PushOther
  <2>9. QED
      BY <2>4, <2>5, <2>7, <2>8 DEF TrailInv
<1>4. CASE SubmitIndex
  <2> DEFINE t == JobTask("submit.indexed", Task.job)
             q == Tail(microtasks)
  <2>1. /\ Runs("submit.inserted") /\ microtasks' = Append(q, t)
        /\ UNCHANGED <<jobs, trail, reservationIds>>
      BY <1>4 DEF SubmitIndex, AwaitNext
  <2>2. /\ t.at = "submit.indexed" /\ t.job = Task.job /\ t \in Tasks /\ Task.job \in JobIds
      BY <2>1, InsertedTask, TaskConstructors DEF JobTask
  <2>3. microtasks \in Seq(Tasks) /\ microtasks # <<>> /\ q \in Seq(Tasks)
        /\ Head(microtasks).at = "submit.inserted" /\ Head(microtasks).job = Task.job
      BY <2>1, HeadTask DEF Runs, Task, TypeOK
  <2> HIDE DEF t
  <2>4. ASSUME NEW k \in JobIds
        PROVE  Trailed(jobs[k].status, reservationIds, Append(q, t), trail, k)
    <3>1. Trailed(jobs[k].status, reservationIds, microtasks, trail, k)
        BY DEF TrailInv
    <3>2. CASE k = Task.job
        BY <2>2, <2>3, <3>1, <3>2, InsertionGoesOn DEF Matches
    <3>3. CASE k # Task.job
      <4>1. /\ ~Writes(Head(microtasks), k) /\ ~Matches(Head(microtasks), "submit.inserted", k)
            /\ ~Writes(t, k) /\ ~Matches(t, "submit.inserted", k)
            /\ ~Matches(t, "claim.picked", k)
          BY <2>2, <2>3, <3>3 DEF Writes, Matches
      <4>2. Trailed(jobs[k].status, reservationIds, q, trail, k)
          BY <2>3, <3>1, <4>1, PopOther
      <4>3. QED
          BY <2>2, <2>3, <4>1, <4>2, PushOther
    <3>4. QED
        BY <3>2, <3>3
  <2>5. QED
      BY <2>1, <2>4 DEF TrailInv
<1>5. CASE SubmitReserve
  <2>1. /\ Report("submit.indexed", "queued") /\ Said(Task) = "queued"
        /\ reservationIds' = reservationIds \cup {Task.job}
      BY <1>5 DEF SubmitReserve, Report, Runs, Said
  <2>2. Left(microtasks') /\ UNCHANGED jobs
      BY <2>1, ReportLeft
  <2>3. QED
      BY <2>2, StillTrailed
<1>6. QED
    BY <1>1, <1>2, <1>3, <1>4, <1>5 DEF SubmitStep

\* claim.
LEMMA ClaimTrailed ==
    ASSUME TypeOK, TrailInv,
           \/ \E c \in ClaimCallers, w \in Claimants : ClaimPick(c, w)
           \/ ClaimReserve \/ ClaimLost \/ ClaimReturn
    PROVE  TrailInv'
<1> USE DEF storeVars, facadeVars
<1>1. ASSUME NEW c \in ClaimCallers, NEW w \in Claimants, ClaimPick(c, w) PROVE TrailInv'
  <2>1. PICK j \in Claimable : Pushes("call", ClaimTask("claim.picked", j, w, 0, c))
      BY <1>1, ClaimMoves
  <2> DEFINE t == ClaimTask("claim.picked", j, w, 0, c)
  <2>2. t.at = "claim.picked" /\ t.job = j
      BY DEF ClaimTask
  <2>3. t \in Tasks /\ microtasks' = Append(microtasks, t)
      BY <2>1 DEF Pushes
  <2>4. Left(microtasks) /\ UNCHANGED jobs
      BY <1>1 DEF ClaimPick, Left
  <2> HIDE DEF t
  <2>5. /\ \A k \in JobIds : ~Writes(t, k)
        /\ \A k \in JobIds : Matches(t, "claim.picked", k) => jobs[k].status # "absent"
        /\ Said(t) # "retry_wait" /\ t.at # "submit.inserted"
      BY <2>2 DEF Writes, Matches, Said, Claimable
  <2>6. QED
      BY <2>3, <2>4, <2>5, PushTrailed
<1>2. CASE ClaimReserve
  <2> DEFINE t == ClaimTask("claim.reserved", Task.job, Task.worker,
                            jobs[Task.job].attempt + 1, Task.caller)
             q == Tail(microtasks)
  <2>1. t.at = "claim.reserved" /\ t.job = Task.job
      BY DEF ClaimTask
  <2>2. t \in Tasks /\ microtasks' = Append(q, t) /\ Runs("claim.picked")
      BY <1>2, ClaimMoves DEF Pushes
  <2>3. Left(q) /\ Task.job \in JobIds
      BY <1>2, PlainLeft, ClaimTaskType DEF ClaimReserve
  <2> HIDE DEF t, q
  <2>4. /\ jobs'[Task.job].status = "running"
        /\ \A k \in JobIds : k # Task.job => jobs'[k] = jobs[k]
      BY <1>2, <2>3, RowStatus DEF ClaimReserve, TypeOK
  <2>5. \A k \in JobIds : Writes(t, k) <=> k = Task.job
      BY <2>1 DEF Writes
  <2>6. Said(t) = "running" /\ \A k \in JobIds : ~Matches(t, "claim.picked", k)
      BY <2>1 DEF Said, Matches
  <2>7. Never(microtasks, "submit.inserted", Task.job)
      BY <2>2, <2>3, InsertionIsOver
  <2>8. \A k \in JobIds :
          /\ Writes(t, k) => /\ jobs'[k].status = Said(t)
                             /\ Never(microtasks, "submit.inserted", k)
          /\ ~Writes(t, k) => /\ jobs'[k].status = jobs[k].status
                              /\ Matches(t, "claim.picked", k) => jobs[k].status # "absent"
      BY <2>4, <2>5, <2>6, <2>7
  <2>9. t.at # "submit.inserted" /\ Said(t) # "retry_wait"
      BY <2>1, <2>6
  <2>10. QED
      BY <2>2, <2>3, <2>8, <2>9, PushTrailed
<1>3. CASE ClaimLost
  <2>1. Left(microtasks') /\ UNCHANGED jobs
      BY <1>3, PlainLeft DEF ClaimLost, Return
  <2>2. QED
      BY <2>1, StillTrailed
<1>4. CASE ClaimReturn
  <2> DEFINE t == ClaimTask("claim.returned", Task.job, Task.worker, Task.attempt, Task.caller)
             q == Tail(microtasks)
  <2>1. t.at = "claim.returned"
      BY DEF ClaimTask
  <2>2. /\ Runs("claim.reserved") /\ UNCHANGED <<jobs, reservationIds>>
        /\ trail' = [trail EXCEPT ![Task.job] = "running"]
      BY <1>4 DEF ClaimReturn
  <2>3. \A k \in JobIds : trail'[k] = IF Writes(Task, k) THEN Said(Task) ELSE trail[k]
      BY <2>2 DEF TypeOK, Runs, Writes, Said
  <2>4. Left(q)
      BY <2>2, <2>3 DEF Left, Runs
  <2>5. microtasks' = q \/ (t \in Tasks /\ microtasks' = Append(q, t))
      BY <1>4, ClaimMoves DEF Pops, Pushes
  <2> HIDE DEF t
  <2>6. /\ \A k \in JobIds : ~Writes(t, k) /\ ~Matches(t, "claim.picked", k)
        /\ t.at # "submit.inserted" /\ Said(t) # "retry_wait"
      BY <2>1 DEF Writes, Matches, Said
  <2>7. CASE microtasks' = q
      BY <2>2, <2>4, <2>7, StillTrailed
  <2>8. CASE t \in Tasks /\ microtasks' = Append(q, t)
    <3> HIDE DEF q
    <3>1. QED
        BY <2>2, <2>4, <2>6, <2>8, PushTrailed
  <2>9. QED
      BY <2>5, <2>7, <2>8
<1>5. QED
    BY <1>1, <1>2, <1>3, <1>4

\* A status and the task that says it.
LEMMA ChangeTrailed ==
    ASSUME TypeOK, TrailInv, NEW q, Left(q), NEW j \in JobIds,
           NEW point \in {"success.stored", "cancel.stored", "recover.stored"},
           microtasks' = Append(q, JobTask(point, j)),
           jobs'[j].status = Said(JobTask(point, j)),
           \A k \in JobIds \ {j} : jobs'[k].status = jobs[k].status,
           jobs[j].status # "queued" \/ j \in reservationIds
    PROVE  TrailInv'
<1> DEFINE t == JobTask(point, j)
<1>1. t.at = point /\ t.job = j /\ t \in Tasks
    BY TaskConstructors DEF JobTask
<1>2. microtasks' = Append(q, t) /\ jobs'[j].status = Said(t)
    OBVIOUS
<1> HIDE DEF t
<1>3. \A k \in JobIds : /\ Writes(t, k) <=> k = j
                        /\ ~Matches(t, "claim.picked", k)
    BY <1>1 DEF Writes, Matches
<1>4. Said(t) # "retry_wait" /\ t.at # "submit.inserted"
    BY <1>1 DEF Said
<1>5. Never(microtasks, "submit.inserted", j)
    BY InsertionIsOver
<1>6. QED
    BY <1>1, <1>2, <1>3, <1>4, <1>5, PushTrailed

\* completeClaim, directly or from workOnce.
LEMMA CompleteTrailed ==
    ASSUME TypeOK, HeldWhileRunning, TrailInv, NEW j \in JobIds, NEW w \in Claimants, NEW rest,
           Complete(j, w, rest), Left(rest)
    PROVE  TrailInv'
<1>1. CASE HeldBy(j, w)
  <2>1. Finish(j, "succeeded") /\ microtasks' = Append(rest, JobTask("success.stored", j))
      BY <1>1 DEF Complete
  <2>2. jobs[j].status = "running"
      BY <1>1, NoneAssumption DEF HeldBy, HeldWhileRunning
  <2>3. Said(JobTask("success.stored", j)) = "succeeded"
      BY DEF Said, JobTask
  <2>4. /\ jobs'[j].status = "succeeded"
        /\ \A k \in JobIds \ {j} : jobs'[k].status = jobs[k].status
      BY <2>1, FinishStatus
  <2>5. QED
      BY <2>1, <2>2, <2>3, <2>4, ChangeTrailed
<1>2. CASE ~HeldBy(j, w)
  <2>1. microtasks' = rest /\ UNCHANGED jobs
      BY <1>2 DEF Complete
  <2>2. QED
      BY <2>1, StillTrailed
<1>3. QED
    BY <1>1, <1>2

\* The rest of workOnce and of the failing methods.
LEMMA WorkTrailed ==
    ASSUME TypeOK, HeldWhileRunning, NoFailers, TrailInv,
           \/ CrashBeforeProvider \/ CrashAfterProvider \/ WorkFinish
           \/ \E j \in JobIds, w \in Workers : CompleteClaim(j, w)
           \/ FailDeadLetter \/ FailTerminal \/ FailReschedule
    PROVE  TrailInv'
<1> USE DEF storeVars, facadeVars
<1>1. CASE CrashBeforeProvider \/ CrashAfterProvider
  <2>1. Left(microtasks') /\ UNCHANGED jobs
      BY <1>1, PlainLeft DEF CrashBeforeProvider, CrashAfterProvider, Return
  <2>2. QED
      BY <2>1, StillTrailed
<1>2. CASE WorkFinish
  <2>1. Task.job \in JobIds /\ Task.worker \in Claimants
      BY <1>2, ClaimTaskType DEF WorkFinish
  <2>2. Complete(Task.job, Task.worker, Tail(microtasks)) /\ Runs("claim.returned")
      BY <1>2 DEF WorkFinish
  <2>3. Left(Tail(microtasks))
      BY <2>2, PlainLeft DEF Complete
  <2>4. QED
      BY <2>1, <2>2, <2>3, CompleteTrailed
<1>3. ASSUME NEW j \in JobIds, NEW w \in Workers, CompleteClaim(j, w) PROVE TrailInv'
  <2>1. w \in Claimants
      BY DEF Claimants
  <2>2. Complete(j, w, microtasks) /\ Left(microtasks)
      BY <1>3 DEF CompleteClaim, Complete, Left
  <2>3. QED
      BY <2>1, <2>2, CompleteTrailed
<1>4. ~(FailDeadLetter \/ FailTerminal \/ FailReschedule)
  <2>1. SUFFICES ASSUME Runs("claim.returned"), Task.caller \in Failers PROVE FALSE
      BY DEF FailDeadLetter, FailTerminal, FailReschedule, Failers
  <2>2. 1 \in DOMAIN microtasks /\ microtasks[1] = Task /\ Task.at = "claim.returned"
      BY <2>1 DEF TypeOK, Runs, Task
  <2>3. QED
      BY <2>1, <2>2 DEF NoFailers, AllWilling, ClaimPoints
<1>5. QED
    BY <1>1, <1>2, <1>3, <1>4

\* The continuations that only report.
LEMMA ReportTrailed ==
    ASSUME TypeOK, TrailInv,
           \/ CommitSuccess \/ ReleaseFailed \/ NoteRetry \/ ReleaseCancelled
           \/ NoteRecovered \/ NoteReaped
    PROVE  TrailInv'
<1>1. CASE NoteReaped
  <2>1. /\ Runs("reap.stored") /\ microtasks' = Tail(microtasks)
        /\ trail' = [j \in JobIds |-> IF j \in Task.jobs THEN "queued" ELSE trail[j]]
        /\ UNCHANGED <<jobs, reservationIds>>
      BY <1>1 DEF NoteReaped, Return, storeVars
  <2>2. \A k \in JobIds : trail'[k] = IF Writes(Task, k) THEN Said(Task) ELSE trail[k]
      BY <2>1 DEF Runs, Writes, Said
  <2>3. Left(microtasks')
      BY <2>1, <2>2 DEF Left, Runs
  <2>4. QED
      BY <2>1, <2>3, StillTrailed
<1>2. ASSUME NEW point \in {"success.stored", "failure.stored", "retry.stored",
                            "cancel.stored", "recover.stored"},
             NEW status, Report(point, status), Said(Task) = status, UNCHANGED reservationIds
      PROVE  TrailInv'
    BY <1>2, ReportLeft, StillTrailed
<1>3. CASE CommitSuccess
  <2>1. Report("success.stored", "succeeded") /\ Said(Task) = "succeeded"
        /\ UNCHANGED reservationIds
      BY <1>3 DEF CommitSuccess, Report, Runs, Said
  <2>2. QED
      BY <1>2, <2>1
<1>4. CASE ReleaseFailed
  <2>1. Report("failure.stored", "failed") /\ Said(Task) = "failed"
        /\ UNCHANGED reservationIds
      BY <1>4 DEF ReleaseFailed, Report, Runs, Said
  <2>2. QED
      BY <1>2, <2>1
<1>5. CASE NoteRetry
  <2>1. Report("retry.stored", "retry_wait") /\ Said(Task) = "retry_wait"
        /\ UNCHANGED reservationIds
      BY <1>5 DEF NoteRetry, Report, Runs, Said
  <2>2. QED
      BY <1>2, <2>1
<1>6. CASE ReleaseCancelled
  <2>1. Report("cancel.stored", "cancelled") /\ Said(Task) = "cancelled"
        /\ UNCHANGED reservationIds
      BY <1>6 DEF ReleaseCancelled, Report, Runs, Said
  <2>2. QED
      BY <1>2, <2>1
<1>7. CASE NoteRecovered
  <2>1. Report("recover.stored", "queued") /\ Said(Task) = "queued"
        /\ UNCHANGED reservationIds
      BY <1>7 DEF NoteRecovered, Report, Runs, Said
  <2>2. QED
      BY <1>2, <2>1
<1>8. QED
    BY <1>1, <1>3, <1>4, <1>5, <1>6, <1>7

\* heartbeat, the reaper, the retry release, cancellation and recovery.
LEMMA CommandTrailed ==
    ASSUME TypeOK, TrailInv,
           \/ \E j \in JobIds, w \in Workers, now \in 0..MaxTime : Heartbeat(j, w, now)
           \/ \E now \in 0..MaxTime : ReapExpiredLeases(now)
           \/ ReleaseRetryWait
           \/ \E j \in JobIds : RequestCancel(j) \/ ManualRecover(j)
    PROVE  TrailInv'
<1> USE DEF storeVars, facadeVars
<1>1. ASSUME NEW j \in JobIds, NEW w \in Workers, NEW now \in 0..MaxTime, Heartbeat(j, w, now)
      PROVE  TrailInv'
  <2>1. \/ UNCHANGED jobs
        \/ jobs' = [jobs EXCEPT ![j] = [jobs[j] EXCEPT !.leaseExpiresAt = now + LeaseTtlMs]]
      BY <1>1 DEF Heartbeat
  <2>2. [jobs[j] EXCEPT !.leaseExpiresAt = now + LeaseTtlMs].status = jobs[j].status
      BY RowStatus
  <2>3. \A k \in JobIds : jobs'[k].status = jobs[k].status
      BY <2>1, <2>2 DEF TypeOK
  <2>4. Left(microtasks')
      BY <1>1 DEF Heartbeat, Left
  <2>5. QED
      BY <2>3, <2>4, StillTrailed
<1>2. ASSUME NEW now \in 0..MaxTime, ReapExpiredLeases(now) PROVE TrailInv'
  <2> DEFINE reaped == {j \in JobIds : Expired(j, now)}
             t == [at |-> "reap.stored", jobs |-> reaped]
  <2>1. IF reaped # {} THEN Pushes("call", t) ELSE microtasks' = microtasks
      BY <1>2, OtherMoves
  <2>2. t.at = "reap.stored" /\ t.jobs = reaped
      OBVIOUS
  <2>3. \A k \in JobIds : jobs'[k] = IF k \in reaped THEN Settled(k, "queued") ELSE jobs[k]
      BY <1>2 DEF ReapExpiredLeases
  <2>4. \A k \in reaped : k \in JobIds /\ jobs[k].status = "running"
      BY DEF Expired, Running
  <2>5. Left(microtasks)
      BY <1>2 DEF ReapExpiredLeases, Left
  <2> HIDE DEF t, reaped
  <2>6. /\ \A k \in JobIds : Writes(t, k) <=> k \in reaped
        /\ \A k \in JobIds : ~Matches(t, "claim.picked", k)
        /\ Said(t) = "queued" /\ t.at # "submit.inserted"
      BY <2>2 DEF Writes, Matches, Said
  <2>7. CASE reaped = {}
      BY <2>1, <2>3, <2>5, <2>7, StillTrailed
  <2>8. CASE reaped # {}
    <3>1. t \in Tasks /\ microtasks' = Append(microtasks, t)
        BY <2>1, <2>8 DEF Pushes
    <3>2. ASSUME NEW k \in JobIds, Writes(t, k)
          PROVE  jobs'[k].status = "queued" /\ Never(microtasks, "submit.inserted", k)
      <4>1. jobs'[k].status = "queued"
          BY <2>3, <2>6, <3>2, RowStatus
      <4>2. jobs[k].status # "queued"
          BY <2>4, <2>6, <3>2
      <4>3. QED
          BY <4>1, <4>2, InsertionIsOver
    <3>3. \A k \in JobIds : ~Writes(t, k) => jobs'[k].status = jobs[k].status
        BY <2>3, <2>6
    <3>4. QED
        BY <2>5, <2>6, <3>1, <3>2, <3>3, PushTrailed
  <2>9. QED
      BY <2>7, <2>8
<1>3. CASE ReleaseRetryWait
  <2>1. \A k \in JobIds : jobs[k].status # "retry_wait"
      BY DEF TrailInv, Trailed
  <2>2. \A k \in JobIds : jobs'[k].status = jobs[k].status
      BY <1>3, <2>1 DEF ReleaseRetryWait
  <2>3. Left(microtasks')
      BY <1>3 DEF ReleaseRetryWait, Left
  <2>4. QED
      BY <2>2, <2>3, StillTrailed
<1>4. ASSUME NEW j \in JobIds, RequestCancel(j) PROVE TrailInv'
  <2>1. /\ Finish(j, "cancelled") /\ j \in reservationIds /\ Left(microtasks)
        /\ microtasks' = Append(microtasks, JobTask("cancel.stored", j))
      BY <1>4 DEF RequestCancel, Await, Known, Left
  <2>2. Said(JobTask("cancel.stored", j)) = "cancelled"
      BY DEF Said, JobTask
  <2>3. /\ jobs'[j].status = "cancelled"
        /\ \A k \in JobIds \ {j} : jobs'[k].status = jobs[k].status
      BY <2>1, FinishStatus
  <2>4. QED
      BY <2>1, <2>2, <2>3, ChangeTrailed
<1>5. ASSUME NEW j \in JobIds, ManualRecover(j) PROVE TrailInv'
  <2>1. /\ j \in reservationIds /\ Left(microtasks)
        /\ microtasks' = Append(microtasks, JobTask("recover.stored", j))
      BY <1>5 DEF ManualRecover, Await, Known, Left
  <2>2. Said(JobTask("recover.stored", j)) = "queued"
      BY DEF Said, JobTask
  <2>3. /\ jobs'[j].status = "queued"
        /\ \A k \in JobIds \ {j} : jobs'[k].status = jobs[k].status
      BY <1>5, RowStatus DEF ManualRecover, TypeOK
  <2>4. QED
      BY <2>1, <2>2, <2>3, ChangeTrailed
<1>6. QED
    BY <1>1, <1>2, <1>3, <1>4, <1>5

\* In an environment that never calls the failing methods, whenever the event
\* loop is idle the trail of every job ends in its status, although the trail
\* is told one or more continuations after the row: of the entries pending for
\* a job the last is always its status.
THEOREM TrailFollows ==
    ASSUME "failNextJobRetryable" \notin Calls, "failNextJobTerminal" \notin Calls
    PROVE  Spec => []TrailEndsInStatus
<1>1. Init => TrailInv /\ NoFailers
    BY DEF Init, TrailInv, Trailed, NoFailers, AllWilling, NoJob, Never, Silent
<1>2. TypeOK /\ NoFailers /\ [Next]_vars => NoFailers'
    BY NoFailersStep
<1>3. TypeOK /\ HeldWhileRunning /\ NoFailers /\ TrailInv /\ [Next]_vars => TrailInv'
  <2>1. SUFFICES ASSUME TypeOK, HeldWhileRunning, NoFailers, TrailInv, [Next]_vars
                 PROVE  TrailInv'
      OBVIOUS
  <2>2. CASE Next
      BY <2>1, <2>2, SubmitTrailed, ClaimTrailed, WorkTrailed, ReportTrailed, CommandTrailed
      DEF Next, RunTask, Call, SubmitStep
  <2>3. CASE UNCHANGED vars
      BY <2>1, <2>3 DEF vars, storeVars, facadeVars, TrailInv
  <2>4. QED
      BY <2>1, <2>2, <2>3
<1>4. TrailInv => TrailEndsInStatus
  <2> SUFFICES ASSUME TrailInv, microtasks = <<>>, NEW j \in JobIds, jobs[j].status # "absent"
               PROVE  trail[j] = jobs[j].status
      BY DEF TrailEndsInStatus
  <2>1. Never(microtasks, "submit.inserted", j)
      BY DEF Never
  <2>2. Tells(microtasks, trail, j, jobs[j].status)
      BY <2>1 DEF TrailInv, Trailed
  <2>3. QED
      BY <2>2 DEF Tells
<1>5. QED
    BY <1>1, <1>2, <1>3, <1>4, TypeCorrect, Ownership, PTL DEF Spec
-----------------------------------------------------------------------------
(* What a step does to the quota *)

Finished == {"succeeded", "failed", "cancelled"}

\* The continuations that settle a job's units.
Settling == {"success.stored", "failure.stored", "cancel.stored"}

SameUnits ==
    \A j \in JobIds : /\ ledger'[j].committed = ledger[j].committed
                      /\ ledger'[j].released = ledger[j].released

\* The head of the queue, if it is taken, settles nothing.
PlainHead == microtasks # <<>> /\ Task.at \notin Settling

\* A step that finishes no job and settles none.
Quiet ==
    /\ \/ microtasks' = microtasks
       \/ \E t \in Tasks : t.at \notin Settling /\ microtasks' = Append(microtasks, t)
       \/ PlainHead /\ microtasks' = Tail(microtasks)
       \/ PlainHead /\ \E t \in Tasks : /\ t.at \notin Settling
                                       /\ microtasks' = Append(Tail(microtasks), t)
    /\ SameUnits
    /\ \A j \in JobIds : jobs'[j].status \in Finished => jobs'[j].status = jobs[j].status

\* A step that finishes a job, or finds it already taken away, and leaves the
\* continuation `point` that will settle it.
Ends(j, point) ==
    /\ \/ microtasks' = Append(microtasks, JobTask(point, j))
       \/ PlainHead /\ microtasks' = Append(Tail(microtasks), JobTask(point, j))
    /\ SameUnits
    /\ \A k \in JobIds \ {j} : jobs'[k].status = jobs[k].status
    /\ \/ point = "success.stored" /\ jobs'[j].status = "succeeded"
          /\ jobs[j].status = "running"
       \/ /\ point = "failure.stored"
          /\ Runs("claim.returned") /\ Task.caller \in Failers
          /\ \/ jobs'[j].status = jobs[j].status
             \/ jobs'[j].status = "failed" /\ jobs[j].status = "running"
       \/ /\ point = "cancel.stored"
          /\ jobs'[j].status = "cancelled"
          /\ jobs[j].status \in {"queued", "running", "retry_wait"}

\* A step that settles the units of a job.
Settles(j, point) ==
    /\ microtasks # <<>> /\ Matches(Task, point, j)
    /\ microtasks' = Tail(microtasks)
    /\ UNCHANGED jobs
    /\ \/ /\ point = "success.stored"
          /\ Commit(j)
       \/ /\ point \in {"failure.stored", "cancel.stored"}
          /\ Release(j)

SettleStep ==
    Quiet \/ \E j \in JobIds, point \in Settling : Ends(j, point) \/ Settles(j, point)

LEMMA CompleteSettles ==
    ASSUME TypeOK, HeldWhileRunning, NEW j \in JobIds, NEW w \in Claimants, NEW rest,
           \/ rest = microtasks
           \/ PlainHead /\ rest = Tail(microtasks),
           Complete(j, w, rest)
    PROVE  SettleStep
<1>1. SameUnits
    BY DEF Complete, SameUnits
<1>2. CASE HeldBy(j, w)
  <2>1. Finish(j, "succeeded") /\ microtasks' = Append(rest, JobTask("success.stored", j))
      BY <1>2 DEF Complete
  <2>2. jobs[j].status = "running"
      BY <1>2, NoneAssumption DEF HeldBy, HeldWhileRunning
  <2>3. Ends(j, "success.stored")
      BY <1>1, <2>1, <2>2, FinishStatus DEF Ends
  <2>4. QED
      BY <2>3 DEF SettleStep, Settling
<1>3. CASE ~HeldBy(j, w)
  <2>1. microtasks' = rest /\ UNCHANGED jobs
      BY <1>3 DEF Complete
  <2>2. QED
      BY <1>1, <2>1 DEF SettleStep, Quiet
<1>4. QED
    BY <1>2, <1>3

LEMMA FailureSettles ==
    ASSUME TypeOK, HeldWhileRunning, NEW j \in JobIds, NEW w \in Claimants,
           FinishFailed(j, w), PlainHead, UNCHANGED ledger,
           Runs("claim.returned"), Task.caller \in Failers,
           microtasks' = Append(Tail(microtasks), JobTask("failure.stored", j))
    PROVE  SettleStep
<1>1. SameUnits
    BY DEF SameUnits
<1>2. Ends(j, "failure.stored")
  <2>1. CASE HeldBy(j, w)
    <3>1. jobs[j].status = "running"
        BY <2>1, NoneAssumption DEF HeldBy, HeldWhileRunning
    <3>2. QED
        BY <1>1, <2>1, <3>1, FinishStatus DEF FinishFailed, Ends
  <2>2. CASE ~HeldBy(j, w)
      BY <1>1, <2>2 DEF FinishFailed, Ends
  <2>3. QED
      BY <2>1, <2>2
<1>3. QED
    BY <1>2 DEF SettleStep, Settling

\* A step that settles nothing and finishes no job.
LEMMA QuietMove ==
    ASSUME SameUnits, NEW from, from \notin Settling,
           \A j \in JobIds : jobs'[j].status \in Finished => jobs'[j].status = jobs[j].status,
           \/ microtasks' = microtasks
           \/ Pops(from)
           \/ \E t : t.at \notin Settling /\ Pushes(from, t)
    PROVE  SettleStep
BY DEF SettleStep, Quiet, PlainHead, Pops, Pushes, Runs

LEMMA TaskPoints ==
    /\ \A point, j : JobTask(point, j).at = point
    /\ \A point, j, w, n, c : ClaimTask(point, j, w, n, c).at = point
    /\ {"call", "submit.lookedUp", "submit.inserted", "submit.indexed", "claim.picked",
        "claim.reserved", "claim.returned", "retry.stored", "reap.stored", "recover.stored"}
       \cap Settling = {}
BY DEF JobTask, ClaimTask, Settling

\* The steps that touch neither a row nor a unit.
LEMMA BystandersSettle ==
    ASSUME TypeOK,
           \/ \E s \in Scopes, f \in Fingerprints : Submit(s, f)
           \/ SubmitReply \/ SubmitIndex
           \/ \E c \in ClaimCallers, w \in Claimants : ClaimPick(c, w)
           \/ ClaimLost \/ ClaimReturn \/ CrashBeforeProvider \/ CrashAfterProvider
           \/ NoteRetry \/ NoteReaped \/ NoteRecovered
    PROVE  SettleStep
<1> USE TaskPoints
<1>1. UNCHANGED <<jobs, ledger>>
    BY DEF Submit, SubmitReply, SubmitIndex, ClaimPick, ClaimLost, ClaimReturn,
           CrashBeforeProvider, CrashAfterProvider, NoteRetry, NoteReaped, NoteRecovered, Report,
           storeVars, facadeVars
<1>2. SameUnits /\ \A j \in JobIds : jobs'[j].status = jobs[j].status
    BY <1>1 DEF SameUnits
<1>3. \E from : /\ from \notin Settling
                /\ Pops(from) \/ \E t : t.at \notin Settling /\ Pushes(from, t)
  <2>1. ASSUME NEW s \in Scopes, NEW f \in Fingerprints, Submit(s, f)
        PROVE  \E t : t.at \notin Settling /\ Pushes("call", t)
      BY <2>1, SubmitMoves
  <2>2. SubmitReply => Pops("submit.lookedUp")
      BY SubmitMoves
  <2>3. SubmitIndex => \E t : t.at \notin Settling /\ Pushes("submit.inserted", t)
      BY SubmitMoves
  <2>4. ASSUME NEW c \in ClaimCallers, NEW w \in Claimants, ClaimPick(c, w)
        PROVE  \E t : t.at \notin Settling /\ Pushes("call", t)
      BY <2>4, ClaimMoves
  <2>5. ClaimLost => Pops("claim.picked")
      BY ClaimMoves
  <2>6. ClaimReturn => \/ Pops("claim.reserved")
                       \/ \E t : t.at \notin Settling /\ Pushes("claim.reserved", t)
      BY ClaimMoves
  <2>7. CrashBeforeProvider \/ CrashAfterProvider => Pops("claim.returned")
      BY WorkMoves
  <2>8. /\ NoteRetry => Pops("retry.stored")
        /\ NoteReaped => Pops("reap.stored")
        /\ NoteRecovered => Pops("recover.stored")
      BY OtherMoves
  <2>9. QED
      BY <2>1, <2>2, <2>3, <2>4, <2>5, <2>6, <2>7, <2>8
<1>4. QED
    BY <1>2, <1>3, QuietMove

\* The steps that change rows, or reserve units, but finish no job.
LEMMA UnfinishedSettle ==
    ASSUME TypeOK,
           \/ SubmitInsert \/ SubmitReserve \/ ClaimReserve \/ FailReschedule
           \/ \E j \in JobIds, w \in Workers, now \in 0..MaxTime : Heartbeat(j, w, now)
           \/ \E now \in 0..MaxTime : ReapExpiredLeases(now)
           \/ ReleaseRetryWait
           \/ \E j \in JobIds : ManualRecover(j)
    PROVE  SettleStep
<1> USE TaskPoints DEF storeVars, facadeVars
<1>1. ASSUME SubmitInsert PROVE SettleStep
  <2>1. PICK j \in Vacant : jobs' = [jobs EXCEPT ![j] = NewJob(Task.scope)]
      BY <1>1 DEF SubmitInsert
  <2>2. \A k \in JobIds : jobs'[k].status \in {jobs[k].status, "queued"}
      BY <2>1 DEF Vacant, NewJob, NoJob, TypeOK
  <2>3. \E t : t.at \notin Settling /\ Pushes("submit.lookedUp", t)
      BY <1>1, SubmitMoves
  <2>4. SameUnits
      BY <1>1 DEF SubmitInsert, SameUnits
  <2>5. QED
      BY <2>2, <2>3, <2>4, QuietMove DEF Finished
<1>2. ASSUME SubmitReserve PROVE SettleStep
  <2>1. Task.job \in JobIds /\ ledger' = [ledger EXCEPT ![Task.job].reserved = @ + 1]
      BY <1>2, JobTaskType DEF SubmitReserve, Report, Reserve
  <2>2. SameUnits
      BY <2>1, SMTT(30) DEF SameUnits, TypeOK, Ledgers
  <2>3. Pops("submit.indexed") /\ UNCHANGED jobs
      BY <1>2, SubmitMoves DEF SubmitReserve, Report
  <2>4. QED
      BY <2>2, <2>3, QuietMove
<1>3. ASSUME ClaimReserve PROVE SettleStep
  <2>1. Task.job \in JobIds /\ jobs' = [jobs EXCEPT ![Task.job] = Claimed(Task.job)]
      BY <1>3, ClaimTaskType DEF ClaimReserve
  <2>2. \A k \in JobIds : jobs'[k].status \in {jobs[k].status, "running"}
      BY <2>1, RowStatus DEF TypeOK
  <2>3. \E t : t.at \notin Settling /\ Pushes("claim.picked", t)
      BY <1>3, ClaimMoves
  <2>4. SameUnits
      BY <1>3 DEF ClaimReserve, SameUnits
  <2>5. QED
      BY <2>2, <2>3, <2>4, QuietMove DEF Finished
<1>4. ASSUME FailReschedule PROVE SettleStep
  <2>1. Task.job \in JobIds
      BY <1>4, ClaimTaskType DEF FailReschedule
  <2>2. \A j \in JobIds : jobs'[j].status \in {jobs[j].status, "retry_wait"}
    <3>1. \/ UNCHANGED jobs
          \/ jobs' = [jobs EXCEPT ![Task.job] = Rescheduled(Task.job, Task.attempt)]
        BY <1>4 DEF FailReschedule
    <3>2. Rescheduled(Task.job, Task.attempt).status = "retry_wait"
        BY <2>1, RowStatus
    <3>3. QED
        BY <2>1, <3>1, <3>2 DEF TypeOK
  <2>3. \E t : t.at \notin Settling /\ Pushes("claim.returned", t)
      BY <1>4, WorkMoves
  <2>4. SameUnits
      BY <1>4 DEF FailReschedule, SameUnits
  <2>5. QED
      BY <2>2, <2>3, <2>4, QuietMove DEF Finished
<1>5. ASSUME NEW j \in JobIds, NEW w \in Workers, NEW now \in 0..MaxTime, Heartbeat(j, w, now)
      PROVE  SettleStep
  <2>1. \/ UNCHANGED jobs
        \/ jobs' = [jobs EXCEPT ![j] = [jobs[j] EXCEPT !.leaseExpiresAt = now + LeaseTtlMs]]
      BY <1>5 DEF Heartbeat
  <2>2. [jobs[j] EXCEPT !.leaseExpiresAt = now + LeaseTtlMs].status = jobs[j].status
      BY DEF TypeOK, JobRows
  <2>3. \A k \in JobIds : jobs'[k].status = jobs[k].status
      BY <2>1, <2>2 DEF TypeOK
  <2>4. SameUnits /\ microtasks' = microtasks
      BY <1>5 DEF Heartbeat, SameUnits
  <2>5. QED
      BY <2>3, <2>4, QuietMove
<1>6. ASSUME NEW now \in 0..MaxTime, ReapExpiredLeases(now) PROVE SettleStep
  <2>1. \A k \in JobIds : jobs'[k].status \in {jobs[k].status, "queued"}
      BY <1>6, RowStatus DEF ReapExpiredLeases
  <2>2. microtasks' = microtasks \/ \E t : t.at \notin Settling /\ Pushes("call", t)
    <3> DEFINE S == {j \in JobIds : Expired(j, now)}
    <3>1. microtasks' = microtasks \/ Pushes("call", [at |-> "reap.stored", jobs |-> S])
        BY <1>6, OtherMoves
    <3>2. QED
        BY <3>1
  <2>3. SameUnits
      BY <1>6 DEF ReapExpiredLeases, SameUnits
  <2>4. QED
      BY <2>1, <2>2, <2>3, QuietMove DEF Finished
<1>7. ASSUME ReleaseRetryWait PROVE SettleStep
  <2>1. \A k \in JobIds : jobs'[k].status \in {jobs[k].status, "queued"}
    <3>1. \A k \in JobIds : jobs'[k] = IF jobs[k].status = "retry_wait"
              THEN [jobs[k] EXCEPT !.status = "queued", !.nextAttemptAt = fakeNow] ELSE jobs[k]
        BY <1>7 DEF ReleaseRetryWait
    <3>2. ASSUME NEW k \in JobIds PROVE jobs'[k].status \in {jobs[k].status, "queued"}
      <4> DEFINE row == [jobs[k] EXCEPT !.status = "queued", !.nextAttemptAt = fakeNow]
      <4>1. row.status = "queued"
          BY RowStatus
      <4>2. jobs'[k] \in {row, jobs[k]}
          BY <3>1
      <4> HIDE DEF row
      <4>3. QED
          BY <4>1, <4>2
    <3>3. QED
        BY <3>2
  <2>2. SameUnits /\ microtasks' = microtasks
      BY <1>7 DEF ReleaseRetryWait, SameUnits
  <2>3. QED
      BY <2>1, <2>2, QuietMove DEF Finished
<1>8. ASSUME NEW j \in JobIds, ManualRecover(j) PROVE SettleStep
  <2>1. \A k \in JobIds : jobs'[k].status \in {jobs[k].status, "queued"}
      BY <1>8, RowStatus DEF ManualRecover, TypeOK
  <2>2. \E t : t.at \notin Settling /\ Pushes("call", t)
      BY <1>8, OtherMoves
  <2>3. SameUnits
      BY <1>8 DEF ManualRecover, SameUnits
  <2>4. QED
      BY <2>1, <2>2, <2>3, QuietMove DEF Finished
<1>9. QED
    BY <1>1, <1>2, <1>3, <1>4, <1>5, <1>6, <1>7, <1>8

\* The steps that finish a job or settle one.
LEMMA FinishersSettle ==
    ASSUME TypeOK, HeldWhileRunning,
           \/ WorkFinish \/ CommitSuccess
           \/ \E j \in JobIds, w \in Workers : CompleteClaim(j, w)
           \/ FailDeadLetter \/ FailTerminal \/ ReleaseFailed
           \/ \E j \in JobIds : RequestCancel(j)
           \/ ReleaseCancelled
    PROVE  SettleStep
<1> USE DEF storeVars, facadeVars
<1>1. ASSUME WorkFinish PROVE SettleStep
  <2>1. Task.job \in JobIds /\ Task.worker \in Claimants
      BY <1>1, ClaimTaskType DEF WorkFinish
  <2>2. PlainHead
      BY <1>1 DEF WorkFinish, Runs, PlainHead, Settling
  <2>3. QED
      BY <1>1, <2>1, <2>2, CompleteSettles DEF WorkFinish
<1>2. ASSUME NEW j \in JobIds, NEW w \in Workers, CompleteClaim(j, w) PROVE SettleStep
  <2>1. w \in Claimants
      BY DEF Claimants
  <2>2. QED
      BY <1>2, <2>1, CompleteSettles DEF CompleteClaim
<1>3. ASSUME FailDeadLetter \/ FailTerminal PROVE SettleStep
  <2>1. Task.job \in JobIds /\ Task.worker \in Claimants
      BY <1>3, ClaimTaskType DEF FailDeadLetter, FailTerminal
  <2>2. PlainHead
      BY <1>3 DEF FailDeadLetter, FailTerminal, Runs, PlainHead, Settling
  <2>3. /\ FinishFailed(Task.job, Task.worker) /\ UNCHANGED ledger
        /\ microtasks' = Append(Tail(microtasks), JobTask("failure.stored", Task.job))
        /\ Runs("claim.returned") /\ Task.caller \in Failers
      BY <1>3 DEF FailDeadLetter, FailTerminal, AwaitNext, Failers
  <2>4. QED
      BY <2>1, <2>2, <2>3, FailureSettles
<1>4. ASSUME NEW j \in JobIds, RequestCancel(j) PROVE SettleStep
  <2>1. Finish(j, "cancelled") /\ SameUnits
        /\ microtasks' = Append(microtasks, JobTask("cancel.stored", j))
      BY <1>4 DEF RequestCancel, Await, SameUnits
  <2>2. jobs[j].status \in {"queued", "running", "retry_wait"}
      BY <1>4 DEF RequestCancel, Cancellable, TypeOK, JobRows, Statuses
  <2>3. Ends(j, "cancel.stored")
      BY <2>1, <2>2, FinishStatus DEF Ends
  <2>4. QED
      BY <2>3 DEF SettleStep, Settling
<1>5. ASSUME CommitSuccess \/ ReleaseFailed \/ ReleaseCancelled PROVE SettleStep
  <2>1. Task.job \in JobIds
      BY <1>5, JobTaskType DEF CommitSuccess, ReleaseFailed, ReleaseCancelled, Report
  <2>2. \E point \in Settling : Settles(Task.job, point)
      BY <1>5 DEF CommitSuccess, ReleaseFailed, ReleaseCancelled, Report, Runs, Return, Settles,
                  Matches, Settling
  <2>3. QED
      BY <2>1, <2>2 DEF SettleStep
<1>6. QED
    BY <1>1, <1>2, <1>3, <1>4, <1>5

LEMMA SettleStepLemma ==
    ASSUME TypeOK, HeldWhileRunning, [Next]_vars
    PROVE  SettleStep
<1>1. CASE Next
    BY <1>1, BystandersSettle, UnfinishedSettle, FinishersSettle DEF Next, RunTask, Call
<1>2. CASE UNCHANGED vars
    BY <1>2 DEF vars, storeVars, facadeVars, SameUnits, SettleStep, Quiet
<1>3. QED
    BY <1>1, <1>2

-----------------------------------------------------------------------------
(* The quota *)

\* Until a job succeeds nothing charges it; once it has, exactly one pending
\* continuation will, or one has.
ChargeInv ==
    \A j \in JobIds :
      /\ jobs[j].status # "succeeded" =>
           ledger[j].committed = 0 /\ Never(microtasks, "success.stored", j)
      /\ jobs[j].status = "succeeded" =>
           \/ ledger[j].committed = 0 /\ Once(microtasks, "success.stored", j)
           \/ ledger[j].committed = 1 /\ Never(microtasks, "success.stored", j)

\* The pending continuations of a job after a step that neither adds nor runs
\* one at `point`.
LEMMA OtherTasks ==
    ASSUME TypeOK, NEW point, NEW j,
           \/ microtasks' = microtasks
           \/ \E t \in Tasks : /\ ~Matches(t, point, j)
                               /\ microtasks' = Append(microtasks, t)
           \/ /\ microtasks # <<>> /\ ~Matches(Task, point, j)
              /\ \/ microtasks' = Tail(microtasks)
                 \/ \E t \in Tasks : /\ ~Matches(t, point, j)
                                     /\ microtasks' = Append(Tail(microtasks), t)
    PROVE  /\ Never(microtasks, point, j) => Never(microtasks', point, j)
           /\ ~Never(microtasks, point, j) => ~Never(microtasks', point, j)
           /\ Once(microtasks, point, j) => Once(microtasks', point, j)
<1> DEFINE Same(r) == /\ Never(microtasks, point, j) => Never(r, point, j)
                      /\ ~Never(microtasks, point, j) => ~Never(r, point, j)
                      /\ Once(microtasks, point, j) => Once(r, point, j)
<1>1. microtasks \in Seq(Tasks) /\ (microtasks # <<>> => Tail(microtasks) \in Seq(Tasks))
    BY QueueType DEF TypeOK
<1>2. ASSUME NEW t \in Tasks, ~Matches(t, point, j) PROVE Same(Append(microtasks, t))
    BY <1>1, <1>2, AppendedTask
<1>3. ASSUME microtasks # <<>>, ~Matches(Task, point, j) PROVE Same(Tail(microtasks))
    BY <1>1, <1>3, RunTaskAtHead DEF Task
<1>4. ASSUME microtasks # <<>>, ~Matches(Task, point, j), NEW t \in Tasks,
             ~Matches(t, point, j)
      PROVE  Same(Append(Tail(microtasks), t))
  <2> DEFINE r == Tail(microtasks)
  <2>1. r \in Seq(Tasks) /\ Same(r)
      BY <1>1, <1>3, <1>4
  <2> HIDE DEF r
  <2>2. /\ Never(r, point, j) => Never(Append(r, t), point, j)
        /\ ~Never(r, point, j) => ~Never(Append(r, t), point, j)
        /\ Once(r, point, j) => Once(Append(r, t), point, j)
      BY <1>4, <2>1, AppendedTask
  <2>3. Same(Append(r, t))
      BY <2>1, <2>2
  <2>4. QED
      BY <2>3 DEF r
<1>5. Same(microtasks)
    OBVIOUS
<1> HIDE DEF Same
<1>6. Same(microtasks')
    BY <1>2, <1>3, <1>4, <1>5
<1>7. QED
    BY <1>6 DEF Same

\* What a step that ends job j does to the pending continuations at its point.
LEMMA EndingTask ==
    ASSUME TypeOK, NEW j \in JobIds, NEW point \in Settling, Ends(j, point)
    PROVE  /\ Never(microtasks, point, j) => Once(microtasks', point, j)
           /\ ~Never(microtasks', point, j)
           /\ \A p \in Settling, k \in JobIds : p # point \/ k # j =>
                /\ Never(microtasks, p, k) => Never(microtasks', p, k)
                /\ ~Never(microtasks, p, k) => ~Never(microtasks', p, k)
                /\ Once(microtasks, p, k) => Once(microtasks', p, k)
<1> DEFINE t == JobTask(point, j)
<1>1. t \in Tasks /\ t.at = point /\ t.job = j
    BY TaskConstructors DEF Settling, JobTask
<1>2. \/ microtasks' = Append(microtasks, t)
      \/ PlainHead /\ microtasks' = Append(Tail(microtasks), t)
    BY DEF Ends
<1> HIDE DEF t
<1>3. microtasks \in Seq(Tasks) /\ (microtasks # <<>> => Tail(microtasks) \in Seq(Tasks))
    BY QueueType DEF TypeOK
<1>4. Matches(t, point, j) /\ \A p \in Settling, k \in JobIds :
                                p # point \/ k # j => ~Matches(t, p, k)
    BY <1>1 DEF Matches
<1>5. PlainHead => microtasks # <<>> /\ \A p \in Settling, k \in JobIds : ~Matches(Task, p, k)
    BY DEF PlainHead, Matches
<1>6. PICK q \in Seq(Tasks) : /\ microtasks' = Append(q, t)
                              /\ Never(microtasks, point, j) => Never(q, point, j)
  <2>1. CASE microtasks' = Append(microtasks, t)
      BY <1>3, <2>1
  <2>2. CASE PlainHead /\ microtasks' = Append(Tail(microtasks), t)
      BY <1>3, <1>5, <2>2, RunTaskAtHead
  <2>3. QED
      BY <1>2, <2>1, <2>2
<1>7. (Never(microtasks, point, j) => Once(microtasks', point, j))
      /\ ~Never(microtasks', point, j)
    BY <1>1, <1>4, <1>6, AppendedTask
<1>8. ASSUME NEW p \in Settling, NEW k \in JobIds, p # point \/ k # j
      PROVE  /\ Never(microtasks, p, k) => Never(microtasks', p, k)
             /\ ~Never(microtasks, p, k) => ~Never(microtasks', p, k)
             /\ Once(microtasks, p, k) => Once(microtasks', p, k)
    BY <1>1, <1>2, <1>4, <1>5, <1>8, OtherTasks
<1>9. QED
    BY <1>7, <1>8

LEMMA QuietTasks ==
    ASSUME TypeOK, Quiet, NEW p \in Settling, NEW k \in JobIds
    PROVE  /\ Never(microtasks, p, k) => Never(microtasks', p, k)
           /\ ~Never(microtasks, p, k) => ~Never(microtasks', p, k)
           /\ Once(microtasks, p, k) => Once(microtasks', p, k)
<1>1. \A t : t.at \notin Settling => ~Matches(t, p, k)
    BY DEF Matches
<1>2. QED
    BY <1>1, OtherTasks DEF Quiet, PlainHead

LEMMA SettlesTasks ==
    ASSUME TypeOK, NEW j \in JobIds, NEW point \in Settling, Settles(j, point)
    PROVE  /\ Once(microtasks, point, j) => Never(microtasks', point, j)
           /\ ~Never(microtasks, point, j)
           /\ \A p \in Settling, k \in JobIds : p # point \/ k # j =>
                /\ Never(microtasks, p, k) => Never(microtasks', p, k)
                /\ ~Never(microtasks, p, k) => ~Never(microtasks', p, k)
                /\ Once(microtasks, p, k) => Once(microtasks', p, k)
<1>1. microtasks \in Seq(Tasks) /\ microtasks # <<>> /\ Matches(Task, point, j)
      /\ microtasks' = Tail(microtasks)
    BY DEF TypeOK, Settles
<1>2. Once(microtasks, point, j) => Never(microtasks', point, j)
    BY <1>1, RunTaskAtHead DEF Task
<1>3. ~Never(microtasks, point, j)
  <2>1. 1 \in DOMAIN microtasks /\ microtasks[1] = Task
      BY <1>1 DEF Task
  <2>2. QED
      BY <1>1, <2>1 DEF Never
<1>4. ASSUME NEW p \in Settling, NEW k \in JobIds, p # point \/ k # j
      PROVE  /\ Never(microtasks, p, k) => Never(microtasks', p, k)
             /\ ~Never(microtasks, p, k) => ~Never(microtasks', p, k)
             /\ Once(microtasks, p, k) => Once(microtasks', p, k)
  <2>1. ~Matches(Task, p, k)
      BY <1>1, <1>4 DEF Matches
  <2>2. QED
      BY <1>1, <2>1, RunTaskAtHead DEF Task
<1>5. QED
    BY <1>2, <1>3, <1>4

\* The units of the jobs after a step that settles one.
LEMMA SettledUnits ==
    ASSUME TypeOK, NEW j \in JobIds, NEW point \in Settling, Settles(j, point)
    PROVE  /\ \A k \in JobIds \ {j} : ledger'[k] = ledger[k]
           /\ point = "success.stored" =>
                /\ ledger'[j].committed = ledger[j].committed + 1
                /\ ledger'[j].released = ledger[j].released
           /\ point # "success.stored" =>
                /\ ledger'[j].committed = ledger[j].committed
                /\ ledger'[j].released = ledger[j].released + 1
           /\ ledger[j].committed \in Nat /\ ledger[j].released \in Nat
<1>1. ledger[j] \in Ledgers
    BY DEF TypeOK
<1>2. CASE point = "success.stored"
    BY <1>1, <1>2 DEF Settles, Commit, TypeOK, Ledgers
<1>3. CASE point # "success.stored"
    BY <1>1, <1>3 DEF Settles, Release, TypeOK, Ledgers
<1>4. QED
    BY <1>2, <1>3

LEMMA ChargeInvStep ==
    ASSUME TypeOK, HeldWhileRunning, ChargeInv, [Next]_vars
    PROVE  ChargeInv'
<1> DEFINE Charged(j) ==
      /\ jobs[j].status # "succeeded" =>
           ledger[j].committed = 0 /\ Never(microtasks, "success.stored", j)
      /\ jobs[j].status = "succeeded" =>
           \/ ledger[j].committed = 0 /\ Once(microtasks, "success.stored", j)
           \/ ledger[j].committed = 1 /\ Never(microtasks, "success.stored", j)
<1>1. SettleStep
    BY SettleStepLemma
<1>2. \A k \in JobIds : jobs[k].status = "succeeded" => jobs'[k].status = "succeeded"
    BY StoreStepLemma, StatusStep
<1>3. "success.stored" \in Settling
    BY DEF Settling
<1>4. ASSUME Quiet, NEW k \in JobIds PROVE Charged(k)'
  <2>1. ledger'[k].committed = ledger[k].committed
      BY <1>4 DEF Quiet, SameUnits
  <2>2. jobs'[k].status = "succeeded" => jobs[k].status = "succeeded"
      BY <1>4 DEF Quiet, Finished
  <2>3. /\ Never(microtasks, "success.stored", k) => Never(microtasks', "success.stored", k)
        /\ Once(microtasks, "success.stored", k) => Once(microtasks', "success.stored", k)
      BY <1>3, <1>4, QuietTasks
  <2>4. QED
      BY <1>2, <2>1, <2>2, <2>3 DEF ChargeInv
<1>5. ASSUME NEW j \in JobIds, NEW point \in Settling, Ends(j, point), NEW k \in JobIds
      PROVE  Charged(k)'
  <2>1. ledger'[k].committed = ledger[k].committed
      BY <1>5 DEF Ends, SameUnits
  <2>2. CASE k = j /\ point = "success.stored"
    <3>1. jobs[j].status = "running" /\ jobs'[j].status = "succeeded"
        BY <1>5, <2>2 DEF Ends
    <3>2. Once(microtasks', "success.stored", j)
        BY <1>5, <2>2, <3>1, EndingTask DEF ChargeInv
    <3>3. QED
        BY <2>1, <2>2, <3>1, <3>2 DEF ChargeInv
  <2>3. CASE k # j \/ point # "success.stored"
    <3>1. jobs'[k].status = "succeeded" => jobs[k].status = "succeeded"
        BY <1>5, <2>3 DEF Ends
    <3>2. /\ Never(microtasks, "success.stored", k) => Never(microtasks', "success.stored", k)
          /\ Once(microtasks, "success.stored", k) => Once(microtasks', "success.stored", k)
        BY <1>3, <1>5, <2>3, EndingTask
    <3>3. QED
        BY <1>2, <2>1, <3>1, <3>2 DEF ChargeInv
  <2>4. QED
      BY <2>2, <2>3
<1>6. ASSUME NEW j \in JobIds, NEW point \in Settling, Settles(j, point), NEW k \in JobIds
      PROVE  Charged(k)'
  <2>1. jobs'[k] = jobs[k]
      BY <1>6 DEF Settles
  <2>2. CASE k = j /\ point = "success.stored"
    <3>1. jobs[j].status = "succeeded" /\ ledger[j].committed = 0
          /\ Once(microtasks, "success.stored", j)
        BY <1>6, <2>2, SettlesTasks DEF ChargeInv
    <3>2. Never(microtasks', "success.stored", j) /\ ledger'[j].committed = 1
        BY <1>6, <2>2, <3>1, SettlesTasks, SettledUnits
    <3>3. QED
        BY <2>1, <2>2, <3>1, <3>2
  <2>3. CASE k # j \/ point # "success.stored"
    <3>1. ledger'[k].committed = ledger[k].committed
        BY <1>6, <2>3, SettledUnits
    <3>2. /\ Never(microtasks, "success.stored", k) => Never(microtasks', "success.stored", k)
          /\ Once(microtasks, "success.stored", k) => Once(microtasks', "success.stored", k)
        BY <1>3, <1>6, <2>3, SettlesTasks
    <3>3. QED
        BY <2>1, <3>1, <3>2 DEF ChargeInv
  <2>4. QED
      BY <2>2, <2>3
<1>7. \A k \in JobIds : Charged(k)'
    BY <1>1, <1>4, <1>5, <1>6 DEF SettleStep
<1>8. QED
    BY <1>7 DEF ChargeInv

\* A job's quota is committed exactly once, and only for its success, however
\* many workers complete, fail or cancel it and in whatever order the pending
\* continuations run.
THEOREM OneCommitPerSuccess == Spec => []CommittedOncePerSuccess
<1>1. Init => ChargeInv
    BY DEF Init, ChargeInv, NoJob, Never
<1>2. TypeOK /\ HeldWhileRunning /\ ChargeInv /\ [Next]_vars => ChargeInv'
    BY ChargeInvStep
<1>3. TypeOK /\ ChargeInv => CommittedOncePerSuccess
  <2> SUFFICES ASSUME TypeOK, ChargeInv, NEW j \in JobIds
               PROVE  ledger[j].committed + Cardinality(Pending("success.stored", j)) =
                        IF jobs[j].status = "succeeded" THEN 1 ELSE 0
      BY DEF CommittedOncePerSuccess
  <2>1. CASE jobs[j].status # "succeeded"
      BY <2>1, PendingCount DEF ChargeInv
  <2>2. CASE jobs[j].status = "succeeded"
      BY <2>2, PendingCount DEF ChargeInv
  <2>3. QED
      BY <2>1, <2>2
<1>4. QED
    BY <1>1, <1>2, <1>3, TypeCorrect, Ownership, PTL DEF Spec

\* A job that ended in any way has settled its units, or a continuation that
\* will is in the queue: no order of calls loses track of reserved quota.
THEOREM QuotaAccounted == Spec => []NoQuotaLeak
<1> DEFINE Accounted(j) ==
      jobs[j].status \in Finished =>
        \/ ledger[j].committed + ledger[j].released > 0
        \/ \E p \in Settling : ~Never(microtasks, p, j)
<1> DEFINE Inv == \A j \in JobIds : Accounted(j)
<1>1. TypeOK => (NoQuotaLeak <=> Inv)
    BY PendingCount DEF NoQuotaLeak, Finished, Settling
<1>2. Init => Inv
    BY DEF Init, NoJob, Finished
<1>3. ASSUME TypeOK, HeldWhileRunning, Inv, [Next]_vars PROVE Inv'
  <2> SUFFICES ASSUME NEW k \in JobIds PROVE Accounted(k)'
      OBVIOUS
  <2>1. CASE Quiet
    <3>1. jobs'[k].status \in Finished => jobs'[k].status = jobs[k].status
        BY <2>1 DEF Quiet
    <3>2. ledger'[k].committed = ledger[k].committed /\ ledger'[k].released = ledger[k].released
        BY <2>1 DEF Quiet, SameUnits
    <3>3. \A p \in Settling : ~Never(microtasks, p, k) => ~Never(microtasks', p, k)
        BY <1>3, <2>1, QuietTasks
    <3>4. QED
        BY <1>3, <3>1, <3>2, <3>3
  <2>2. ASSUME NEW j \in JobIds, NEW point \in Settling, Ends(j, point) PROVE Accounted(k)'
    <3>1. CASE k = j
        BY <1>3, <2>2, <3>1, EndingTask
    <3>2. CASE k # j
      <4>1. jobs'[k].status = jobs[k].status
          BY <2>2, <3>2 DEF Ends
      <4>2. ledger'[k].committed = ledger[k].committed
            /\ ledger'[k].released = ledger[k].released
          BY <2>2 DEF Ends, SameUnits
      <4>3. \A p \in Settling : ~Never(microtasks, p, k) => ~Never(microtasks', p, k)
          BY <1>3, <2>2, <3>2, EndingTask
      <4>4. QED
          BY <1>3, <4>1, <4>2, <4>3
    <3>3. QED
        BY <3>1, <3>2
  <2>3. ASSUME NEW j \in JobIds, NEW point \in Settling, Settles(j, point) PROVE Accounted(k)'
    <3>1. CASE k = j
      <4>1. ledger'[j].committed + ledger'[j].released > 0
          BY <1>3, <2>3, SettledUnits
      <4>2. QED
          BY <3>1, <4>1
    <3>2. CASE k # j
      <4>1. jobs'[k] = jobs[k] /\ ledger'[k] = ledger[k]
          BY <1>3, <2>3, <3>2, SettledUnits DEF Settles
      <4>2. \A p \in Settling : ~Never(microtasks, p, k) => ~Never(microtasks', p, k)
          BY <1>3, <2>3, <3>2, SettlesTasks
      <4>3. QED
          BY <1>3, <4>1, <4>2
    <3>3. QED
        BY <3>1, <3>2
  <2>4. QED
      BY <1>3, <2>1, <2>2, <2>3, SettleStepLemma DEF SettleStep
<1> HIDE DEF Inv
<1>4. QED
    BY <1>1, <1>2, <1>3, TypeCorrect, Ownership, PTL DEF Spec

-----------------------------------------------------------------------------
(* Quota settled once *)

\* Without the failing methods every job settles once: a cancellation is
\* released by its own continuation, and no failure is ever stored.
UnitsInv ==
    \A j \in JobIds :
      /\ Never(microtasks, "failure.stored", j)
      /\ jobs[j].status # "cancelled" =>
           ledger[j].released = 0 /\ Never(microtasks, "cancel.stored", j)
      /\ jobs[j].status = "cancelled" =>
           \/ ledger[j].released = 0 /\ Once(microtasks, "cancel.stored", j)
           \/ ledger[j].released = 1 /\ Never(microtasks, "cancel.stored", j)

LEMMA UnitsInvStep ==
    ASSUME TypeOK, HeldWhileRunning, NoFailers, UnitsInv, [Next]_vars
    PROVE  UnitsInv'
<1> DEFINE Unit(j) ==
      /\ Never(microtasks, "failure.stored", j)
      /\ jobs[j].status # "cancelled" =>
           ledger[j].released = 0 /\ Never(microtasks, "cancel.stored", j)
      /\ jobs[j].status = "cancelled" =>
           \/ ledger[j].released = 0 /\ Once(microtasks, "cancel.stored", j)
           \/ ledger[j].released = 1 /\ Never(microtasks, "cancel.stored", j)
<1>1. SettleStep
    BY SettleStepLemma
<1>2. \A k \in JobIds : jobs[k].status = "cancelled" => jobs'[k].status = "cancelled"
    BY StoreStepLemma, StatusStep
<1>3. "failure.stored" \in Settling /\ "cancel.stored" \in Settling
    BY DEF Settling
<1>4. ASSUME NEW k \in JobIds, ledger'[k].released = ledger[k].released,
             jobs'[k].status = "cancelled" => jobs[k].status = "cancelled",
             \A p \in {"failure.stored", "cancel.stored"} :
               /\ Never(microtasks, p, k) => Never(microtasks', p, k)
               /\ Once(microtasks, p, k) => Once(microtasks', p, k)
      PROVE  Unit(k)'
    BY <1>2, <1>4 DEF UnitsInv
<1>5. ASSUME Quiet, NEW k \in JobIds PROVE Unit(k)'
    BY <1>3, <1>4, <1>5, QuietTasks DEF Quiet, SameUnits, Finished
<1>6. ASSUME NEW j \in JobIds, NEW point \in Settling, Ends(j, point), NEW k \in JobIds
      PROVE  Unit(k)'
  <2>1. ledger'[k].released = ledger[k].released
      BY <1>6 DEF Ends, SameUnits
  <2>2. point # "failure.stored"
    <3>1. ASSUME point = "failure.stored" PROVE FALSE
      <4>1. Runs("claim.returned") /\ Task.caller \in Failers
          BY <1>6, <3>1 DEF Ends
      <4>2. 1 \in DOMAIN microtasks /\ microtasks[1] = Task /\ Task.at = "claim.returned"
          BY <4>1 DEF TypeOK, Runs, Task
      <4>3. QED
          BY <4>1, <4>2 DEF NoFailers, AllWilling, ClaimPoints
    <3>2. QED
        BY <3>1
  <2>3. CASE k = j /\ point = "cancel.stored"
    <3>1. jobs[j].status # "cancelled" /\ jobs'[j].status = "cancelled"
        BY <1>6, <2>3 DEF Ends
    <3>2. Once(microtasks', "cancel.stored", j) /\ Never(microtasks', "failure.stored", j)
        BY <1>3, <1>6, <2>3, <3>1, EndingTask DEF UnitsInv
    <3>3. QED
        BY <2>1, <2>3, <3>1, <3>2 DEF UnitsInv
  <2>4. CASE k # j \/ point = "success.stored"
    <3>1. jobs'[k].status = "cancelled" => jobs[k].status = "cancelled"
        BY <1>6, <2>4 DEF Ends
    <3>2. \A p \in {"failure.stored", "cancel.stored"} :
            /\ Never(microtasks, p, k) => Never(microtasks', p, k)
            /\ Once(microtasks, p, k) => Once(microtasks', p, k)
        BY <1>3, <1>6, <2>4, EndingTask
    <3>3. QED
        BY <1>4, <2>1, <3>1, <3>2
  <2>5. QED
      BY <1>6, <2>2, <2>3, <2>4 DEF Settling
<1>7. ASSUME NEW j \in JobIds, NEW point \in Settling, Settles(j, point), NEW k \in JobIds
      PROVE  Unit(k)'
  <2>1. jobs'[k] = jobs[k]
      BY <1>7 DEF Settles
  <2>2. point # "failure.stored"
      BY <1>7, SettlesTasks DEF UnitsInv
  <2>3. CASE k = j /\ point = "cancel.stored"
    <3>1. /\ jobs[j].status = "cancelled" /\ ledger[j].released = 0
          /\ Once(microtasks, "cancel.stored", j)
        BY <1>7, <2>3, SettlesTasks DEF UnitsInv
    <3>2. Never(microtasks', "cancel.stored", j) /\ ledger'[j].released = 1
        BY <1>7, <2>3, <3>1, SettlesTasks, SettledUnits
    <3>3. Never(microtasks', "failure.stored", j)
        BY <1>3, <1>7, <2>3, SettlesTasks DEF UnitsInv
    <3>4. QED
        BY <2>1, <2>3, <3>1, <3>2, <3>3
  <2>4. CASE k # j \/ point = "success.stored"
    <3>1. ledger'[k].released = ledger[k].released
        BY <1>7, <2>4, SettledUnits
    <3>2. \A p \in {"failure.stored", "cancel.stored"} :
            /\ Never(microtasks, p, k) => Never(microtasks', p, k)
            /\ Once(microtasks, p, k) => Once(microtasks', p, k)
        BY <1>3, <1>7, <2>4, SettlesTasks
    <3>3. QED
        BY <1>4, <2>1, <3>1, <3>2
  <2>5. QED
      BY <1>7, <2>2, <2>3, <2>4 DEF Settling
<1>8. \A k \in JobIds : Unit(k)'
    BY <1>1, <1>5, <1>6, <1>7 DEF SettleStep
<1>9. QED
    BY <1>8 DEF UnitsInv

\* In an environment that never calls the failing methods, whatever is
\* completed, cancelled, reaped or recovered, the units of a job are committed
\* or released at most once, never both.
THEOREM SettledAtMostOnce ==
    ASSUME "failNextJobRetryable" \notin Calls, "failNextJobTerminal" \notin Calls
    PROVE  Spec => []QuotaSettledOnce
<1>1. Init => ChargeInv /\ UnitsInv /\ NoFailers
    BY DEF Init, ChargeInv, UnitsInv, NoFailers, AllWilling, NoJob, Never
<1>2. TypeOK /\ NoFailers /\ [Next]_vars => NoFailers'
    BY NoFailersStep
<1>3. TypeOK /\ HeldWhileRunning /\ ChargeInv /\ [Next]_vars => ChargeInv'
    BY ChargeInvStep
<1>4. TypeOK /\ HeldWhileRunning /\ NoFailers /\ UnitsInv /\ [Next]_vars => UnitsInv'
    BY UnitsInvStep
<1>5. ChargeInv /\ UnitsInv => QuotaSettledOnce
    BY DEF ChargeInv, UnitsInv, QuotaSettledOnce
<1>6. QED
    BY <1>1, <1>2, <1>3, <1>4, <1>5, TypeCorrect, Ownership, PTL DEF Spec

-----------------------------------------------------------------------------
(* The queue implements the pool *)

\* The mapping with the charges in their settled form.
PhaseMap == [j \in JobIds |-> PhaseOf(jobs[j].status)]

ChargeMap == [j \in JobIds |-> IF jobs[j].status = "succeeded" THEN 1 ELSE 0]

LEMMA PhaseOfStatus ==
    /\ PhaseOf("absent") = "unknown"
    /\ PhaseOf("queued") = "waiting" /\ PhaseOf("retry_wait") = "waiting"
    /\ PhaseOf("running") = "held"
    /\ PhaseOf("succeeded") = "succeeded" /\ PhaseOf("failed") = "failed"
    /\ PhaseOf("cancelled") = "cancelled"
BY DEF PhaseOf

\* Where the row of j alone gets a new status, so does its phase alone.
LEMMA PhaseStep ==
    ASSUME TypeOK, NEW j \in JobIds,
           \A k \in JobIds \ {j} : jobs'[k].status = jobs[k].status
    PROVE  /\ PhaseMap' = [PhaseMap EXCEPT ![j] = PhaseOf(jobs'[j].status)]
           /\ ChargeMap' = [ChargeMap EXCEPT ![j] = IF jobs'[j].status = "succeeded"
                                                    THEN 1 ELSE 0]
           /\ PhaseMap[j] = PhaseOf(jobs[j].status)
           /\ ChargeMap[j] = IF jobs[j].status = "succeeded" THEN 1 ELSE 0
BY DEF PhaseMap, ChargeMap

\* The pool's next-state relation and variables under the settled mapping.
PoolStep ==
    \/ UNCHANGED <<PhaseMap, workers, ChargeMap>>
    \/ \E j \in JobIds :
         \/ /\ PhaseMap[j] = "unknown" /\ PhaseMap' = [PhaseMap EXCEPT ![j] = "waiting"]
            /\ UNCHANGED <<workers, ChargeMap>>
         \/ \E w \in Claimants :
              /\ PhaseMap[j] = "waiting" /\ PhaseMap' = [PhaseMap EXCEPT ![j] = "held"]
              /\ workers' = [workers EXCEPT ![j] = w] /\ UNCHANGED ChargeMap
         \/ /\ PhaseMap[j] = "held" /\ PhaseMap' = [PhaseMap EXCEPT ![j] = "succeeded"]
            /\ workers' = [workers EXCEPT ![j] = None]
            /\ ChargeMap' = [ChargeMap EXCEPT ![j] = @ + 1]
         \/ /\ PhaseMap[j] = "held" /\ PhaseMap' = [PhaseMap EXCEPT ![j] = "failed"]
            /\ workers' = [workers EXCEPT ![j] = None] /\ UNCHANGED ChargeMap
         \/ /\ PhaseMap[j] \in {"waiting", "held"}
            /\ PhaseMap' = [PhaseMap EXCEPT ![j] = "cancelled"]
            /\ workers' = [workers EXCEPT ![j] = None] /\ UNCHANGED ChargeMap
         \/ /\ PhaseMap[j] = "failed" /\ PhaseMap' = [PhaseMap EXCEPT ![j] = "waiting"]
            /\ UNCHANGED <<workers, ChargeMap>>
    \/ \E S \in SUBSET JobIds :
         /\ \A j \in S : PhaseMap[j] = "held"
         /\ PhaseMap' = [j \in JobIds |-> IF j \in S THEN "waiting" ELSE PhaseMap[j]]
         /\ workers' = [j \in JobIds |-> IF j \in S THEN None ELSE workers[j]]
         /\ UNCHANGED ChargeMap

LEMMA StoreStepIsPoolStep ==
    ASSUME TypeOK, HeldWhileRunning, StoreStep
    PROVE  PoolStep
<1> USE PhaseOfStatus
<1>0. \A k \in JobIds : jobs[k] \in JobRows
    BY DEF TypeOK
<1>1. ASSUME \A k \in JobIds : PhaseOf(jobs'[k].status) = PhaseOf(jobs[k].status),
             \A k \in JobIds : (jobs'[k].status = "succeeded") = (jobs[k].status = "succeeded"),
             UNCHANGED workers
      PROVE  PoolStep
  <2>1. UNCHANGED <<PhaseMap, workers, ChargeMap>>
      BY <1>1 DEF PhaseMap, ChargeMap
  <2>2. QED
      BY <2>1 DEF PoolStep
<1>2. CASE UNCHANGED <<jobs, workers, audit>>
    BY <1>1, <1>2
<1>3. ASSUME NEW j \in JobIds, Inserted(j) PROVE PoolStep
  <2>1. jobs'[j].status = "queued" /\ jobs[j].status = "absent"
      BY <1>3 DEF Inserted, NewJob, NoJob, TypeOK
  <2>2. \A k \in JobIds \ {j} : jobs'[k].status = jobs[k].status
      BY <1>3 DEF Inserted, TypeOK
  <2>3. ChargeMap' = ChargeMap
      BY <2>1, <2>2 DEF ChargeMap
  <2>4. PhaseMap[j] = "unknown" /\ PhaseMap' = [PhaseMap EXCEPT ![j] = "waiting"]
      BY <2>1, <2>2, PhaseStep
  <2>5. QED
      BY <1>3, <2>3, <2>4 DEF PoolStep, Inserted
<1>4. ASSUME NEW j \in JobIds, NEW w \in Claimants, ClaimedBy(j, w) PROVE PoolStep
  <2>1. jobs'[j].status = "running" /\ jobs[j].status = "queued"
      BY <1>4, RowStatus DEF ClaimedBy, TypeOK
  <2>2. \A k \in JobIds \ {j} : jobs'[k].status = jobs[k].status
      BY <1>4 DEF ClaimedBy, TypeOK
  <2>3. ChargeMap' = ChargeMap
      BY <2>1, <2>2 DEF ChargeMap
  <2>4. PhaseMap[j] = "waiting" /\ PhaseMap' = [PhaseMap EXCEPT ![j] = "held"]
      BY <2>1, <2>2, PhaseStep
  <2>5. QED
      BY <1>4, <2>3, <2>4 DEF PoolStep, ClaimedBy
<1>5. ASSUME NEW j \in JobIds, NEW w \in Claimants, NEW outcome \in {"succeeded", "failed"},
             FinishedBy(j, w, outcome)
      PROVE  PoolStep
  <2>1. Finish(j, outcome) /\ jobs[j].status = "running"
      BY <1>5, NoneAssumption DEF FinishedBy, HeldWhileRunning
  <2>2. jobs'[j].status = outcome /\ \A k \in JobIds \ {j} : jobs'[k].status = jobs[k].status
      BY <2>1, FinishStatus
  <2>3. /\ PhaseMap[j] = "held" /\ PhaseMap' = [PhaseMap EXCEPT ![j] = PhaseOf(outcome)]
        /\ ChargeMap[j] = 0
        /\ ChargeMap' = [ChargeMap EXCEPT ![j] = IF outcome = "succeeded" THEN 1 ELSE 0]
      BY <2>1, <2>2, PhaseStep
  <2>4. workers' = [workers EXCEPT ![j] = None]
      BY <2>1 DEF Finish, ReleaseWorker
  <2>5. CASE outcome = "succeeded"
    <3>1. ChargeMap' = [ChargeMap EXCEPT ![j] = @ + 1]
        BY <2>3, <2>5
    <3>2. QED
        BY <2>3, <2>4, <2>5, <3>1 DEF PoolStep
  <2>6. CASE outcome = "failed"
    <3>1. ChargeMap' = ChargeMap
        BY <2>1, <2>2, <2>6 DEF ChargeMap
    <3>2. QED
        BY <2>3, <2>4, <2>6, <3>1 DEF PoolStep
  <2>7. QED
      BY <2>5, <2>6
<1>6. ASSUME NEW j \in JobIds, NEW w \in Claimants, RetriedBy(j, w) PROVE PoolStep
  <2>1. jobs[j].status = "running"
      BY <1>6, NoneAssumption DEF RetriedBy, HeldWhileRunning
  <2>2. PICK n \in Nat : jobs' = [jobs EXCEPT ![j] = Rescheduled(j, n)]
      BY <1>6 DEF RetriedBy
  <2>3. Rescheduled(j, n).status = "retry_wait"
      BY RowStatus
  <2>4. jobs'[j].status = "retry_wait" /\ \A k \in JobIds \ {j} : jobs'[k].status = jobs[k].status
      BY <2>2, <2>3 DEF TypeOK
  <2>5. ChargeMap' = ChargeMap
      BY <2>1, <2>4 DEF ChargeMap
  <2>6. PhaseMap[j] = "held"
        /\ PhaseMap' = [k \in JobIds |-> IF k \in {j} THEN "waiting" ELSE PhaseMap[k]]
      BY <2>1, <2>4 DEF PhaseMap
  <2>7. workers' = [k \in JobIds |-> IF k \in {j} THEN None ELSE workers[k]]
      BY <1>6 DEF RetriedBy, ReleaseWorker, TypeOK
  <2>8. \A k \in {j} : PhaseMap[k] = "held"
      BY <2>6
  <2>9. QED
      BY <2>5, <2>6, <2>7, <2>8 DEF PoolStep
<1>7. ASSUME NEW j \in JobIds, Extended(j) PROVE PoolStep
  <2>1. PICK n \in Nat : jobs' = [jobs EXCEPT ![j] = [jobs[j] EXCEPT !.leaseExpiresAt = n]]
      BY <1>7 DEF Extended
  <2>2. [jobs[j] EXCEPT !.leaseExpiresAt = n].status = jobs[j].status
      BY <1>0 DEF JobRows
  <2>3. \A k \in JobIds : jobs'[k].status = jobs[k].status
      BY <2>1, <2>2 DEF TypeOK
  <2>4. QED
      BY <1>1, <1>7, <2>3 DEF Extended
<1>8. ASSUME NEW S \in SUBSET JobIds, Reaped(S) PROVE PoolStep
  <2>1. \A j \in S : jobs[j].status = "running" /\ jobs'[j].status = "queued"
      BY <1>8, RowStatus DEF Reaped, Expired, Running
  <2>2. \A j \in JobIds \ S : jobs'[j] = jobs[j]
      BY <1>8 DEF Reaped
  <2>3. ChargeMap' = ChargeMap
      BY <2>1, <2>2 DEF ChargeMap
  <2>4. PhaseMap' = [j \in JobIds |-> IF j \in S THEN "waiting" ELSE PhaseMap[j]]
      BY <2>1, <2>2 DEF PhaseMap
  <2>5. \A j \in S : PhaseMap[j] = "held"
      BY <2>1 DEF PhaseMap
  <2>6. workers' = [j \in JobIds |-> IF j \in S THEN None ELSE workers[j]]
      BY <1>8 DEF Reaped
  <2>7. QED
      BY <2>3, <2>4, <2>5, <2>6 DEF PoolStep
<1>9. ASSUME Released PROVE PoolStep
  <2>1. \A k \in JobIds : \/ jobs'[k].status = jobs[k].status
                          \/ jobs[k].status = "retry_wait" /\ jobs'[k].status = "queued"
      BY <1>9, RowStatus DEF Released
  <2>2. QED
      BY <1>1, <1>9, <2>1 DEF Released
<1>10. ASSUME NEW j \in JobIds, Cancelled(j) PROVE PoolStep
  <2>1. jobs[j].status \in {"queued", "running", "retry_wait"} /\ Finish(j, "cancelled")
      BY <1>0, <1>10 DEF Cancelled, Cancellable, JobRows, Statuses
  <2>2. jobs'[j].status = "cancelled" /\ \A k \in JobIds \ {j} : jobs'[k].status = jobs[k].status
      BY <2>1, FinishStatus
  <2>3. ChargeMap' = ChargeMap
      BY <2>1, <2>2 DEF ChargeMap
  <2>4. PhaseMap[j] \in {"waiting", "held"} /\ PhaseMap' = [PhaseMap EXCEPT ![j] = "cancelled"]
      BY <2>1, <2>2, PhaseStep
  <2>5. QED
      BY <2>1, <2>3, <2>4 DEF PoolStep, Finish, ReleaseWorker
<1>11. ASSUME NEW j \in JobIds, Recovered(j) PROVE PoolStep
  <2>1. jobs'[j].status = "queued" /\ jobs[j].status = "failed"
      BY <1>11, RowStatus DEF Recovered, TypeOK
  <2>2. \A k \in JobIds \ {j} : jobs'[k].status = jobs[k].status
      BY <1>11 DEF Recovered, TypeOK
  <2>3. ChargeMap' = ChargeMap
      BY <2>1, <2>2 DEF ChargeMap
  <2>4. PhaseMap[j] = "failed" /\ PhaseMap' = [PhaseMap EXCEPT ![j] = "waiting"]
      BY <2>1, <2>2, PhaseStep
  <2>5. QED
      BY <1>11, <2>3, <2>4 DEF PoolStep, Recovered
<1>12. QED
    BY <1>2, <1>3, <1>4, <1>5, <1>6, <1>7, <1>8, <1>9, <1>10, <1>11 DEF StoreStep, SteadyStep

\* Under the accounting of OneCommitPerSuccess the mapping of the module
\* JobQueueRefinement is the settled one, before and after the step.
LEMMA QueueStepIsPoolStep ==
    ASSUME TypeOK, HeldWhileRunning, CommittedOncePerSuccess, CommittedOncePerSuccess',
           [Next]_vars
    PROVE  [Pool!PoolNext]_(Pool!poolVars)
<1> DEFINE C == [j \in JobIds |-> ledger[j].committed
                                    + Cardinality(Pending("success.stored", j))]
<1>1. C = ChargeMap
    BY DEF CommittedOncePerSuccess, ChargeMap
<1>2. C' = ChargeMap'
    BY DEF CommittedOncePerSuccess, ChargeMap
<1>3. PoolStep
    BY StoreStepLemma, StoreStepIsPoolStep
<1> HIDE DEF C
<1>4. QED
    BY <1>1, <1>2, <1>3 DEF PoolStep, Pool!PoolNext, Pool!poolVars, Pool!Admit, Pool!Take,
       Pool!Succeed, Pool!Fail, Pool!Cancel, Pool!Reopen, Pool!GiveBack, Pool!Leave, PhaseMap, C

\* The queue implements the pool of jobs: leases, retries, continuations and
\* idempotency change nothing in what a job may go through, who may hold it
\* and when it is charged.
THEOREM QueueImplementsPool == Spec => ImplementsPool
<1>1. Init => Pool!PoolInit
  <2> SUFFICES ASSUME Init PROVE Pool!PoolInit
      OBVIOUS
  <2>1. \A j \in JobIds : Pending("success.stored", j) = {}
      BY DEF Init, Pending
  <2>2. \A j \in JobIds : ledger[j].committed + Cardinality(Pending("success.stored", j)) = 0
    <3>1. \A j \in JobIds : ledger[j].committed = 0
        BY DEF Init
    <3>2. Cardinality({}) = 0
        BY FS_EmptySet
    <3>3. QED
        BY <2>1, <3>1, <3>2
  <2>3. QED
      BY <2>2 DEF Init, NoJob, PhaseOf, Pool!PoolInit
<1>2. QED
    BY <1>1, QueueStepIsPoolStep, TypeCorrect, Ownership, OneCommitPerSuccess, PTL
    DEF Spec, ImplementsPool, Pool!PoolSpec
=============================================================================

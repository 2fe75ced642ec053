# A verification project for Backend-Lembar

TLA+ models of the backend under `src/` (TypeScript on Node.js, Fastify, Drizzle over Postgres), the
TLC runs that check them on small instances, and theorems that TLAPS proves for every instance.
`PROJECT.json` lists components, runs, mutants, hazards, findings and theorems, and maps every
definition to the lines it models.

## Inventory

| Component | State | Operations | Status |
| --- | --- | --- | --- |
| Job queue facade (`QueueSpike.ts`) | idempotency records, reservation ids, quota ledger, effects, status trail, audit, dead letters | submit, claim, workOnce, completeClaim, heartbeat, reapExpiredLeases, failNextJobRetryable/Terminal, releaseRetryWait, requestCancel, manualRecover | modelled |
| Queue store (`memory-store.ts`) | job rows, claims | the compare-and-set updates the facade awaits | modelled with the facade |
| Retry policy (`backoff.ts`, failure classes) | none | computeBackoff, may a failure be retried | modelled |
| Notification dispatch (`NotificationService.ts`, `NotificationRepository.ts`) | outbox and audit tables, unique indexes | dispatch | modelled |
| Sessions and recovery (`AuthService.ts`, `PostgresAuthStore.ts`) | accounts, memberships, sessions, recovery tokens | login, logout, logoutAll, requestRecovery, completeRecovery, suspendMembership, switchWorkspace, requireSession | modelled but for the rate limit |
| Enrolment (same files) | accounts, memberships, invitations | register, createSchoolInvitation, consumeSchoolInvitation, suspendMembership | modelled |
| Marketing CMS (`MarketingOpsService.ts`, `MarketingRepository.ts`) | page row, immutable versions, public pointer, pool clients | saveDraft, publish, unpublish, restore, getPageForOps, public read with its validation | modelled; formats of strings are one flag |
| Curriculum catalogue (`CurriculumRepository.ts`, `VersioningService.ts`) | head rows, version tables, row locks | createDraft, updateDraft, publish, published catalogue | modelled |
| Product AI gateway (`ProductAiService.ts`, adapters) | runs, AI audit rows | run with its repair loop, mock and OpenAI adapters | modelled |
| Object storage | body and manifest files, signed URLs | put, head, get, delete, sign | not modelled |
| PDF rendering, Postgres and BullMQ queue stores | none | stubs that throw or return a fixed document | not modelled |
| Routes, configuration | none of their own | parsing, wiring | where they decide something |
| Bootstrap, worker process, smoke scripts, queue tables | none of their own | wiring, printing | not modelled |

How they interact. The HTTP routes call one service each. The auth service sends invitations and
recovery tokens through notification dispatch, inside its own transaction. A job queue facade calls
its store through promises only; workers, a reaper and the routes call the facade. Marketing,
curriculum and AI share nothing but the database, its pool and the error envelope.

What is hard, by component, and what makes it correct:

* **Queue.** Every `await` lets another call in, so look-up and insert of an idempotency key, choice
  and reservation of a job, and a row's update and its bookkeeping come apart. Workers crash before or
  after the provider call, leases expire, calls come late. Correct means: a running job has exactly one
  holder and a lease; a success had its effect and is charged once; nothing leaves a final state; a
  failed job comes back only through the audited command; no units leak.
* **Notifications.** Dispatches of one message run side by side in read-committed transactions, wait
  for each other in unique indexes, and lose to each other at the last statement, after the adapter was
  called. Correct means: outbox and audit agree and grow once per message; "duplicate" can be relied
  on; nobody waits for ever.
* **Sessions.** Rows are read, changed and written back whole, with awaits in between and no
  transaction. Correct means: a session that was ended stays out; a password that was
  replaced leaves no usable session; a recovery token serves once.
* **Enrolment.** Accepting an invitation is five statements in five commits, with a check at the start;
  registration repairs accounts that something else left half made. Correct means: an accepted
  invitation has an account and a membership behind it, a token serves once, and whoever is told that
  a registration went through has a workspace.
* **Marketing.** The revision is compared in JavaScript. `publish` opens a transaction on one client
  and runs its statements on others, each committed at once. Correct means: the pointer always names a
  version, versions never change, readers never go back, an editor acts on what it was shown, clients
  come back to the pool.
* **Curriculum.** The gate on source rights is outside the transaction, the version number is computed
  inside, and a catalogue is put together from several statements. Correct means: publishers of one
  item do not collide, a material's rights hold for the payload that is published, a reader's
  catalogues only advance.
* **AI.** A loop over answers that are wrong in different ways, with a row awaited in every round and
  an exception possible at each await. Correct means: the loop stops at the cap, the rows tell how the
  run went and account for every prompt.

## Modules

| Module | Models |
| --- | --- |
| `RetryPolicy` | backoff with jitter, retryable codes, attempt cap |
| `RetrySchedule`, `MCRetrySchedule` | a job failing again and again under that policy, for all small parameters |
| `JobQueue` | facade, store and event loop |
| `JobPool` | abstract specification: what the queue promises |
| `JobQueueRefinement` | the refinement mapping from `JobQueue` to `JobPool` |
| `MCJobQueue` | environments (sets of methods that are called) for TLC |
| `JobQueueProofs` | theorems about `RetrySchedule`, and about `JobQueue`: types, ownership, final states |
| `JobQueueOrder` | theorems about `JobQueue` that rest on the order of its continuations, and the refinement of `JobPool` |
| `NotificationDispatch` | dispatch, statement by statement |
| `NotificationProofs` | theorems about `NotificationDispatch` |
| `AuthSessions`, `MCAuthSessions` | sessions and recovery, statement by statement |
| `AuthSessionsProofs` | theorems about `AuthSessions` |
| `AuthEnrolment`, `MCAuthEnrolment` | registration and school invitations, statement by statement |
| `AuthEnrolmentProofs` | theorems about `AuthEnrolment` |
| `MarketingPayload` | what the public read accepts as a page |
| `MarketingCms`, `MCMarketingCms` | editors and readers of one page, statement by statement, and the clients of the pool |
| `MarketingCmsProofs` | theorems about `MarketingCms` |
| `CurriculumCatalog`, `MCCurriculumCatalog` | authors, publishers and readers of a chain of items |
| `PublishedLog` | abstract specification: a draft and an append-only log per item, and what readers are sent |
| `CurriculumRefinement` | the refinement mapping from `CurriculumCatalog` to `PublishedLog` |
| `CurriculumCatalogProofs` | theorems about `CurriculumCatalog`, and the refinement of `PublishedLog` |
| `ProductAi`, `MCProductAi` | the AI gateway with its adapters and configuration |
| `ProductAiProofs` | theorems about `ProductAi` |

### How the queue's state and actions correspond to the code

The store runs in one JavaScript process. A method runs without interruption to its first `await`;
the rest is a continuation at the tail of the microtask queue. So `JobQueue` keeps `microtasks`, a
FIFO sequence of continuations, and has one action per stretch of code between two awaits: the call
actions (`Submit`, `ClaimPick`, `Heartbeat`, ...) append, the others (`SubmitInsert`, `ClaimReserve`,
`CommitSuccess`, ...) run the head. Calls may start between any two continuations. That happens in the
code whenever two calls are made in one turn (`Promise.all`) or from different continuations, and it
is the interface's contract: the store is asynchronous because a database is to take its place.
`jobs` and `workers` are the store's rows, `idem`, `reservationIds`, `ledger`, `effected`, `trail`,
`audit` and `deadLetterIds` the facade's maps, `fakeNow` the injected clock. `granted` counts claims,
for the bound. Reports and ids are abstracted: a trail is its last entry, a ledger three counters.
A continuation that would do nothing is not queued, which changes no order.

### Notifications

`NotificationDispatch` has one action per statement of the transaction. Statements see what is
committed. Entering a key into a unique index waits while another open transaction holds it and fails
once it is committed; `held` is what a transaction has entered, `End` releases it. `handed` belongs to
the outside world and is not rolled back. `Fault` is a lost connection, a killed worker or an
exception of the adapter. Rendering, hashing and redaction are left out, since a message is identified
by what the dedupe key is made of.

### Sessions and enrolment

In `AuthSessions`, `Path` lists, for each operation, the statements it awaits, in the order of the
source; a call is at one of them and holds the copies of rows it has read. `SaveSession` and
`SaveUser` write whole rows back, as the upserts do. The clock is not modelled: any look at a session
or token may find its limit passed. Audit rows are written by a statement that may fail but nothing
reads them, so they are not kept. A membership is suspended by `suspendMember`, and saved as active by
the statement of `consumeSchoolInvitation` that ignores what it was (`SaveInvitedMembership`), at any
moment; the rest of that operation is in `AuthEnrolment`. The history
variables say what the properties speak of: `ended` and `completions`; `opened`, the password a session
was issued under; and what was done side by side: `overlapped`, the accounts that two calls in flight
were to save, and `raced`, the tokens that two recoveries in flight came with.

`AuthEnrolment` has the other half: accounts and memberships come into being and suspended members
are reactivated. `register` runs in a transaction, so its writes appear at `CommitAccount`; an account
that is inserted and not committed makes other inserts of that address wait (`Claimed`).
`consumeSchoolInvitation` has an action per statement, each committed at once. The mail of an
invitation is sent before its transaction commits, so a token may be used before its row is there.
`mailed`, `answered`, `acceptances` and `raced` say what outsiders were told, for the properties.

### Marketing

`MarketingCms` has one page. `Start` is the read of the row with which every edit begins, together
with the comparisons on it; the actions after it are the statements the call awaits. Each borrows a
client of the pool and gives it back; `held` are the clients that the transactions of `publish` keep,
on which nothing runs but `begin`, `commit` and `rollback`. So `RollBack` undoes no write. An editor
sends as If-Match the revision it was last shown (`seen`). The version number of a publish is computed
from the row that was read (`NewVersion`), and the unique index is `VersionTaken`. `ReadPublic` is one
statement and the validation of `MarketingPayload`: every array limit and object of the checked
payload is there, the formats of single strings are one flag per object.

### Curriculum

The six kinds of items differ in their columns and form one chain, so `CurriculumCatalog` has items
with a `Level` and a parent, materials at the last level. A head row is mutable and holds the draft;
`versions` are the committed version rows. `publish` is the gate of the service, `LockHead` (`select
... for update`), the second check, the number, the insert against the unique index, and the commit,
at which its writes appear; an edit waits for the lock. `createDraft` reads the parent in a statement
of its own. A reader's catalogue is a query for the curriculum and one query per level, in any order.
An entry of a catalogue keeps the payload and the head's columns, as the code sends both.
`PublishedLog` says what remains when locks, statements and failures are left out.

### Product AI

`ProductAi` starts from what `parseAiEnv` admits. A run is at a call of the adapter or at the insert
of a row; `Receive` is the code between the two. The mock adapter answers by template and attempt; an
OpenAI response is a status, whether its body is wrapped, and what the schema makes of its text.
`Raise` and `RecordFails` are the exceptions that leave the loop. `Tokens` sums the tokens of a run's
rows, as a recursive function on their number.

## Runs

| Run | Shows |
| --- | --- |
| `job_queue_all` | all methods, one job, two workers and the `failNext` caller, three calls in flight: ownership, charging, final states, audited recovery, respected claims, the refinement of `JobPool`; submissions complete and finished jobs are settled |
| `job_queue_workers` | two jobs of one workspace, methods of workers, reaper and routes: idempotency records and trail agree with the store, one job of a workspace at a time, quota settled once |
| `retry_schedule` | delays equal a one-cap reference, never shrink, and jobs are parked at the cap |
| `notification_dispatch` | outbox and audit one to one, once per message; "duplicate" is on record; waits in the index never close a circle; all dispatches are answered |
| `auth_sessions` | sessions ended by logout_all, recovery or suspension stay out, also of members made active again, and a replaced password leaves no usable session, unless two calls overlap in saving the account; a token completes one recovery, unless two overlap with it |
| `auth_enrolment` | accepted invitations are backed; a token is not replayed by calls that do not overlap; who was told of a registration has a workspace |
| `marketing_cms` | the pointer resolves, readers never go back, clients come back to the pool, edits that do not overlap act on what their editor saw |
| `curriculum_catalog` | publishers never clash, the rights of published materials hold, a commit is of the current head row, catalogues advance, and the refinement of `PublishedLog` |
| `product_ai` | rows tell the run and account for every prompt; every run ends |
| `job_queue_duplicate_submit` | *violated*: two overlapping submits with one key create two jobs |
| `marketing_republish` | *violated*: a page that was published and unpublished cannot be published again |
| `curriculum_draft_leak` | *violated*: after an edit the catalogue sends the draft's columns beside the published payload |

The violated properties quote a document of the repository; `PROJECT.json` "findings" says which line.
Every property of a passing run has a mutant: a plausible bug in a mapped definition under which TLC
finds that property violated. Type invariants are theorems (`TypeCorrect`) instead of properties of a run,
but for the one of `AuthSessions`, which says that a session has a workspace.

### Where code and documents disagree

The models contain all of the following; the first three are the violated runs above. No run states
what the documents say about the others: the properties that come near them say openly of which calls
they speak, or their run leaves the methods out.

* `QueueSpike.ts:90` against JOB-STATE-MACHINE.md:67: overlapping submits with one key.
* `MarketingOpsService.ts:177` against STATE-MACHINES.md:112: `unpublish` clears the number from which
  the next publish counts, the unique index refuses it, and the page answers 500 from then on.
* `CurriculumRepository.ts:448` against README.md:154, ADR B1-04:23-24 and 92-93, and
  versioning.test.ts:155-157 (a test that is skipped without a database): the catalogue sends the
  columns of the mutable head row beside the published payload, so a draft appears in it.
* `QueueSpike.ts:255` against BILLING-QUOTA-SPEC.md:62-65: a recovered job is charged although its
  units were released and not reserved again.
* `QueueSpike.ts:248` against JOB-STATE-MACHINE.md:130: cancelling a job whose effect has happened
  (its worker died before the commit) releases its units.
* `NotificationService.ts:85` against ADR B0-09:22: a rejected message is marked sent, and later
  dispatches of it are answered "duplicate".
* `AuthService.ts:453` against FRD-MVP.md:56: a switch of workspace in flight writes back the session
  row that a logout has revoked meanwhile.
* `AuthService.ts:303` against README.md:126 and AUTH-TENANCY-SPEC.md:147, and `:384` against
  README.md:126, AUTH-TENANCY-SPEC.md:139 and FRD-MVP.md:73: a token is checked some statements before
  it is consumed, so two overlapping requests complete a recovery, or accept an invitation, with one
  token that the documents call single-use.
* `AuthService.ts:249` against AUTH-TENANCY-SPEC.md:84, which asks for a version check after logout-all
  and suspension: of two calls that save an account at one time the later one writes back the row
  it read, so a version or a new password is lost and a session that was ended counts again.
* `AuthService.ts:180` against AUTH-TENANCY-SPEC.md:11-12 and :47: two overlapping calls that both find
  no active membership create a personal workspace each.
* `MarketingOpsService.ts:110` against ADR 001: two editors with the same revision both save, and one
  draft is lost.
* `CurriculumRepository.ts:188` against ADR B1-04:59-61: the conflict on the unique index that the
  decision describes does not occur, as publishers wait for the row lock. `PublishersSerialised`
  proves it.
* `ProductAiService.ts:133`: an adapter that raises leaves a run without a last audit row, where the
  header of the file (:15) says "one `ai_jobs_audit` row regardless of outcome". `timeoutMs` is parsed and used nowhere.

### What the passing runs assume

`job_queue_workers` leaves out the failure and recovery methods: with `releaseRetryWait` between the
choices of two claims two jobs of a workspace can run, and with `failNextJobTerminal` a job that is
cancelled while held is released twice. In `auth_sessions` every operation overlaps every other, and
three properties say of what they do not speak: `EndedStaysOut` and `NoSessionOfOldPassword` of accounts
that two calls in flight were to save (`overlapped`), since of two such calls one loses its update, and
`TokenCompletesOnce` of tokens with which two recoveries were in flight (`raced`), since both go
through. `SerialEditsSeeTheirBase` and `TokenNotReplayed` speak of edits and acceptances that did not
overlap; the others of their runs hold for every interleaving.

### Bounds

Jobs: one or two, enough for a duplicate and for two jobs of one workspace. `MaxInFlight`: two or three
continuations pending when a call starts, so a claim, a cancellation and a late completion of one job
meet. `MaxAttempts = 2`, `MaxClaims = 2`, `MaxTime = 2` with a lease and a margin of one: a lease is
held, in its margin, and expired; a job is retried, reaped and parked. Three dispatches of two messages
under two event ids cover a duplicate by event, by message and by both, with a third that waits. Two
calls over two session ids cover every pair of operations; a third call adds only further readers.
Versions up to three hold two changes of version. Once two savers have overlapped on the one
account, its sessions are no longer spoken of, and the constraint `Watched` of `MCAuthSessions` follows
such a state only while a token is left to watch and only savers run. One workspace is enough as no
property compares two.

`auth_enrolment`: three requests on an administrator, one other address and one token, so that a
registration, an acceptance and a suspension of the same person meet; two personal workspaces, so that
two calls can each create one. `marketing_cms`: two editors, `MaxRevision = 4` and `MaxVersion = 2`: a
page is published, edited, published again, withdrawn and restored, by two editors at once. A pool of
three is one more than the editors, the least with which no statement waits for ever. Three drafts: a
good one, one the public read refuses, one above the size limit. `marketing_republish`: one editor.
`curriculum_catalog`: one item of each of three levels, two publishers with three versions in all,
so that two publications of one item overlap and a third follows. `product_ai`: one run, as runs share
nothing but the table they append to; the repair cap at both ends of its range, next to them outside
it, in between and unset; seven calls are one more than the highest cap admits.

One statement fails in each of the runs with faults, at any point. All bounds are constants and guards
of the actions, but for `Watched`. Symmetry is used over interchangeable calls, editors and workspaces, and never in a
run with a liveness property.

### Fairness

`JobQueue!FairSpec`: `WF(RunTask)`, as the event loop drains its microtasks before anything else. No
caller is assumed to call. `NotificationDispatch!FairSpec`: each open dispatch takes its next statement
when it can, as the database and the adapter answer; a waiting statement is not enabled, so that
waiting ends is shown and not assumed. `ProductAi!Spec`: a run that has called the adapter or sent a
row gets an answer or an exception; the code sets no timeout, so a transport that never answers is
excluded by assumption. The other modules have no liveness property: with publishes that wait for
pool clients, and calls that may fail at any statement, the code promises none.

`CHECK_DEADLOCK FALSE` stands where a bounded environment really comes to rest: all dispatches
answered, all session ids, versions, tokens or runs used.

## Theorems

Each holds for every value of the constants that the named assumptions of the modules admit: ids and
limits are naturals, `None` is none of the values it stands beside, and a curriculum has at least two
levels. A hypothesis beyond these is written in the theorem (`ASSUME ... PROVE`) and named below.
`Spec => []Inv` is proved from an inductive invariant: it holds at the start, one lemma per action (or kind of action) keeps it, and it implies `Inv`.

About `RetrySchedule`, for all options, attempts and failure codes, in `JobQueueProofs`:

* `DelaysCapped` (`DelayIsCappedOnce`), by the lemma `OneCap` on `ComputeBackoff`, which holds whatever
  the power of two is; and `ParkedInTime` (`ParkedAtTheCap`), as a job that is not parked has attempts
  left (`ScheduleInv`). `NotParked` is assumed to be no failure code.
* `DelaysGrow` (`DelaysNeverShrink`), by the lemma `BackoffGrows`. It needs that `2 ^ n` grows with `n`
  and is a natural, which no prover knows: `PowersGrow` reads it off the sizes of the power sets of
  `1 .. n`, about which the library has theorems.

About `JobQueue`, for every set of jobs, workers, keys and methods, in `JobQueueProofs`:

* `TypeCorrect`: `Spec => []TypeOK`. Each point of the event loop has a lemma that types what its
  continuation carries, each action one step.
* `Ownership`: `Spec => []HeldWhileRunning`. The invariant is inductive together with `TypeOK`. The
  lemma `StoreStepLemma` first reduces every action to one of the few things that can happen to a
  job's row and claim (nothing, insert, claim, finish, reap, retry, cancel, recover), and `HeldStep`
  shows that each of them preserves it.
* `FinalStates`, `AuditedRecovery`, `ClaimRespected`: the action properties `FinishedStaysFinished`,
  `FailedLeavesAudited` and `ClaimIsRespected`, from the same reduction; the last one needs
  `HeldWhileRunning`, since a claim without a lease could not be respected.
* `EffectBeforeSuccess`: `Spec => []SuccessIsEffected`.

In `JobQueueOrder`, where a fact about a job is first promised by a task in the microtask queue and
becomes true when the loop reaches the task. Each step pushes one task, pops one, or pops one and
pushes its successor (`Pushes`, `Pops`); the lemmas about these say how a promise moves towards the
head.

* `DuplicatesAreReserved`: `DuplicateFindsReservation`. `ReplyInv`: an idempotency record whose
  reservation id is not there yet has the task that assigns it in the queue, and that task stands
  before every duplicate that has found the record. So FIFO order is what the property rests on.
* `OneAtATime`: `OneRunningPerWorkspace`, where `releaseRetryWait` and `manualRecover` are not called.
  `OrderInv`: the jobs of a workspace start in the order of their ids. A running job, and one that a
  claim has picked and not yet reserved, have only stopped jobs before them (`Eldest`), and with those
  two methods excluded a stopped job never starts again.
* `TrailFollows`: `TrailEndsInStatus`, where the `failNext` methods are not called. `TrailInv`: of the
  entries still to be written about a job, the last says the status of its row; when none is pending
  the trail says so already.
* `OneCommitPerSuccess`: `CommittedOncePerSuccess`, in every environment. `ChargeInv`: before a job
  succeeds nothing is queued that would charge it; afterwards it has been charged once and nothing is
  queued, or exactly one task in the queue is to charge it.
* `QuotaAccounted`: `NoQuotaLeak`, in every environment: whoever finishes a job leaves the task that
  settles its units.
* `SettledAtMostOnce`: `QuotaSettledOnce`, where the `failNext` methods are not called (`UnitsInv`,
  with `NoFailers`: no pending claim is one of theirs).
* `QueueImplementsPool`: `Spec => ImplementsPool`, the refinement of the abstract pool. Every kind of
  step of `StoreStepLemma` maps to one action of `JobPool` or a stutter. The charge of the pool is
  proved in the settled form `ChargeMap`, and `CommittedOncePerSuccess` says that it is the ledger's
  commits, queued ones included.

The three hypotheses on the environment are those under which `job_queue_workers` checks the
properties; outside them the properties fail, which the section above describes.

About `NotificationDispatch`, for any number of dispatches, messages, events and faults:

* `TypeCorrect`, `OneAuditPerMessage` and `DuplicatesAreOnRecord`, from `InductiveInvariant`. A
  dispatch holds just the index entries that its statement implies (`HeldByStep`); no entry is held
  twice or both held and committed (`Exclusive`), which is what waiting in the index gives; past the
  adapter the message has been handed over (`KnownByStep`); rows are of transactions that ended
  (`RowsOfEnded`). A commit is where the four meet: it adds rows only under keys that nobody else has.
* `NoCircleOfWaits` (`WaitsAreShort`), from the same invariant. A transaction waits first for an event's
  entry and later for a message's, and who holds an entry of a message only has to commit
  (`HolderIsAt`). So a wait has one open transaction behind it, and after two waits there is one that
  goes on. This is the safety half of `EveryDispatchAnswered`.

About `AuthSessions`, for any number of requests, accounts, sessions and tokens:

* `TypeCorrect` (`TypeOK`). `Sound` says what a request has read by the statement it is at; it is
  kept as rows of sessions and tokens are never taken away (`Kept`).
* `OldPasswordShutOut` (`NoSessionOfOldPassword`) and `EndedSessionsStayOut` (`EndedStaysOut`), for
  `Enders` among the operations that save an account and for any number of savers. Of the accounts outside
  `overlapped`, one saver at a time is what `Apart` says, proved of every step and not assumed; on the
  others savers may overlap as they like beside it. `SessionInv`: no session is ahead of its account and
  one that is level with it was issued under the account's password (`NotAhead`), an ended one is
  behind it (`Stale`), and a request's copies are what the rows say, a login's old copy included
  (`Faithful`). So a suspension's version is not taken back by a sign-in, nor by an invitation that
  makes the member active again at any moment. The switch in flight that writes a revoked session back
  is harmless because it writes the old version; that is also why a plain logout or login, which saves
  no version, cannot be in `Enders`.
* `TokensRedeemedOnce` (`TokenCompletesOnce`), with no further hypothesis. `TokenInv`: a token outside
  `raced` has completed nothing while a recovery with it is past its check and not over, and is consumed
  once one has completed, so a later recovery fails the check; `Apart` says that there is one at a time,
  and a failure after the new password is saved completes nothing.

About `AuthEnrolment`, for any number of requests, addresses and tokens:

* `TypeCorrect`, `AcceptedBacked` and `AnsweredSettled`. `CallsSound` says what a request may rely on
  at each statement: the address of the invitation it has read, the account from `saveMembership` on,
  the membership from `acceptInvitation` on. It is kept because accounts and memberships are only
  added (`Grows`), never removed; a suspension changes a row and does not delete it. Only two
  statements write invitations (`InvitationWritten`).
* `TokensAcceptedOnce` (`TokenNotReplayed`): `Orderly` says of a token that no two calls were
  consuming at one time that it has at most one consumer, that nothing has been accepted with it while
  the consumer is between its check and its save, that an acceptance or its audit comes after the row
  says accepted, and that the row is created once, before all of that.

About `MarketingCms`, for any number of editors, readers and clients:

* `TypeCorrect`, and `ClientsReturn` for `ClientsComeBack`, which is inductive with the types.
* `PointerResolves` and `ReadersAdvance`. The invariant `PublicInv` says that versions are numbered
  without gaps, that whatever number a page row holds or a call has read exists, that a publish that
  has inserted its row and not yet moved the pointer has inserted the newest number and is the only
  one there, and that a cached document is a version row, not newer than the public one. The unique
  index is what makes it inductive: it refuses the number that an unpublish makes publish count anew.
* `SerialEditsAreSafe` (`SerialEditsSeeTheirBase`). While no two edits have overlapped, one call runs
  at a time, a revision an editor was shown that is still the page's names the draft it was shown
  (`ShownIsCurrent`), and the row of a call that has not edited yet is the page (`RowIsCurrent`).

About `CurriculumCatalog`, for every chain of items, any number of calls and levels:

* `TypeCorrect`, `PublishersSerialised`, `RightsHold` and `CommitIsCurrent`, from one invariant
  `CatalogInv`: one publication at a time is past the lock of an item, it holds the head row as it is,
  the version table has no gaps, the number of a publication about to insert is the next one, and what
  is past the second check has approved rights. `MoveStep` reduces the steps inside a transaction to
  one lemma; `CommitStep` is the only place where tables change.
* `CatalogueAdvances`: the action property `CatalogAdvances`. `ReaderInv` says of a reader's rows that
  they are of levels already read, name existing versions with their payloads, and are not older than
  what it was sent before; `Latest`, that a pointer is at the newest version of its table, makes every
  row a query finds at least as new.
* `CatalogueImplementsLog` (`ImplementsLog`): `Spec => LogSpec` under the mapping of
  `CurriculumRefinement`. A commit is `Publish`, as the lock keeps the row it holds current, the second
  check was on that row, and the number is the next one (`CommitEffect`, `NextLine`); an insert and an
  edit of a head are `Write`; the last level of a reader is `Send` (`LevelReadIsSend`), from
  `ReaderInv`; every other step is a stutter. `Sequenced` says that version tables are sequences.

About `ProductAi`, for any number of runs, every admitted configuration and any answers:

* `TypeCorrect` and `RowsTellTheRun` (`TrailTellsTheRun`). `Fits` relates a run to its rows by where
  it is: at a call there are as many rows as repairs and calls made; with a row to insert, one call
  more, and the row is the next repair, within the cap, or the last; a run that is done has all its
  rows or was given up with the repairs it had.
* `PromptsAccounted` (`TokensCoverCalls`): the sum over a run's rows is at least the number of its
  calls. A row accounts for one prompt or more (`Charged`), so the sum over `n` rows is at least `n`
  (`TokensCoverRows`). This is an induction on `n`. The library's induction theorems take a predicate;
  here the set of those `n` for which it fails is given a least member (`Induction`), by the theorems on
  well-founded orders, which take sets only.
* `RepairLoopRunsOut`: the safety half of `RunsEnd`. Every step of a run that is not done lowers
  `Left(run, cap)`, a natural of at most `2 * cap + 3`, and no step of another touches it. What
  `RunsEnd` adds is that the steps are taken.

Only model-checked are the four liveness properties, as the prover has neither fairness nor `ENABLED`:
`SubmissionCompletes` and `FinishedIsSettled` of the queue, `EveryDispatchAnswered`, whose safety half
is `NoCircleOfWaits`, and `RunsEnd`, whose safety half is `RepairLoopRunsOut`. Every other property of a
passing run is stated by a theorem, under the hypotheses named above.

## Not modelled

* Object storage. Body and manifest are two files without an order that a crash respects, but nothing
  under `src/` stores an object except a smoke script, so no caller's sequence is there to model.
* `bumpRateLimit`: a counter read and saved across an await. Overlapping requests count once; the code
  promises nothing that a property could hold it to beyond that.
* `completeRecovery` for an account without an active workspace throws after the password is saved;
  `releaseRetryWait` ignores the delays of the backoff; `restore` compares no revision; `listVersions`
  never reports more at its limit. They are visible in the source and have no document to be held to.
* `CURRICULUM_SOURCE_RIGHTS_ALLOWLIST` is parsed and used by no gate; `Approved` stands for
  the list in the code.
* Stubs, parsing, wiring, printing and the in-memory auth store of the tests.

## Plan

1. Composition of `AuthEnrolment` and `AuthSessions` over all that they share. `AuthSessions` has the
   one statement of an acceptance that its sessions could notice; the accounts that enrolment creates
   could be the ones that sign in.
2. Object storage, once the application uses it.

# Verification of the form-submission service

TLA+ models, TLC configurations and machine-checked proofs for the service in
`src/`: two web applications (Flask and FastAPI) over one service layer, one
database, one Redis queue and a Celery worker. A form is saved by the request
itself (synchronous) or by the worker (asynchronous), at most once for each
lifetime of its idempotency key.

## 1. Inventory

| Component | State it keeps | Operations | Talks to |
| --- | --- | --- | --- |
| Submission store, `shared/services.py` | table `submissions`, unique nullable `idempotency_key` | `_persist_submission`, `_release_expired_key`, `list_submissions` | called by sync requests and workers |
| Key claims, `shared/services.py` | table `idempotency_claims`, primary key = key | `enqueue_submission_async`, `_enqueue_with_claim`, `_take_over_expired_claim`, `_classify_existing_claim` | reads and writes task statuses, publishes to the queue |
| Synchronous requests, `shared/services.py` | none of their own | `create_submission_sync`, `_reject_if_claimed_elsewhere` | read claims and statuses, then the submission store |
| Task status store, `shared/task_status.py` | table `task_statuses` | `mark_task_queued`, `record_task_status`, `get_task_status` | called by requests and workers, read by the browser |
| Worker task, `worker/tasks.py` | `_db_ready` per process, retry count in the message | `save_async_submission_task` | queue, submission store, status store |
| Queue, Redis and Celery (external) | waiting and unacknowledged messages | publish, deliver, acknowledge, redeliver | web processes and workers |
| Idempotency keys and client identity, `shared/idempotency.py`, `shared/rate_limit.py`, `nginx.conf` | none | sanitize, resolve, scope, fingerprint, `is_expired`, `trusted_client_identifier` | routes and services |
| Rate limiter, `shared/rate_limit.py` | Redis counters, process-local buckets, cached client and back-off | `enforce_rate_limit` | called by both POST routes before anything else |
| Routes, `flask_app/`, `fastapi_app/` | the hidden key in the visitor's form | GET form, POST sync and async, GET status, GET submissions | services |
| Poll loop of the async form, in the templates | attempts and the text shown, in the browser | `poll`, `handleStatus`, `scheduleNext`, `finishCapped` | status endpoint |
| Validation, `shared/validation.py` | none | `validate_submission_payload` | services; run by the request and again by the worker |
| Logging, tracing, nginx, migrations, containers | - | - | - |

What makes the system hard is that no operation spans one transaction. A save
finds, releases, inserts and looks again; an enqueue claims, marks and
publishes; a worker records, saves and records; and between any two of these
other requests, a second copy of the same message, the clock or a crash may
come. The status table is written best-effort and by several processes at
once. Keys expire while they are in use, and claim and submission of one key
expire at different times. A visitor posts a form again while the first POST
still runs, and goes on with the form of whichever page answered last.

What must hold, per component:

- submission store: one row per key per lifetime; a caller is given a row only
  if it holds its own key and payload; a refusal is justified; a key leaves its
  row only after the lifetime;
- claims: one live task per key per lifetime, for all races to insert, take
  over and move the claim; the claim describes its owner; a replay is given the
  task of an equal request that is done; whatever goes wrong blocks a key
  for one lifetime and no longer;
- status store: terminal rows never change, columns are never mixed, the
  statements amount to indivisible writes, some of them lost;
- worker: no accepted task is lost, each saves once per lifetime, `processed`
  means saved, `queued` means that no run has come as far as its save, every
  task settles in the end;
- status page: its last word stands, it stops;
- routes: one form is saved once, however often it is sent; clients that pick
  the same key do not meet;
- validation: the verdict is that of the rules, and the worker, which validates
  the normalized values once more, comes to the same one;
- rate limiter: no store lets twice the limit pass in one window, a refusal is
  earned, and a refused client is served again;
- whole system: what clients are told agrees with what is saved.

`PROJECT.json` lists every component with its status, and under `hazards` each
line of the code where these properties could be lost.

## 2. Modules

| Module | Models | Form |
| --- | --- | --- |
| `RequestData` | keys, payloads | constants |
| `Environment` | the clock, `is_expired`, the count of failures | variables shared by the components |
| `TaskRows` | a row of `task_statuses` and what one write does to it | pure operators |
| `TaskLifecycle` | what the status store promises: indivisible writes | abstract specification |
| `TaskStatus` | `shared/task_status.py` statement by statement | specification; implements `TaskLifecycle` |
| `IdempotentStore` | what the submission store promises: each call is decided at one instant | abstract specification |
| `Submissions` | `_persist_submission` transaction by transaction | component, used by five specifications; implements `IdempotentStore` |
| `SubmissionStore` | the submission store on its own, arbitrary callers | specification |
| `Broker` | the queue | component (external) |
| `AsyncWorker` | `save_async_submission_task` | component |
| `WorkerPool` | workers, store, statuses and queue; requests reduced to publishing and marking their task | specification |
| `StatusPage` | the script of the async form over `WorkerPool` | specification, with liveness |
| `KeyLeases` | what the claims promise: a key has one holder at a time, for a lifetime | abstract specification |
| `Claims` | `enqueue_submission_async` statement by statement | component; implements `KeyLeases` |
| `ClaimDesk` | claims, statuses and queue; workers reduced to status writes | specification |
| `SyncRequests` | `create_submission_sync` | component |
| `FormService` | everything behind the routes: sync and async requests, workers, one database, one queue | specification |
| `ClientKeys` | the headers nginx sets, `trusted_client_identifier`, sanitizing, resolving and scoping a key | pure operators |
| `FormPages` | the routes of either app and the visitors who use them, over `FormService` | specification; implements `FormService` |
| `RateLimit` | `shared/rate_limit.py` for one client and one endpoint, command by command | specification, on its own |
| `Validation` | `shared/validation.py`, run by the request and again by the worker | specification, on its own |
| `PartsProofs` | lemmas about the store, the status table, the claims and the workers, in any composition | proofs |
| `TaskStatusProofs`, `SubmissionStoreProofs`, `ClaimDeskProofs`, `StatusPageProofs`, `RateLimitProofs`, `ValidationProofs` | theorems about the specification of that name | proofs |
| `FormServiceProofs` | theorems about `FormService` and `FormPages` | proofs |
| `MC*` | instances for TLC | |

A component module declares its variables and its actions; a specification
module extends the components it needs, says what each of their actions leaves
alone, and has `Init`, `Next`, `Spec`. `FormService` composes `SyncRequests`
(over `Submissions` and `Claims`) with `AsyncWorker` (over `Submissions`,
`TaskLifecycle` and `Broker`), and any key and payload may arrive. `FormPages`
extends it with the routes and `ClientKeys`: its `PagesSpec` has the visitors
before the same services, and only what a visitor's page can send arrives.
`StatusPage` extends `WorkerPool`, because a page only reads statuses of tasks
that run.

### How state and actions correspond to the code

- `submissions` is the table in the order of its ids. `born` and `origin` are
  history: under which key, and for whom, the row was inserted. `persist[c]` is
  where caller `c` is in `_persist_submission`: `find`, `release`, `insert`,
  `refind` are statements still to run, the other values the ways it ends
  (`saved`, `mismatch`, `integrity`, `unavailable`). The unique index is the
  guard of `InsertRow`; an insert it refuses is `InsertRefused`.
  `InsertedButUnavailable` is a commit that succeeded and is reported as failed.
- `SavedRows` and `Calls` are what `IdempotentStore` sees of the two: a row
  stays under the key it was born with, and a caller with statements left has
  asked and knows nothing yet. `ImplementsIdempotentStore` says that, seen so,
  each insert is one decision to save, each answer one look at the row saved
  last under the key, and every other statement a stutter.
- `Holders`, `Leases`, `FailedTasks` and `PublishedTasks` are what `KeyLeases`
  sees of claims, requests, statuses and the queue. A takeover that finds the
  claim expired, and the `UPDATE` that decides whether it wins, are two
  statements of the code; seen so, the key changes hands in the `UPDATE`.
- `rows` in `TaskStatus`, `taskStatus` elsewhere, is the table `task_statuses`;
  a missing row is the row `Absent`. `call[w]` is the next statement of
  `record_task_status` or `mark_task_queued`. An `UPDATE` with its `WHERE` is one
  action. A failing statement, and a death, is `WriteFails`.
- `claims` is the table `idempotency_claims`; `req[t]` is a call of
  `enqueue_submission_async`, named by the task id it draws. `seen` is the claim
  it read, which decides later statements; `lease` is history. Both conditional
  `UPDATE`s share the guard `StillAsSeen`, which is also their test of
  `rowcount`.
- `worker[w]` is a worker's message and how far it is: `received`, `saving`
  (inside `_persist_submission`), `retry`, `ack`. `ready[w]` is `_db_ready`.
- `queue` holds waiting messages. Delivery takes any of them; retries may be
  delivered before or after anything else, so the back-off delay needs no clock.
- `counter` in `RateLimit` is the Redis key of the client, `bucket[p]` its entry
  in the memory of process p, `client[p]` the cached connection and the seconds
  of back-off left. `check[p]` is the next Redis command of
  `enforce_rate_limit`; each may raise with or without being carried out.
  `watched` and `passed` are history: one store, any of them, and the ages of
  the requests it counted as within the limit.
- `unopposed` in `ClaimDesk` is history: requests that met no claim within its
  lifetime and share their key with no other request under way.
- `dropped`, `unrecorded` and `gaveUp` in `AsyncWorker` are history: tasks whose
  retry could not be published, that lost a status write, and whose run ended
  with a failure that is not tried again (conflict, `IntegrityError`, no tries
  left). `RetryLost` is the publish of a retry that fails.
- `page[v]` in `FormPages` is a visitor's form: the hidden key it holds, the key
  it sent last and the request whose answer it waits for. `issued` is what
  `generate_idempotency_key` has returned; `renewed` is history: the answers
  that came with a fresh key. `Post` hands a key to the service as the route
  does, resolved from header and form and scoped with the client's address.
- `unmarked` in `WorkerPool` holds the tasks of requests without a key between
  their publish and their `mark_task_queued`, which may come after any step of
  the workers (`MarkPublished`) and overwrites nothing (`Marked`). A request with
  a key marks before it publishes, when no worker has the task, so the two are
  one step (`EnqueueKeyed`). `RequestsFor` says what a request may carry. A page is
  opened after its request is over: the browser learns the task id from the
  answer.
- `poll[t]` is the script on the page of task t: `fetch` and `reply` are before
  and after the status is read, `shown` is the text on the page. The status may
  move on between the two.
- `sync[s]` is a call of `create_submission_sync`; checking the claim, reading
  the owner's status and saving are separate steps.

### Abstractions

- One clock stands for those of all hosts. It counts in fractions of the key
  lifetime `TTL`.
- A payload is a value compared for equality; the fingerprint is an injective
  function of it (SHA-256 without collisions), and so is the scope of a key of
  client and value. A key is what reaches the service after sanitizing and
  scoping; a task id used as a key is a key. `uuid4` never returns a value twice.
- A header value either matches the key pattern or does not; which characters
  it has is not modelled. A character of a name counts by its kind: letter,
  space, hyphen, apostrophe, other. `email_validator` is external: a function
  `Canonical` from the addresses it accepts to their normal form, which it
  leaves alone when it meets it again.
- A fetch of the page may end as "unreachable", whatever the cause.
- Reads and writes of one statement are atomic, and a transaction that has not
  committed is not seen (read committed). The transactions of the code hold one
  write each, so a transaction is its statement.
- In the composed specifications a status write is one step that happens or is
  lost. `TaskStatus` shows that the statements of the code amount to that.
- Equal copies of a message that wait at the same time count as one. A second
  copy still meets the first in another worker, or waits while it runs.
- A retry is published before the message is acknowledged. The publish may fail;
  then the message is rejected and the task dropped.
- Rate limiting and validation come before the modelled calls and change none of
  the modelled state. In `FormPages` their answers, 429 and 400, may come at any
  POST (`TurnedAway`); elsewhere they are left out.
- `RateLimit` counts whole seconds that are left, so neither the clock nor the
  failures are bounded. A web process serves one request at a time (a gunicorn
  sync worker; an event loop whose handlers do not await inside the limiter),
  so the module globals are not shared by threads. `Limit` and `Window` are
  positive: a limit of zero or less turns the limiter off.
- A process death is modelled where it matters: inside a save, inside a
  worker's run, inside a request. Each infrastructure failure counts against
  `MaxFaults`.

## 3. Runs

Bounds are named constants: `MaxTime` (the clock stops), `MaxFaults` (failures
per run), `MaxRetries` (3 in the code, 1 here: a first try and the last one),
`MaxRows` (no call starts on a fuller table).

| Run | Instance | Shows |
| --- | --- | --- |
| `task_status` | 3 writers, 1 task | `TerminalIsFinal`, `ColumnsOfOneWrite`, and the refinement `Implements`. Rows are independent, so one task is enough; three writers are the request, the worker and a worker with a second copy. |
| `submission_store` | 3 callers, 1 key or none, 2 payloads, `TTL` 2, `MaxTime` 4, 1 fault, calls start below 2 rows | `OneRowPerKeyWithinTtl`, `SavedRowIsMine`, `MismatchIsReal`, `OnlyExpiredKeysAreReleased`. The key expires twice. Three callers are one that wins, one that loses, one that releases. |
| `worker_pool` | 2 workers, 2 tasks, 1 client key or none, 2 payloads, `TTL` 2, `MaxTime` 2, 2 faults | `TaskSavesOncePerLifetime`, `ProcessedMeansSaved`, `NoAcceptedTaskLost`, `QueuedMeansWaiting`. Two faults are, for instance, a second copy and a crash. A request without a key marks its task before, during or after its runs. |
| `status_page` | 1 worker, 2 tasks: the one whose page is opened has the client key or none, the other has that key, with the same payload or another; 3 attempts (30 in the script), `TTL` 1, `MaxTime` 0, 2 faults | `FinalWordStands`, and under `FairPollSpec` `PollingEnds`, `AcceptedTasksSettle`, `StatusTellsTheEnd`. Three attempts see every text and the cap; the key does not expire, which the page cannot tell. The page's task may so be the first under its key, the second, in conflict, or on its own with a late mark. |
| `claim_desk` | 3 requests, 1 key or none, 2 payloads, `TTL` 2, `MaxTime` 3, 1 fault | `OneTaskPerKeyWithinTtl`, `ClaimDescribesOwner`, `ReplayIsFaithful`, `RefusedForAnother`, `LifetimeFreesTheKey`, and the refinement `ImplementsKeyLeases`. Three requests: an owner and two that race for its claim. |
| `form_service` | 2 async requests, 1 sync request, 2 workers, 1 key, 2 payloads, `TTL` 2, `MaxTime` 2, 1 fault | `DoneAnswersAreBacked`, `AcceptedIsRemembered`, `ConflictIsReal`, and the refinement `ImplementsIdempotentStore` with web requests and workers as callers |
| `form_pages` | Flask; a browser with the async form and a malformed header, a kiosk with the sync form at the same address, a program elsewhere with a key in its header; 3 events (`MaxEvents`: POSTs that reach the services and moves of the clock), 2 key values, 1 worker, no retry, 1 fault, `TTL` 1, `MaxTime` 1 | `OneRowPerForm`, `ClientsApart`. Three POSTs are a double submit and one after its answer; two and a tick, a form sent again after its key has expired. |
| `rate_limit` | 2 processes, 2 requests in a window of 2 seconds, any failures, no bound on time | `NeverTwiceTheLimit`, `RefusalIsEarned`, and `LimitLifts` under `FairSpec`. Two requests are the fewest with which a stretch of one window can hold more than the limit (3 here: the last of one window and both of the next). |
| `validation` | every first name of up to 5 characters of the five kinds, names of 2 to 4 characters allowed (2 to 50 in the code), one e-mail address of each sort | `VerdictIsRight` (the code's order of checks against the rules stated at once), `SpacingIsForgotten`, `WorkerAgrees`. Five characters are one more than is allowed, and enough for runs of spaces inside and around. |

Each run but `validation` and `form_service` also checks a type invariant;
`PagesTypeOK` of `form_pages` holds the types of the services too, and
`ServiceTypeCorrect` proves them. Deadlock is checked in every
run: the specifications say in which state they are finished (`Exhausted`,
`Drained`, `AllAnswered`, `AllDone`, `PagesDone`, `Finished`), and any other
state without a successor is an error.

**Fairness.** Two runs assume any. `status_page` assumes weak fairness of
`WorkerStep(w)` for each worker and of `PageStep(t)` for each page. A worker
process in its loop goes on with the task it has, and Celery hands a waiting
message to an idle worker; a page that stays open runs its timers, and a fetch
ends. Crashes, second copies, requests and their marks, the opening of a page and
the clock are never owed. Weak fairness is enough because a worker that holds a
message can always go on, and a waiting message stays until a worker takes it.
The failures are finitely many: with a database that is never up again nothing
could be promised but the bounded retry. The replies of the status endpoint
are not promised at all: `PollingEnds` holds if every fetch fails.
`rate_limit` assumes weak fairness of time and of a process that is
inside `enforce_rate_limit`: its commands have timeouts of a second, so it goes
on. Requests, deaths and the success of a command are never owed; `LimitLifts`
excuses the one case in which Redis never forgets a client, an `EXPIRE` lost
between the two commands.

**Disagreements.** Three runs check a sentence of the documentation or of a
comment and find it violated. `PROJECT.json` quotes the sentences.

| Run | What the code does |
| --- | --- |
| `docs_found_row_is_terminal` | a row found after the `UPDATE` hit none is taken to be terminal, but may just have been inserted as `queued`: the write is dropped |
| `docs_sync_never_races_claim` | the check of the claim and the save are two sessions: an asynchronous owner can appear in between |
| `docs_same_in_both_apps` | the FastAPI page that says "still being processed" (409) has a fresh key, the Flask page the old one: the form of the first, sent again, is saved a second time |

Two smaller ones are visible in the models: `conflict` is documented as an end
state, but a second copy of the message can bring the task back to `processing`
(`FinalWordStands` leaves that word out); and an asynchronous request looks at
claims only, so a key that a synchronous submission holds with another payload
is accepted, and its task ends in `conflict` (`ConflictIsReal` says when).

Every property of a passing run has a mutant in `PROJECT.json`: an operator
beside the definition it replaces ("A bug to detect: ..."), under which TLC
finds the property violated.

## 4. Proofs

The proofs hold for every value of the constants: any number of writers,
callers, requests, workers, tasks, keys, payloads, pages and visitors, any
lifetime, retry bound, limit, window and number of failures. What they assume of the constants is named in the
modules:

- `TaskRowsAssumption`, `EnvironmentAssumption`, `RequestDataAssumption`: ids and
  `TTL` are positive numbers, the bounds are numbers, `NoKey` is no key;
- `RequestKeysAssumption`, `WorkerPoolAssumption`: requests carry keys or none, and
  payloads;
- `AsyncWorkerAssumption`, `SyncRequestsAssumption`: workers and synchronous
  requests are callers of the store, and a task id serves as the key of a task
  without one;
- `FormServiceAssumption`: the key of a request is not a task id (it has a scope
  before it), and the ids of requests, tasks and workers differ;
- `StatusPageAssumption`: pages are those of tasks, at least one attempt;
- `ClientKeysAssumption`: no address is empty, and `None` is no string;
- `FormPagesAssumption`: every visitor has an address and a payload, every request
  is for a visitor, and whatever key a visitor can send, a request may carry;
- `RateLimitAssumption`: limit and window are positive;
- `ValidationAssumption`: a name has at least one character, the empty address is
  not valid, and `email_validator` leaves what it has normalized alone.

The theorems that speak of row ids in statuses have one hypothesis,
`UnboundedIds`: `SubmissionIds` are all positive numbers. The constant is there
for TLC, which needs an end of the table.

**`TaskStatusProofs`.** `TypeOK` is inductive. Every statement leaves the table
alone or writes one row in one of three ways (`StatementsWriteWhole`): the
conditional `UPDATE` of a row that exists and is not terminal, the `INSERT` where there is
none, and the same for `mark_task_queued`. From this one lemma follow
`TerminalRowsNeverChange` (a terminal row meets neither guard),
`RowsAreNotMixed`, and `ImplementsLifecycle`: the identity on the table is the
refinement mapping, each such write is a step of `TaskLifecycle`, every other
step a stutter.

**`PartsProofs`, `SubmissionStoreProofs`.** `OneRowPerKeyWithinTtl` is not
inductive. An insert is guarded by "no row holds the key now", and says nothing
of rows that held it before. The invariant `StoreInv` adds that a row keeps the
key it was born with until it has expired (`KeyLeavesOnlyWhenExpired`), that rows
were created in the past, and that the row a caller is about to release has
expired (`ReleasesExpiredRow`), because the decision was taken in an earlier
statement and time does not go back. Then at an insert under key k every earlier
row born with k has lost it, so has expired, so is at least `TTL` older.
`SavedRowIsMine` and `MismatchIsReal` are part of it, as rows are never deleted
or rewritten. The lemmas follow the actions and speak of the store alone, so the
worker pool and the whole service cite them.

`ImplementsPromise` is the refinement of `IdempotentStore`, one lemma per kind
of step. An insert maps to `Saves`: the abstract store knows only born keys, so
that the key is free there is the step that `KeyLeavesOnlyWhenExpired` and the
unique index make together. An answer maps to `Repeats`, which looks at the last
row under the key, while the code looks for the row that holds the key *now*.
That these are the same row is not in the rest of the invariant: `HolderIsLast`
says that of the rows born with a key only the last can still hold it. The one
answer that no row is found for, the `IntegrityError` raised again, maps to
`Fails`, which allows it only under a key that was in use and is free again;
`RefindsUsedKey` carries the first half from the insert that was refused to
the second look.

**`ClaimDeskProofs`.** A request decides on a claim it read some statements ago.
`SeenIsTrue` says what of that stays true: the claim described a request of the
same key, with that fingerprint and that lease, which is expired if the request
is about to take over, failed if it is about to move the claim, processed if it
was replayed. All three are stable: time goes on and terminal statuses stay.
`PastOwnersAreDone` says of whoever owned the claim earlier that it failed or
began a lifetime before the present lease; `OwnersAreApart` follows when the
claim changes hands, and `OneTaskPerKeyWithinTtl` from it. These parts are
`ClaimsInv`, in `Claims`. Its lemmas, in `PartsProofs`, follow the actions and
ask of everybody else only that final statuses stay and the clock does not go
back (`RequestsRest`), so the whole service cites them. `KeysComeFree`
(`LifetimeFreesTheKey`) needs `AloneWithTheKey` beside it: the claim a lone
request sees is expired and remains as it was seen (`IsAlone`, in `Claims`), so
its takeover succeeds (`AloneMoves`).

`ImplementsLeases` is the refinement of `KeyLeases`. The insert and the takeover
begin a lifetime: the insert because the key has no claim, the takeover because
`SeenIsTrue` says that the claim it read had expired and the guard of the
`UPDATE` that it is still the same one. The move hands on what is left, because
the owner it read had failed, which is final. Whoever publishes under a key was
given it; every other statement, and time, only goes on. That a holder has a
lease and that the lease is the claim's `created_at` (`OwnerIsGiven`,
`HolderHasLease`) come from `ClaimsInv`.

**`StatusPageProofs`.** `WorkInv` is `StoreInv` and what
messages and rows have to do with each other: copies agree with the accepted
message (`CopiesAreAccepted`, `OneMessagePerTask`), a worker that saves does so
with its message's key and payload (`WorkersSaveTheirMessage`), and a task's rows
are its own (`TasksSaveTheirMessage`). `NothingForgotten` strengthens
`NoAcceptedTaskLost`: of a task that is not settled a copy is left that nobody is
about to acknowledge. `QueuedMeansWaiting` is inductive beside it: what counts as a
run (`HasRun`) is chosen so that only the four steps which record a status begin
one (`OthersBeginNoRun`), and those write a later status or lose the write
(`RecordersTell`); a retry, a second copy, a crash and a redelivery carry a run on.
Whoever else moves takes no status back to `queued` (`OthersTellOfRuns`), so the
same lemmas give it for the whole service (`ServiceQueuedTasksWait`), where the
requests' own steps mark, publish, fail and die. `PoolInv` adds the requests, `PollInv` the pages: what a
page has read or shows is at most behind the status, so a final word it shows is
still the status, and "processing" is followed by nothing earlier.

**`FormServiceProofs`.** `ServiceInv` joins `WorkInv` with `ClaimsInv` and the
requests' messages (`DeskInv`: a request carries a key that may come, publishes
once, what it was sent, and is told so only then), with the synchronous callers
(`SyncInv`) and with what ties the parts together: each row under a key was saved for a request
that sent it (`RowsHaveOwners`), and a task that meets another payload under its
key was a request (`ConflictsArrived`). Each part has lemmas for the steps that
disturb it. That a task without a key never ends in conflict (`RefusalIsReal`)
rests on the assumption that no request's key is a task id.

So `ClaimsInv` holds here too (`ServiceClaims`), where the statuses are what
workers report, in runs, retries and second copies, and synchronous requests
look at the claims between their statements: each of their steps is one of
`RequestsRest`. `ServiceClaimsAreKept` draws from it the four properties that
`claim_desk` checks beside reduced workers, and `ServiceImplementsLeases` is the
refinement of `KeyLeases` in the whole service: to it, what workers and
synchronous requests do is a failure or nothing.

`ServiceFreesKeys` is what `LifetimeFreesTheKey` says, in the whole service.
`FormService` has no history like `unopposed`, so `FreeKeysAreGiven` is an action
property: a request that comes under a free key is alone with it (`IsAlone`), and
remains so until it is answered or another one comes under the key meanwhile;
`IsAlone` says that its answer is no refusal. A synchronous request that saves
under the key does not take it from the request: it is told of that row by its
task's conflict or result, later. `ServiceSavesAreKept` states what the workers
and the store promise (`worker_pool`, `submission_store`) where both kinds of
request share the table with them: from `WorkInv`, and from the lemma
`TasksSaveOnce` about any two rows.

`StoreKeepsItsPromise` is the refinement of `IdempotentStore` in the whole
system. The callers are web requests and workers now, so each of their actions
that touches a call has to be a step of the abstract store; a worker's
`DatabaseNotReady` is a call that fails as it begins, which needs
`WorkersCallToSave` (a worker has a call open only while it saves) beside
`ServiceInv`.

`RefusalsHaveACause` (`CauseInv`) says for the composed system why anybody is
refused: whoever is told of a replayed task, a mismatch or a request in flight
meets another request that came with its key, and with another payload for a
mismatch. It follows `ServiceInv` and needs of the claims that the task they
name has got as far as owning them (`OwnersHaveClaimed`), so that a request
never meets itself.

For the routes, `PagesAreServed` shows that each step of `PagesSpec` is one of
`FormService` or a stutter: what a form sends is a request that may arrive. So
all theorems about the services hold behind the pages. `PagesInv` adds what
pages and requests have to do with each other: a request carries its visitor's
payload and a key of its form (`RequestsComeFromPages`), no key is in two forms
(`KeysAreApart`), and a form keeps its key until a page renews it
(`FormsKeepTheirKey`). `ClientsStayApart` follows from it with `CauseInv`: equal
scoped keys come from equal addresses, because `TrustedClientIdentifier` behind
nginx is the address (`ClientIsAddress`). `FormsSaveOnce` has two hypotheses
beside `UnboundedIds`. `App = "flask"`, because in FastAPI it is false
(`docs_same_in_both_apps`). And `NoHeaderNextToForms`: nobody at a browser's
address sends a key of its own in the header. Without it TLC finds a form
posted twice and a program there that claims the form's key with another payload
in between: the first POST, past its look at the claims, is saved; the second is
answered 422, and its page has a fresh key, under which the form is saved once
more. Keys are
scoped by address, and two clients behind one address share a scope. The
instance of the run satisfies both hypotheses.

**`RateLimitProofs`.** What a store counts and what it let pass drift apart with
every failed command, and a window ends while requests of it are still young.
Of a store whose window is closed `RateInv` says that fewer requests than the
limit passed in the last window. Of one whose window is open it says that fewer
passed than the limit and its count together, and that all of them but fewer
than the count are as old as the window leaves them, so that few are left when
it ends (`FewPassed`). For a process's memory those that its bucket has counted
are all still there (`AllPassed`). `AgesGrow`, `WindowShrinks` and their like
say of values alone what a second and a count do to them.

**`ValidationProofs`.** The code strips, splits and joins a name and then looks at
the result; the rules (`IsName`, `NameOf`) speak of the characters as they were
typed. The two meet in `CleanedIsTheName`: what is left after stripping and
joining is, position by position, what was typed without its white space but
for one space in each gap. The library's induction theorems cannot be used
here, as their parameter is an operator; the lemmas take the least position, of
those where a claim about the loop fails, and show that it does not fail there
(`LeastElement`, from the fact that `<` on `Nat` is well founded). On it rest
`VerdictsAreRight` (the checks of the code, in their order, are the rules),
`SpacingHasNoEffect`, and `WorkersAgree`, which needs of cleaning that it does
nothing the second time (`CleanedTwice`), and of normalizing that a form stays
valid (`NormalizedIsValid`). The invariant says that what is enqueued is the
normalized form of what was typed, whether `flask_app` stripped it before or
not.

Only model-checked: liveness (`PollingEnds`, `AcceptedTasksSettle`,
`StatusTellsTheEnd`, `LimitLifts`), which is out of the prover's reach. Only
proved, and checked by no run: `FreeKeysAreGiven`, of which
`LifetimeFreesTheKey` is the form for TLC, and `NeverBackToQueued`
(`PageNeverFallsBack`): that a page which said "Processing" does not say
"Queued" again. A page is opened when its request is over, so no late mark can
happen under it; that none sets a task back is `QueuedMeansWaiting`.

## 5. Not modelled

- Parsing the lifetime and the limits from the environment: configuration.
- FastAPI's 422 for a missing form field: the framework answers before the route.
- `list_submissions` and the pages that show it: they read one consistent table.
- Request ids, JSON logging, tracing: they change no state a property is about.
- App factories, session set-up, migrations, compose files, load tests: run once,
  or outside the service. Of nginx only the headers it sets are modelled.

## 6. Plan

Done: the status store, the submission store and the claims, each with an
abstract specification it implements, on its own and in the whole system (the
status store is used there as its abstract specification); the workers,
synchronous requests, the whole service, the routes and their visitors, and the
rate limiter, each with theorems; the status page with its theorems and
liveness; validation, with theorems.

What could come next: the statements of `TaskStatus` in place of the indivisible
writes of `TaskLifecycle` in the whole system, where so far the two are joined
by the refinement alone.

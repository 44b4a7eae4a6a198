# Formal models of EDO-Adapter Enterprise

TLA+ models of the parts of EDO-Adapter whose behaviour depends on the order in
which processes, messages, statements and commits happen: the Redis circuit
breaker that all workers share; the pipeline that takes a document from
`POST /documents/send` over the Celery queue to the provider; the provider
adapters; the sessions of the API; webhooks and periodic tasks; and the database
schema with its migrations. TLC checks small instances; TLAPS proves the
invariants for every instance. Paths below are relative to the repository;
`src/` is its Python package.

## 1. Inventory

| Component | State it keeps | Operations | What is hard about it |
|---|---|---|---|
| Circuit breaker (`infrastructure/reliability/circuit_breaker.py`) | a Redis hash per account: `state`, `failures`, `half_open_successes`, `opened_at` | `guard`, `get_state`, `record_success`, `record_failure`, `_transition` | several round trips per operation, no lock, many workers, a client that resends on a timeout |
| Delivery entity (`domain/entities/document_delivery.py`, `unified_document_status.py`, `retry_backoff.py`) | status, provider id, retry count, next retry, last error, final time | `create`, `mark_*`, `schedule_retry`, `should_retry` | the retry budget, fields that later operations keep |
| Send task (`infrastructure/queue/tasks/send_document_task.py`) | a copy of the delivery, an open session | `_send_document_async`: three commits, four exception paths | kills and exceptions between commits, redelivery, two tasks for one delivery |
| Document endpoints (`presentation/api/v1/documents.py`) | rows of `edo_documents` and `document_deliveries` | send, retry, status, list | the message leaves before the commit; retry writes back a stale copy; SELECT and INSERT of a unique id |
| DLQ endpoints (`presentation/api/v1/dlq.py`) | rows of `dlq_entries` | list, replay, replay-batch | repeated and concurrent replay, lock order of a batch |
| Provider accounts (`provider_accounts.py`) | `is_active`, credentials | register, list, activate, deactivate | a change between send and task, a unique name |
| Session and repositories (`infrastructure/database`) | transactions | `get_session`, `save`, `update` | commit after the handler has answered; INSERTs only at commit; `update` writes every column |
| Celery application (`infrastructure/queue/celery_app.py`) | queues | routes, `acks_late`, `reject_on_worker_lost`, beat | redelivery |
| Provider adapters (`infrastructure/providers`) | a token for one task (stub: in memory) | factory, authenticate, send, status, incoming, webhook parsing | four ways to read the same answers |
| Webhooks (`webhooks.py`, `process_webhook_task.py`) | `webhook_events`, status of deliveries | dispatch, process, retry | retries running out, a kill between retry and acknowledgement |
| Periodic tasks (`queue/tasks/*`) | status, incoming documents, metrics | sync, poll, health, DLQ, cleanup | statements that no longer fit the models |
| Models and migrations (`database/models`, `migrations`) | the schema, the row of `alembic_version` | upgrade and downgrade of two revisions | overlapping or killed commands; three descriptions of one schema |
| Seed script, login (`scripts/seed_demo_users.py`, `auth.py`) | `tenants`, `api_users` | seed, login | uniqueness that no constraint states |
| Tokens, RBAC, read endpoints, middleware, telemetry | - | stateless checks, queries, wiring | little that a model would find |

How they interact: a request handler writes rows in the session of `get_session`
and puts a message on the broker; after the handler returns, the session is
committed. A worker takes the message, reads the row, asks the breaker, commits
SENDING, calls the provider, tells the breaker, and commits the outcome, the
audit event and perhaps a DLQ row together. The message is acknowledged when
the task ends, normally or by an exception; it goes back to the queue if the
process dies. Retry and replay put further messages on the same queue, so that
several tasks and requests may hold copies of one row.

What makes each part correct: the breaker forgets neither a full failure count
nor a full tally, opens against a broken provider and recovers with a sound one; a
delivery is never lost without a trace, its outcome is on record, SENT follows an
acceptance, no id it shows is invented, the retry budget is really spent, the number
of sends is bounded; the provider's last answer decides the outcome of a task;
sessions that overlap leave unique what should be unique and whole what should be
whole; an accepted webhook survives a killed worker; the version row tells the schema,
and the schema serves the statements, but for six that are named. `PROJECT.json`
lists the hazards behind these, each at its line.

## 2. Modules

| Module | What it is |
|---|---|
| `CircuitBreaker` | the breaker of one account, one step per Redis round trip |
| `DocumentDelivery` | the delivery as a record, its operations as operators |
| `SendDocument` | requests, queue, workers, provider and database rows; EXTENDS `DocumentDelivery` |
| `DeliveryContract` | what the pipeline promises of a delivery; `SendDocument!ImplementsContract` is the refinement |
| `ProviderExchange` | the four adapters under the send task; EXTENDS `DocumentDelivery` |
| `ApiSessions` | sessions of the API and of the seed script that overlap; EXTENDS `Schema` |
| `BackgroundTasks` | webhooks, periodic tasks and their workers; EXTENDS `OrmModels` |
| `Schema` | the ten tables in both revisions, as values |
| `OrmModels` | the models and the statements built from them; EXTENDS `Schema` |
| `Migrations` | alembic commands that overlap; EXTENDS `OrmModels` |
| `MC...` | the sets the configurations use |
| `CircuitBreakerProofs` | theorems about `CircuitBreaker` |
| `DocumentDeliveryProofs` | what the entity's operations return; lemmas for the modules that use it |
| `SendDocumentProofs` | types, and that no delivery is lost silently |
| `SendContractProofs` | `SendDocument` implements `DeliveryContract`; outcomes on record, budget, number of sends; EXTENDS `SendDocumentProofs` |
| `ProviderExchangeProofs` | theorems about `ProviderExchange` |
| `ApiSessionsProofs` | theorems about `ApiSessions` |
| `BackgroundTasksProofs` | theorems about `BackgroundTasks` |
| `MigrationsProofs` | theorems about `Migrations` |

Definitions carry the names of the functions they model. An operator named
`Mutant...` is a plausible bug in the operator after it; nothing uses it except
the tests of the properties.

### CircuitBreaker

`state`, `failures`, `half_open_successes` are the hash fields; `opened_at` is
kept as `age`, the ticks since the opening, counted up to `RecoveryTimeout`.
`pc` says where each worker is. `guard` is one step when it needs one round
trip, and two (`guard_elapsed`, `guard_probe`) when `get_state` finds that the
timeout is over and writes HALF_OPEN. `record_success` is up to four steps: the
state is read, then the tally is read, written, and the breaker closed; or the
failures are cleared. `record_failure` is a MULTI and, at the threshold, a
second one (`failure_open`); `record_failure_timeout` is the MULTI applied but
answered too late, which `retry_on_timeout` in `redis_client.py` sends again
(`AnswersMayBeLate` says whether that happens).
`Abandon` ends an operation anywhere (process killed, Redis refusing the next
command). Resending commands that may be repeated without effect is left out.
The clock is read in the same step as the answer to HGETALL, since no `await`
lies between them. `provider` is how the environment answers: every call succeeds,
every call fails, or any mixture (`Modes`). `lost` is a history variable: the
transitions owed by lost workers.
Workers passing stale tallies to one another can raise `half_open_successes`
without bound; since the code only compares it, it is counted to
`HalfOpenMax + 1`.

### SendDocument

A step is one transaction, one message or one call. `stored`, `delivery`, `dlq`,
`audit`, `is_active` are committed rows; `queue` is a bag of messages, so any
order of delivery is possible; `inbox` is what the provider took in. A worker
has `pc`, `job` (message), `entity` (its copy of the row) and `entry` (a DLQ row
in its open session). A request has `apc`, `target`, `copy`, `index`.

| Code | Actions |
|---|---|
| lines 56-66: load, account | `take`, `take_not_found`, `load_account`, `fail_inactive` |
| lines 68-75: breaker | `circuit_admits`, `circuit_refuses`, `postpone` |
| lines 77-81: SENDING | `start_sending` |
| lines 83-121: call and outcome | `provider_accepts`, `provider_answer_lost`, `provider_refuses`, `provider_busy`, `record_success`, `record_success_raises`, `record_failure_raises` |
| lines 123-133: finally | `close` |
| end of the task | `ack`, `task_raises`, `crash` |
| `documents.py` send, retry | `send_document_endpoint`, `send_commit`, `retry_read`, `retry_update`, `retry_commit` |
| `dlq.py` replay | `replay_dlq_entry`, `replay_commit` |
| `session.py` rollback | `rollback` |
| `provider_accounts.py` | `activate_account`, `deactivate_account` |

`update` writes all columns of a copy, as the repository does. The row lock that
the retry endpoint's UPDATE holds until its commit is `Locked`: every other
UPDATE of that row waits. The `SELECT`s wait for nothing.

Abstractions, and what they cost:

- The breaker's verdict is a free choice (`circuit_admits`, `circuit_refuses`):
  every behaviour of the real breaker is included, and others.
- All deliveries belong to one account; each delivery is one send request, so
  the unique `internal_document_id` is a rollback at commit.
- `next_retry_at` and `final_at` are kept as "is it set", `provider_document_id`
  as the number of the acceptance that issued it, or 0 for NULL and for the texts
  that adapters return when an answer has no id (`""`, `"None"`): `provider_accepts`
  returns either. That the texts of two deliveries collide in the unique constraint
  is here an exception of `close`'s commit (`task_raises`) like any other;
  `ProviderExchange` tells the texts apart. Other timestamps and messages are left
  out.
- A transient error means the provider did not take the document in; an answer
  lost after acceptance is the unexpected-error branch.
- `retry_document` without `force` skips every delivery it lists (FAILED is
  terminal), so only the forced retry is an action. A request that retries
  several deliveries of a document, or replays a batch, is several requests.
- Redelivery by the broker's visibility timeout is not modelled (one task per
  message at a time); redelivery after a lost worker is.
- FastAPI's parsing of the send request (a JSON body beside a file) is in front
  of the model, which starts with the handler's body.

### DeliveryContract and the refinement

A delivery has a row status, a count of acceptances, and an open task or none.
`SendDocument` maps to it with the committed row's status, the length of `inbox`,
and the deliveries of which a message is queued or in a worker's hands. That every
step of the pipeline is a step of the contract says, for all interleavings and
faults of the run: acceptances only grow and only while a task is open and the row
is there; the row says SENT only after an acceptance; a row is changed by a task or
by the retry endpoint's reset to PENDING, and by nothing else; a row never
disappears.

### ProviderExchange

The deliveries of one account whose type and credentials are any. The breaker
refuses a task (`circuit_open`, lines 68-75: a retry is scheduled, no failure is
counted) or it goes through `start_sending` (lines 77-79), `create_provider` (the
factory and the constructor, outside the `try`), `authenticate` (DIADOC and SBIS only,
at every send, since each task builds its adapter anew), `send_document`, the breaker's
record of the success (`record_success`, `record_success_raises`) or one of the
`except` clauses, in which the record of the failure may raise too
(`record_failure_raises`), and the commit of the `finally` clause or its
IntegrityError. `task_lost` ends a task anywhere: the worker is killed, or the database
raises. Each adapter has its own operators for its constructor, its error handling and
what it reads from a body; `Answer` lists what becomes of an HTTP request. A
provider's real ids are its own and differ; the ids that stand for "none" are
values of the column, and the unique constraint of revision 0002 compares them.
Answers come at any time, and a delivery has one task at a time.

The histories say what the properties speak of: `failures` the failures the breaker
has counted for the delivery (a MULTI that Redis answers late is sent again and counts
twice), `refused` the retries its refusals scheduled, `mishaps` the late answers and
lost tasks, `last` the last request and its answer, `fault` what failed in the last
task besides the provider.

### ApiSessions

A session runs one operation in one transaction: `send_document_endpoint`,
`register_provider_account`, `replay_batch`, or the seed script. PostgreSQL is
external: an INSERT waits for another transaction's uncommitted key and collides
with a committed one, an UPDATE waits for the row's lock, and of transactions that
wait in a circle one is aborted. A key is enforced when `Schema` has it in revision
0002: `api_users` has none on the e-mail. `get_session` turns autoflush off, so the
API's INSERTs are sent by the commit, after the task has been published; the script
uses a factory of its own that flushes before each query. Of a batch the model keeps
the entries that pass the endpoint's checks, in the request's order (`Chosen`, the
endpoint's loop); each is published, then updated. The account checks of the send
endpoint are taken as passed.

### BackgroundTasks

A task is the sequence of its statements. Whether one raises is computed from
`OrmModels` (the attributes it uses against those of the model), from the callee's
parameters and from the labels of the metric; a statement after an early return or
in a loop over active accounts runs only when there is an account. At this commit
`process_webhook`, `sync_statuses`, `poll_incoming`, `provider_health` and
`process_dlq` have a statement that raises. Retries are Celery's: `self.retry`
publishes the next attempt (`task_raises`), then the message is acknowledged
(`ack`); `kill` in between leaves two chains. The delay between attempts is any
time.

### Schema, OrmModels, Migrations

`Schema` has a table as its mandatory columns (NOT NULL without a server default),
its columns, its unique keys and the tables it refers to; `OrmModels` has a model as
its columns and those that SQLAlchemy fills, and a statement as the attributes the
code sets, filters on or reads from its rows, those an endpoint puts into its
response included. `Unserved` names the six that use an attribute their model lacks:
the list of incoming documents (`document_date`) and five statements of the
background tasks, whose bodies in `BackgroundTasks` are built from the same
definitions. `Migrations` runs alembic commands: one transaction per command
(`env.py`), the version read at its start, `alembic_version` created where it was
not found (`ensured`: it is committed; `ensure`: what a command does about it), the
operations of the chosen steps one by one, the version row updated where it is as it
was read. DDL is transactional: `overlay` is what a command has done and not
committed, and another command waits for it.

## 3. Runs

| Run | Bounds | Shows |
|---|---|---|
| `breaker` | 3 workers, both thresholds 2, timeout 1 tick, 1 abandoned operation, late answers; 476,856 states | `ThresholdNeverMissed`, `TallyNeverMissed`, `OpenEventuallyProbed`, `HealthyProviderCloses`, `BrokenProviderOpens` |
| `breaker_direct_close` | 2 workers, no abandoned operation, no late answer | violated: `ClosesOnlyThroughHalfOpen` |
| `send_faults` | 2 workers, 1 request at a time, 2 messages, 1 kill, 1 raised call; 572,462 states | `NothingLostSilently`, `OutcomeOnRecord`, `SentIsAccepted`, `SendsWithinDispatches`, `SendingSettles`, `ImplementsContract` |
| `send_overlap` | 2 workers, 2 requests, 3 messages, 1 raised call; 1,626,654 states | `NothingLostSilently`, `OutcomeOnRecord`, `RetryableAfterFullBudget` |
| `send_double` | 1 worker, 1 message, 1 kill | violated: `NoDoubleSend` |
| `send_outbox` | 1 worker, 1 message, no fault | violated: `CommittedSendHasTask` |
| `send_retry` | 1 worker, 1 message, no fault | violated: `ScheduledRetryHappens` |
| `provider_exchange` | 2 deliveries, 2 tasks each, budget 1, all types, credentials and answers; 4,316,486 states, symmetry | `AnswerDecidesOutcome`, `BreakerCountsRetries`, `StuckSendingHasCause` |
| `api_sessions` | 3 sessions, 1 document, 1 name, 2 DLQ rows in both orders; 56,303 states | `LoginUnambiguous`, `BatchAllOrNothing`, `OneSendWins`, `VictimsCrossed`, `NobodyHangs`, `SessionsEnd` |
| `background` | 2 workers, 2 webhooks (1 for an unknown account), 1 periodic task queued, 1 kill; 77,574 states | `WebhookKeptUntilSpent`, `RunsWithinBudget`, `QueuesDrain` |
| `background_webhook` | 1 worker, 1 webhook, no kill | violated: `AcceptedWebhookRecorded` |
| `migrations` | 2 commands at a time, any number in sequence and any killed; 6,002 states | `VersionTellsSchema`, `HeadServesStatements`, `WaitersHoldNothing`, `FailureHasCause`, `CommandEnds` |

Why the bounds are enough. Breaker: with thresholds of 2 two verdicts must count
together, which takes two workers; the third is there to act between them. One
tick separates "refused" from "probed". Pipeline: a second message is what it
takes for two tasks to share a row, a third lets both also meet a retry; the
retry budget is 1, the least that can be spent and overspent. One kill and one
fault each hit every location. Deliveries share nothing but the account's flag
and the workers, so one is enough for properties of single deliveries.
`MaxDispatches`, `MaxCrashes` and `MaxFaults` bound the behaviours, not the code.
A first acceptance can have an id or none, a second one likewise, so copies of one row
meet with and without an id.

Adapters: a second delivery is what it takes to find a non-id taken, a second task
to spend a budget of 1 and to send again what a first one left SENDING. Sessions:
two make a race or a circle, the third is there while the others are decided; two
DLQ rows give both lock orders. Background: one kill hits every location, and the
second worker meanwhile runs what the first published; webhooks interact only
through the queue. Migrations: a command has committed and two are running at once,
over every version a database can have; a third would only wait with the second.

The five violated properties quote the project's README: a failure recorded late
writes CLOSED over OPEN; a redelivered message sends twice; the message leaves
before the commit and there is no outbox; scheduled retries are started by
nobody; an accepted webhook is recorded by nobody. `PROJECT.json`, "findings", has the
lines.

Deadlock is checked in every run but `provider_exchange` and `api_sessions`, whose
tasks and sessions are a fixed number and end. Elsewhere something can always
happen (an administrator acts, a command begins), so it finds nothing; progress
is what the liveness properties are for.

## 4. Fairness

`CircuitBreaker!Fairness`: time passes (`Tick`), and each worker that is running
takes its next step, because Celery workers loop over a queue that has documents
to send. `OpenEventuallyProbed` needs traffic: an idle breaker is never probed,
as in the code, where only a call moves OPEN to HALF_OPEN. A provider is not
assumed to recover, nor to break down: `HealthyProviderCloses` and
`BrokenProviderOpens` have that as their hypotheses. The latter needs the traffic too:
it is calls that fail which open the breaker.

`SendDocument!Fairness`: workers step, provider calls time out
(`provider_request_timeout_seconds`), requests that have begun end. Nothing is
assumed of clients, administrators, kills or faults. `SendingSettles` excepts a
delivery one of whose tasks ended by an exception: the code leaves that row
SENDING (see the hazard at line 81).

`ApiSessions!Fairness`: a session that has begun goes on, and PostgreSQL looks for
deadlocks (`deadlock_timeout`). Weak fairness is enough: a session that waits is not
assumed to get the row, and `SessionsEnd` shows that it does, or is told why not.

`BackgroundTasks!Fairness`: workers step. Nothing makes a provider call a webhook or
beat tick.

`Migrations!Fairness` is strong, per command: PostgreSQL grants a lock in the order
of the requests, so a command that waits is not overtaken for ever by commands
that begin after it, and new ones may begin without bound.

## 5. Proofs

All theorems hold for arbitrary sets of workers, deliveries, requests, sessions,
webhooks and commands and arbitrary thresholds and budgets, but for the finiteness
named here. What they assume of the constants:

| Assumption | What it says |
|---|---|
| `BreakerAssumption`, `RetryAssumption`, `ExchangeAssumption` | thresholds, budgets and bounds are natural numbers, the breaker's thresholds at least 1 |
| `SendAssumption` | bounds are natural numbers, there are finitely many workers |
| `TasksAssumption` | bounds are natural numbers; no webhook is named like a periodic task; the known ones are webhooks |
| `SessionsAssumption` | there are finitely many sessions and DLQ rows; batches list existing DLQ rows |
| `NilAssumption`, `NoneAssumption` | the value for "no message", "no DLQ row", "no row" is not one |

`Migrations` needs none. TLC evaluates each of them in a run, and finds every
inductive invariant below to hold on the bounds of section 3.

`CircuitBreakerProofs`: `TypeCorrect`, `ThresholdHolds`, `TallyHolds`. Each
invariant is inductive together with `TypeOK`: the step that completes a count
leaves its worker at the location that acts on it, and only the transitions, which
reset the count, take a worker away from there.

`SendDocumentProofs`: `TypeCorrect` and `NothingLost`. `NothingLostSilently` is
not inductive. A worker that has committed still holds its message, so it counts
as a task, and its acknowledgement would make the invariant false if nothing
else were known. `LossInv` counts only tasks that have not committed
(`OpenTask`), and adds what makes this inductive:

- `RowsCovered`: an unsettled row has an open task or is stranded;
- `RetryCovered`: a retry between its UPDATE and its commit has an open task,
  because the row's lock stops every task from committing before it;
- `SendCovered`: a send before its commit has its message still queued, since a
  worker that takes it finds no row, and that is noticed; no two sends share a
  delivery;
- `OutcomeDecided`: what a worker is about to write is SENT, FAILED, PENDING
  with a retry time, or SENDING, which ends the task by an exception.

`OpenTaskKept` is the lemma all parts share: an open task stays open, commits its
own row, or is noticed.

`SendContractProofs`: `SentAccepted` and `Implements`. `BackedInv` says of a row,
of a worker's copy and of a retry request's copy alike that its provider id is
none or one of those issued so far for that delivery, that SENT has an acceptance
behind it, and that what will be written over a row is of a row that exists (and
PENDING, for a retry).
Copies may be stale, but ids are only ever added, so an old copy stays backed.
`Implements` maps a worker's step to `Submit`, `Accept`, `Record` or `End` of the
contract, or to a stutter (`WorkerRefines`), and a request's likewise
(`RequestRefines`); it needs `BackedInv` for `Record`, and `SendCovered` so that no
commit inserts a row twice. `NothingSentUnsaved` is drawn from the contract alone,
through the refinement: what the provider has accepted is in the database.
`SendingHeld` says of a SENDING row what `NothingLost` says of an unsettled one, more
sharply: only an exception leaves it without a task that will commit.

The same module has three properties of the histories.

- `OutcomeRecorded`: `EntriesReady` (a worker about to commit FAILED has the DLQ row
  with the same reason in its session) and `RowsRecorded`. A row that somebody else
  overwrites keeps its records, since audit and DLQ only grow (`AuditGrows`,
  `LoggedKept`), and a request writes PENDING only.
- `BudgetSpent`: `BudgetInv` compares every copy's `retry_count` with the retries
  that were scheduled, a worker's plus the one it is about to commit (`Due`).
  Stale copies can only count less.
- `SendsAccountedFor`: `Sends` adds the acceptances, the messages on the queue and the
  workers that may still call. Only enqueueing and a kill raise the sum.

`ProviderExchangeProofs`: `CountsHold`, `OutcomesHold`, `StuckHasCause`. Deliveries
meet only in the unique constraint, so the invariant is one formula per delivery
(`Local`) and `Unique`: the breaker's count against the tables, the copy and what the
commit still owes them (`Counted`; two inequalities, since the breaker is ahead by the
mishaps), where the copy's id comes from (`Identified`), what the last answer or the
breaker's own error explains (`Explained`), and the settled outcome (`Decided`).
`StuckHasCause` is an action property: of the steps that end a task, only a commit of
an entity still SENDING, an IntegrityError, a missing key and a loss leave the row so.

`ApiSessionsProofs`: three invariants. `SeedInv` gives `LoginSound`: no constraint makes
an e-mail unique, what does is the tenant's slug. A session that has inserted the
tenant is alone with it (`TenantAlone`), and one that has inserted a user has inserted
its tenant too (`InHand`). `SendInv` gives `SendsDecided`, the race of the sends that
passed the check together: a session that has a document inserted is at its commit
(`SendLocal`) and is the only one, and each committed document is of one committed
send (`SendAlone`), so whoever is told of a conflict finds a winner. The
theorems on batches and locks rest on `LocksInv`:

- `Ongoing`: a batch that goes on has published and locked just the entries it has
  updated, and has the others left in the request's order;
- `Holding`: what a session has inserted and locked tells how far it is;
- `Marked`: a committed batch has marked its entries, all of them published, and
  any other none (`BatchesWhole`);
- `Exclusive`: no row has two sessions.

`DeadlocksExplained`: a session that waits anywhere but at the UPDATE of an entry
waits, directly or through one other, for one that goes on (`WaitsEnd`), so that a
circle has only batches at an UPDATE (`CircleOfBatches`). If one order agreed with all
requests, the row waited for would rise along the circle (`RankRises`), which ends
where it began. `SessionsGoOn` takes a
smallest set of sessions that wait for members of the set (`Closed`): if all that run
wait, there is one, and it is a circle PostgreSQL sees. `OrderedRequestsNotAborted`
is what an endpoint that sorted `entry_ids` could rely on: with all requests in one
order, no session is aborted. What the loop of `replay_batch` chooses from a list of
any length is shown by the least number of rounds at which it would be otherwise
(`Least`), as induction itself is out of reach.

`BackgroundTasksProofs`: `WebhookKept`, `RetriesEnd`, `NoWebhookRecorded`. A worker that
has ended and not acknowledged still counts as having the message in
`WebhookKeptUntilSpent`; the inductive form (`Kept`) does not count it, and
`RunsCounted` ties the runs of a webhook to the retries in its messages.
`RunsWithinBudget` becomes inductive with the runs still to come: `Left` weighs a
queued message by four less its retries, one in a worker's hands by one less than
that, and `Budgeted` bounds runs and `Left` together; a kill gives back four at the
most. Neither proof opens a task's body, so both will outlive the repair of the tasks
that raise. `NoWebhookRecorded` does, and will not: at this commit the body raises
before its INSERT, which is the finding of `background_webhook` in every instance.

`MigrationsProofs`: both revisions go through the tables in one order, so the plan
of each command is written out by number (`Operation`, shown equal to what
`Migrations` builds in `Plans`), and what a command has made of each table is a
function of how many operations it has run (`Made`, `Stamped`). `MigrationInv` says
that its overlay is just that (`At`), that it has locked what it touched (`Locked`),
and that the committed version tells the committed tables (`SchemaInv`). `EnsureInv`
is about `alembic_version`: one command at a time is creating it, and one that has
yet to holds nothing. `RowTellsTables` is part of the invariant; `HeadServes` adds
the finite check of statements against 0002, in both directions: all but the six are
served (`ServedAt0002`), and each of the six raises (`UnservedRaise`); it will have
to be restated when one is repaired. `FailuresExplained` adds that a command nobody
has overtaken finds every table as its next operation wants it (`Able`).
`WaitingIsSafe`: commands that one version allows begin with the same table
(`HasFirstTable`), so only one of them holds anything (`OneHolder`), and who waits
for `alembic_version` holds nothing (`EnsureInv`).

Every invariant the runs check is proved, and the action property `FailureHasCause`
and the refinement with them. Only model-checked are the liveness properties, since
the prover handles neither fairness nor ENABLED: `OpenEventuallyProbed`,
`HealthyProviderCloses`, `BrokenProviderOpens`, `SendingSettles`, `SessionsEnd`,
`QueuesDrain` and `CommandEnds`. Of four of them the safety core is proved:
`NobodyHangs` (somebody can always go on) for `SessionsEnd`, `WaitersHoldNothing`
(nobody waits in a circle) for `CommandEnds`, `SendingHasTask` (somebody is
responsible) for `SendingSettles`, `RunsWithinBudget` (retries are finite) for
`QueuesDrain`.

## 6. Not modelled

- What lies behind a statement that always raises: signature checks,
  deduplication and status updates of the webhook task, status polling, incoming
  documents, health snapshots, automatic replay of the DLQ, and with them the
  status maps, `poll_incoming`, `parse_webhook` and `health_check` of the adapters.
  No reachable state of this commit has them, nor the hazards that wait there: the
  webhook task's SELECT before its INSERT, and the status DELIVERING that the
  adapters' maps have and the enumeration lacks.
- Tokens, passwords and roles: pure checks of a request, with no state of their
  own; nothing in the code changes a role or deactivates a user after the seed
  script.
- Queries of lists and pages, DTOs, exception handlers, middleware, logging,
  telemetry, configuration: no state that another part reads.
- `compute_next_retry` (a random delay that nobody waits for) and the checks of
  INN and KPP (called by their tests only).
- The breaker inside the send pipeline: `SendDocument` (`circuit_admits`,
  `circuit_refuses`) and `ProviderExchange` (`start_sending`, `circuit_open`) let it
  admit or refuse any task and let its records raise, which includes what it really
  does; what that is, is `CircuitBreaker`. A composition would multiply two large state spaces for
  properties that each side already has against a freer partner.
- alembic's refusal of a step below base, which ends a command before it has changed
  anything.
- The broker: Redis losing its data, and its visibility timeout.

Not claimed, because the code does not have it:

- That a SENT delivery has a provider id. The task marks SENT whatever the adapter
  returns, and a 2xx answer without a usable id gives `""` (`diadoc_provider.py:124`,
  `kontur_provider.py:82`), `"None"` (`sbis_provider.py:94`) or NULL. Such a row can
  be in the database in `SendDocument` and in `ProviderExchange`; `SentIsAccepted` says
  what is true of it (a 2xx answer was there), `AnswerDecidesOutcome` which answers
  lead to it with which adapter.
- That OPEN is kept until its timeout: a guard that saw the timeout over and writes
  HALF_OPEN late overwrites a breaker opened again in between, and lets its call
  through. `CircuitBreaker` has these behaviours (`guard_elapsed`, `guard_probe`), and
  its other properties hold in spite of them. The hazard has a note.
- That process_dlq does its work: its gauge has labels that the call does not give.
  `QueuesDrain` holds either way; the hazard has a note.

## 7. Plan

Every component that changes state has its module, and every safety property of
the runs its theorem. What is left to prove are the safety cores of the breaker's two
liveness properties (an OPEN breaker has a time from which a call probes it, and a
HALF_OPEN one a tally that successes complete), and what else the contract of
a delivery implies for its observers.

## 8. Running

    tlc -config MCCircuitBreaker.cfg MCCircuitBreaker.tla
    tlc -config MCSendDocumentFaults.cfg MCSendDocument.tla
    tlc -config MCProviderExchange.cfg MCProviderExchange.tla
    tlc -config MCApiSessions.cfg MCApiSessions.tla
    tlc -config MCBackgroundTasks.cfg MCBackgroundTasks.tla
    tlc -config MCMigrations.cfg MCMigrations.tla
    tlapm CircuitBreakerProofs.tla
    tlapm SendDocumentProofs.tla
    tlapm SendContractProofs.tla
    tlapm ProviderExchangeProofs.tla
    tlapm ApiSessionsProofs.tla
    tlapm BackgroundTasksProofs.tla
    tlapm MigrationsProofs.tla

# Context Lake: specifications, model checking and proofs

This directory is the verification project of Context Lake: TLA+ modules that
model its services, TLC configurations that check them on small instances, and
proofs checked by TLAPS. Paths are relative to the repository root.

1. [The system](#the-system): components, state, operations, what must hold
2. [The plan](#the-plan): modules, in order
3. [Ingest](#ingest-the-write-path), [OutboxRelay](#outboxrelay),
   [Projection](#projection), [Pipeline](#pipeline-from-the-outbox-to-the-view),
   [ContextAudit](#contextaudit), [Governance](#governance),
   [Migrations](#migrations): how each module corresponds to the code, its
   properties, its runs and their bounds, its fairness
4. [Proofs](#proofs)
5. [Disagreements found](#disagreements-between-documentation-and-code)
6. [What is not modelled](#what-is-not-modelled)

Run `tlc -config MCIngest_core.cfg MCIngest` (and likewise for the other
configurations) to check an instance, `tlapm IngestProofs.tla` (and likewise for
the other modules named `...Proofs`) to check the proofs. `PROJECT.json` lists
the runs, the lines each definition models, the hazards of the code, and for each
property a mutant of a definition that violates it.

## The system

Clients write customers, orders and agent sessions through `ingest-api`, which
stores them in PostgreSQL together with an outbox row. A relay inside
`ingest-api` publishes outbox rows to Kafka. `stream-processor` applies the
events to context views. `context-query-api` answers reads from the views and
publishes an audit event for each; `audit-writer` stores those.

    client -> ingest-api -> PostgreSQL (domain rows, ledger, outbox)
                               | relay
                               v
                             Kafka -> stream-processor -> context views
                               ^                               |
                               | audit.recorded                v
                audit-writer <-+--------- context-query-api -> client

| Component | State | Operations | Interacts through |
| --- | --- | --- | --- |
| write path (`services/ingest-api/src/service.ts`) | resources, `ingestion_requests`, `idempotency_keys`, `outbox_events`; open transactions; the connection pool | ingest a customer, an order, a session; answer a retry | unique indexes, row locks, the pool |
| outbox relay (`services/ingest-api/src/relay.ts`) | `publish_status`, `attempt_count`, `available_at` of outbox rows; the running flag | tick: claim, publish, mark published or failed; start, stop | row locks, Kafka |
| projections (`services/stream-processor`) | three context views, `projection_event_applications`, `projection_dead_letters`; offsets of the group | handle a message: validate, apply or dead-letter; replay | consumer group, row and table locks |
| context queries (`services/context-query-api`) | none of its own | read a context, publish the audit event, answer | the views, Kafka |
| audit writer (`services/audit-writer`) | `agent_audit_logs` | store an audit event | consumer group |
| API governance (`packages/shared-http`) | rate-limit buckets of one process, configured tokens | authorise, limit, refuse | a request hook of the two HTTP APIs |
| migrations (`packages/shared-db/src/migrations.ts`, `infra/scripts/migrate.ts`) | `schema_migrations` and the schema | apply a release's files in order | primary key, transactions |
| seeds (same file), HTTP client, probes, `presentation-web` | none | - | - |
| event contracts (`packages/shared-events`) | none | validate, publish | Kafka |

**What is hard.** Every service runs in several instances, each handling
requests or messages concurrently; the only synchronisation is what PostgreSQL
does under READ COMMITTED (locks and unique indexes) and what a Kafka consumer
group does. Processes crash between any two statements; a commit can take
effect without being acknowledged; Kafka delivers again what was not committed;
a consumer that lost its partition goes on for a while; a failed outbox row
comes back later and so out of order.

**What must hold.**

- *write path*: a retry names the resource the first request created, for the
  same payload only; the four rows of an ingestion appear together or not at
  all; nothing a client was told is lost; tenants do not mix; nobody waits for
  ever.
- *relay*: a row marked published is in its topic; no two relays hold a row; a
  row that fails for ever does not starve the others; whatever can be published
  is.
- *projections*: no message is lost; a view row and the ledger of applied
  events change together; rows never go back in time; redelivery has no second
  effect; no update is lost; the partition never blocks.
- *context queries and audit writer*: no context is disclosed unless its audit
  event was accepted by the broker; each accepted audit event is stored once.
- *from end to end*: what was stored is projected in the end or has left a trace,
  and an outbox and a topic that look drained do not deceive.
- *governance*: a client is refused only for its own requests, gets less than
  twice its limit in any window's length, and is never locked out; `retry-after`
  suffices.
- *migrations*: a file is applied once, in order, also when runners race or stop,
  and every release that does not conflict is applied in the end.

## The plan

Modelled and checked, in this order, the most important behaviour first, and
then proved:

| | Module | Proofs |
| --- | --- | --- |
| 1 | `IdempotentStore` (abstract), `Ingest` (implements it) | `IngestProofs`, `IngestAnswersProofs` |
| 2 | `OutboxRelay` | `OutboxRelayProofs` |
| 3 | `Projection` | `ProjectionProofs` |
| 4 | `ContextAudit` | `ContextAuditProofs` |
| 5 | `Governance` | `GovernanceProofs` |
| 6 | `Migrations` | `MigrationsProofs` |
| 7 | `Pipeline` (`OutboxRelay` and `Projection` over their topic) | `PipelineProofs` |

Every safety invariant and action property that a passing run checks is proved.
What is left to TLC, liveness and the disagreements with the documentation, is
listed under [Proofs](#proofs). None of the modules has a recursive operator;
their constants have named assumptions.

## Ingest: the write path

`Ingest.tla` models `runIngestion`, the three `execute` and `loadExisting`
functions it is given, and `withTransaction`.

| Model | Code |
| --- | --- |
| `db` | committed rows of the resource tables ("resource"), `outbox_events`, `ingestion_requests`, `idempotency_keys` ("ledger") |
| `writes[h]` | rows written by the open transaction of handler `h` |
| `pc[h]`, `cmd[h]`, `target[h]` | the next statement, the request, the resource id drawn or looked up |
| `reply[h]`, `accepted` | the outcome; the responses clients have received (history) |
| `Receive`, `Connect`, `Respond` | a request arrives, waits for a pooled connection, is answered |
| `FindLedgerRow`, `KeyReused`, `Touch`, `LoadExisting`, `LoadMissing` | the path of a known key |
| `StartExecute`, `FindCustomer`, `Insert...`, `ReserveKey`, `Commit` | the path of a new key |
| `UniqueViolation`, `Reconnect`, `LookupRequest`, `VerifyHash`, `HashMismatch`, `RethrowViolation` | the loser of a race, in its second transaction |
| `Fail`, `CommitUnacknowledged`, `Crash` | any statement fails, the acknowledgement of a commit is lost, the process stops |

An action is one SQL statement, so that the statements of concurrent requests
interleave as they do in the code. A statement sees the committed rows and its
own writes. `MustWait` is PostgreSQL's rule that a write which clashes with an
uncommitted row waits for that transaction; `Clashes` is error 23505.

*Abstractions.* The columns of a row are functions of the command and of the
UUIDs drawn for it, and one member of `Id` stands for all UUIDs of one
transaction (request id, resource id, event id), which are drawn together and
never compared with each other. Payloads are compared by hash, so a body is a
model value. `touch` locks the ledger row by writing a new version of it, which
is the same row in the model.

Properties: `TypeOK`, `IdempotentAnswers`, `AcceptedIsStored`, `AllOrNothing`,
`ConflictIsReal`, `NotFoundIsReal`, `FreshOnce`, `OrderHasCustomer`, `Refines`
(the write path implements `IdempotentStore`, in which a command creates a resource and its
event in one step), `EveryRequestEnds`. `IndexesHold`, that no unique index is
ever violated, is proved for every instance and not checked by a run.

`NotFoundIsReal` judges a 404 at the step that decides on it: an order gets one
while its customer is not stored, and as the customer of a stored order is
(`OrderHasCustomer`), no retry of it does. There is one exception, which
`docs/data-model.md:10` ("enforces request deduplication within a scope") does not
announce: the unique index of `ingestion_requests` and the second lookup have no
scope, so a key used for one request type makes a first request of another type
end in 404.

| Run | Question | Bounds and why they suffice |
| --- | --- | --- |
| `ingest_core` | do retries, reused keys, clashing references, two tenants, crashes and lost commits break idempotency or atomicity, and is the idempotent store implemented? | two handlers: locks, clashes and lookups relate two transactions, and the third party is the committed state. Five commands: a customer, another payload and another scope under its key, and in a second tenant a customer with the same reference and an order under that customer's key. Three ids, as many as resources can exist. 177 thousand states. |
| `ingest_live` | does every request end? | three handlers on two connections, so that the pool runs out while others wait for locks; two ids, which leaves one rival for each. 91 thousand states. |

*Fairness* (`FairSpec`): strong fairness of each handler's next statement.
`pg-pool` serves waiters first in first out, and so does a PostgreSQL lock
queue, so a statement that is possible again and again is executed in the end.
Nothing is assumed of clients, of failures or of crashes.

Symmetry is used in the safety run only: handlers, and the ids no command
names, are interchangeable.

## OutboxRelay

`OutboxRelay.tla` models `start`, `tick`, `publishClaimedRow` and `stop` of the
relay, and the statements `claimBatch`, `markPublished` and `markFailed`.

| Model | Code |
| --- | --- |
| `row[e]` | `publish_status` of the outbox row of event `e` |
| `queue` | the rows that can be claimed, by `available_at` |
| `appended` | events the broker has |
| `pc[r]`, `found[r]`, `batch[r]` | where `tick` stands; the snapshot of the claiming select; the rows in hand |
| `mode[r]`, `stops` | running, stopping (publisher disconnected, tick still going), down; the stops so far |

Time is abstracted to the order in which rows come due: `ComeDue` returns a
failed row to the end of the queue, because its `available_at` is the moment
it comes due; `Insert` puts a new row anywhere, because its `available_at` was
taken before its commit. The claiming select locks row by row and evaluates its
condition again on a row that changed while it waited. `Without` takes rows out
of a sequence, the others keep their order; it is defined by their ranks.

| Run | Question | Bounds |
| --- | --- | --- |
| `relay_safe` | do racing, failing and stopping relays skip an event or hold the same row? | two relays, three events (one never accepted), batches of two, so that batches overlap partly; two stops. 72 thousand states. |
| `relay_live` | is every publishable event marked in the end unless its instance stopped with it in hand? | batches of one, so that a row that fails for ever competes for the whole batch; one stop. 4 thousand states. |

`Publish` and `PublishUnacknowledged`, together `Deliver`, are the steps that
append to the topic; in the second one publish raises all the same.

"If Kafka publish succeeds and the subsequent status update fails, the row can be
retried and published again" (`docs/ingestion.md:98`) is part of
`PublishedUnlessOrphaned`, with the exception it names: a row whose instance
stopped (or whose `markFailed` failed too, which ends the process) between claim
and status update is `processing`, and nothing ever claims or resets such a row.
`Orphaned` describes it; `OrphanedByStopOnly` says nothing else leads there.

*Fairness*: timers fire, backoffs pass, stopped instances are started again,
statements return (weak); a row lock is granted, and Kafka accepts and the
database marks an event that they are asked to again and again (strong, per
event): they may refuse any number of times but not every time. `MaxStops`
bounds stops and crashes. `CHECK_DEADLOCK FALSE`, because the system is quiet
when all rows are dealt with.

## Projection

`Projection.tla` models a topic partition, the consumer group that reads it,
`KafkaProjectionConsumer`, `ProjectionApplier` and the replay script.

| Model | Code |
| --- | --- |
| `view` | rows of the partition's context view: `source_occurred_at` and, per column, the event that wrote it |
| `ledger`, `dead` | `projection_event_applications`; `projection_dead_letters` |
| `log`, `committed`, `owner`, `member`, `position[c]` | the log, the committed offset, the assignment as the group and as each consumer sees it, the next message |
| `pc[c]`, `existing[c]`, `written[c]` | the next statement of `apply`; what `findById` returned; the uncommitted row |
| `reset` | the replay script has truncated, and locked, the views |
| `dropped`, `skipped`, `joined` | history: messages handled without effect; messages before a first start at the end of the log; consumers that have ever joined |

`Duplicate`, `Handle`, `HandleOther`, `Find`, `FindNoneOrNewer`, `Upsert`,
`UpsertNewer`, `Commit` are the statements of `apply`; `Fail`,
`CommitUnacknowledged`, `DeadLetter`, `DeadLetterFails`, `Refresh`,
`RefreshFails` its error paths. An event is of kind *create* (sets every
column), *update* (sets some and keeps the rest as read), *other* (valid, no
handler), *poison* (fails validation) or *unstorable* (fails validation, and its
identifiers are not UUIDs). A log may hold an event several times, always with
the same contents (`EventAssumption`): whoever publishes it again publishes the
row it stored. With equal timestamps the upsert's `<=` lets a redelivered event
that two consumers handle undo a later one, so `InOrder` asks for increasing
ones. The Kafka client commits offsets whenever it likes
behind the handler; after a rebalance the previous owner goes on with what it
has fetched (`member` without `owner`) but its offset commits are refused.

| Run | Question | Bounds |
| --- | --- | --- |
| `projection_races` | do two consumers that race, fail and crash, beside the replay script, lose a message or an update, split view from ledger, make up a row, or go back in time? | two assignments and one failure: enough for a stale owner beside the new one, one of them failing; one replay; two logs of four and five messages (the duplicate of a create behind an update; an early update and its redelivery, a poison message and an event without handler). 1.3 million states. |
| `projection_stale`, `projection_replay` (violations) | what the documentation says | see below |

The partition grows while consumers run (`Produce`), so a consumer that starts at
the end of the log does so at any point of it, and may pass over (`skipped`) the
create event of a resource whose updates it then handles. `RowsAreRecorded` says
that these make up no row: whatever was skipped, dead-lettered, cleared or is still
to come, a row begins with a recorded create event, and each column shows an event
that sets it and has been recorded since the last replay. The second part is about
the script: `apply` reads a row in one statement and writes it back in another, and
only the locks of its transaction, on the ledger and on the view, keep `resetViews`
from clearing both in between. `UpdatesSurvive` bounds the disagreement `projection_stale` shows. Racing
consumers lose no update while the events of each entity first appear in the
order of their timestamps (`InOrder`) and no message is dead-lettered, skipped or
cleared; a consumer that has always been alone (`Alone`) loses none on any log.
Neither condition can go: when an update comes before its create, and is dropped,
two consumers lose it without any failure. One has gone on and is about to write a
later update over the row it has read; the other handles the dropped message
again, this time after the create, and records it; the first then writes the old
columns back.
`EveryMessageAccounted` is checked by the `pipeline_flow` run. Its exception is
`Blocked`: "poison messages are written to `projection_dead_letters`"
(`docs/projections.md:23`), but a message whose `event_id` or `tenant_id` is not
a UUID cannot be inserted there; `handleMessage` raises, the message is
delivered again for ever, and what lies behind it never.

*Fairness*: the group finds an owner when there is none; consumers go on, and
the replay script ends (weak); a consumer's statements are not refused every
time (strong). `Leave` and `Crash` of the owner are bounded by `MaxJoins`, so
that an owner can always be found.

## Pipeline: from the outbox to the view

`Pipeline.tla` composes `OutboxRelay` and `Projection` (both by `INSTANCE`) over
the topic: a `Deliver` step of the relay appends the row's event to the log that
the consumers read. Of the write path only its outcome appears, the row that
commits together with its resource (`AllOrNothing`, proved for `Ingest`). Other
producers append a poison message or one that blocks the partition.

| Property | Statement |
| --- | --- |
| `DrainedIsProjected` | when a row is marked published and the group has committed the whole topic, the event is in the view or there is a trace of why not: an operator may trust a drained outbox and a lag of zero |
| `StoredIsProjected` | a stored resource shows up in the view in the end, or has left an orphaned row, a dead letter, a skipped or a blocking message |
| `EveryMessageAccounted` | no failure, crash, rebalance or poison message holds up the partition for ever, except one that cannot be dead-lettered |

`pipeline_flow`: one resource, one relay that stops once, one consumer assigned
twice with one failure, one foreign message of either kind, and up to two copies
of the event in the topic (`MaxCopies`; a third is handled as the second). Rows
race in `relay_safe` and consumers in `projection_races`; what the composition
adds, an event that the relay repeats while the consumer is failing, is
redelivered, restarts or is blocked, takes one of each. 200 thousand states.

*Fairness*: that of the two components, and nothing of clients and producers.

## ContextAudit

`ContextAudit.tla` models `getBatchContext`, the three single queries,
`emitAudit` and the answers of `context-query-api`, the topic, and the consumer
group of `audit-writer` with `handleEvent` and `insertImmutable`.

| Model | Code |
| --- | --- |
| `answer[r]` | the status a request was answered with |
| `item[r][i]` | where the handling of the i-th entity of request `r` stands: reading the entity, reading what is related, publishing, or ended (*found*, *missing*, *unreadable*, *unaudited*) |
| `log` | `audit-events` and `agent-events`, whose relative order nothing depends on |
| `rows` | `agent_audit_logs`: the `source_event_id` of each row |
| `committed`, `owner`, `member`, `position[c]`, `busy` | the consumer group, as in `Projection`; `busy` consumers run `refreshLag` |
| `failed`, `skipped` | history: offsets whose handler raised; offsets before a first start at the end of the log |

`Find`, `FindNone`, `Related`, `ReadFails`, `Publish`, `PublishFails` are the
steps of an item; `Refuse` answers as soon as one item ends badly, while the
others go on, and `Disclose` when all have ended well. `HandleEvent`,
`IgnoreEvent`, `RejectEvent`, `InsertFails` and `Return` are the ways through
`eachMessage`, which never raises: a message whose handler failed is passed
over. A publish can raise although the broker has the message, and the
client's own retries can append it twice. Whether an entity is found is a
choice, because projections and replays change the views between any two reads.

Single queries are batches of one with another refusal for a missing entity.
An event is announced for the entity a query names, not for the related rows
its answer includes; the properties say so of the named entity only.

| Run | Question | Bounds |
| --- | --- | --- |
| `audit` | is anything disclosed that was not announced, announced that was not read, stored twice, or passed over without trace; does each disclosure become a row or a known loss? | one batch of two (the second read in one round, the first in two): one item failing while the other goes on; one foreign message of each kind; two consumers and two assignments, so that a consumer that lost the partition handles messages beside the new owner; one failure or crash. Queries share only the log, where one foreign message stands for the others. 607 thousand states. |
| `audit_lost` (violation) | is every access persisted when nothing fails? | see below |

*Fairness*: the group finds an owner when there is none, and consumers go on
(weak). Nothing is assumed of clients or of the API.

## Governance

`Governance.tla` models `registerApiGovernance`: tokens, the tenant and actor
headers, exempt paths and the fixed-window limiter. The hook has no `await`, so a
request goes through it in one step; requests of all clients and the clock
interleave.

| Model | Code |
| --- | --- |
| `buckets[k]` | `buckets`: `count`, and the ticks left until `resetAt` |
| `told[k]` | ticks until the moment the last `retry-after` named |
| `answer` | the last request of the tick and its status |
| `asked`, `passed` | history: for each age, up to the length of a window, how many requests are that old or younger |
| `Matching`, `Principal` | the tokens with the request's secret; the first of them |
| `RefuseCredentials`, `RefuseTenantHeader`, `RefuseTenant`, `AnswerExempt` | the ways through the hook before the limiter |
| `OpenWindow`, `CountRequest`, `Limit` | the branches of the limiter |
| `Tick` | `Date.now()` advances |

Time is relative (ticks left), which keeps the state space finite without a bound
on time; a bucket whose window is over behaves as one that does not exist. Counts
stop one above the limit, because only the comparison reads them. Several ticks
make a second, so that rounding in `retry-after` matters.

`BurstBounded` is what a fixed window can promise: in any interval as long as the
window fewer than twice `rateLimitMaxRequests` pass. `LimitedByOwnRequests`: a
client that gets 429 has itself sent more than the limit, for that tenant and
route, in the last window. It needs token identifiers that differ
(`TokenAssumption`), which `parseApiAuthTokens` does not check.
`RetryAfterSuffices` and `NotLockedOut`: refused requests are counted and yet
never prolong the window.

`governance_limits`: windows of two ticks, seconds of two ticks and a limit of
two, the smallest with a request inside the window, at the seam and over the
limit; three tokens, two of them for all tenants, of which one is listed behind
another token with its secret and never decides; eight requests, one for each way
through the hook. 5.8 thousand states. *Fairness*: the clock goes on.

## Migrations

`Migrations.tla` models `runSqlMigrations` as `infra/scripts/migrate.ts` calls
it: several runners, each with the files of its own release, each started again
and again.

| Model | Code |
| --- | --- |
| `ledger` | `schema_migrations`: the checksum of each file |
| `schema` | the files whose SQL has taken effect, in order, and by which runner |
| `applied[r]`, `file[r]`, `pc[r]` | the map read before the loop, the file reached, the next statement |
| `ReadLedger` ... `Commit` | the statements, one action each |
| `RecordExists`, `ChecksumMismatch`, `Fail`, `CommitUnacknowledged` | the ways a run ends with an error |

The script passes a pool, and `begin`, the SQL, the insert and `commit` are
separate `pool.query` calls. `pg-pool` hands out the connection released last, and
a single sequential caller therefore stays on one connection; a query that fails
discards the connection, which ends the transaction on the server, whatever
connection the `rollback` goes to. The model relies on that.

`LedgerIsSchema`: a file is recorded exactly when its SQL has taken effect, and
none takes effect twice. `AppliedInOrder`: on everything its release sorts before
it. `DoneIsMigrated`: a run without error leaves the schema its release expects.
`EveryReleaseMigrates`: runners that are started again succeed unless a release
has applied other contents under the same name.

`migrations_race`: three runners of three releases, one of which adds a file
between two others while the third has other contents for it; one failure.
99 thousand states. *Fairness*: a runner that was started goes on, and is started
until it succeeds.

## Proofs

Eight modules prove theorems for all values of the constants: any number of
processes, requests, events, files and tokens, any batch, pool and window size,
any number of failures, and any contents of the logs that the assumptions allow.
Each proof has the same shape: an invariant that is inductive, one preservation
lemma for each action or group of actions that do the same to the state, the
property as its consequence. All invariants were first checked with TLC on the
instances above.

### Assumptions

| Module | Assumption | Why the code justifies it |
| --- | --- | --- |
| `Ingest` | commands are well typed, null values are not values, the pool has a connection | request schemas; `pg-pool` |
| `OutboxRelay` | batches are not empty; bounds are numbers | `OUTBOX_BATCH_SIZE` is a positive integer |
| `Projection` | `EventAssumption`: all messages with one event id that write a view are equal | an event is stored once in the outbox and published from there |
| `ContextAudit` | a batch has one to ten items; foreign messages are no audit events and have other ids | the request schema; event ids are random UUIDs |
| `Governance` | token identifiers differ; window, second and limit are positive | the first is not checked by the code (see [Governance](#governance)) |
| `Migrations` | files are numbered | by the order of their names, which `listSqlFiles` sorts |
| `Pipeline` | foreign messages create and update no resource | only the relay publishes such events |

### `IngestProofs`: the transactions of the write path

| Theorem | Statement |
| --- | --- |
| `TypeCorrect`, `IInvCorrect` | `Spec => []TypeOK`, `Spec => []IInv` |
| `IngestionIsAtomic` | `Spec => []AllOrNothing` |
| `IndexesAlwaysHold` | `Spec => []IndexesHold` |
| `AcceptedAlwaysStored` | `Spec => []AcceptedIsStored` |
| `AnswersAreIdempotent` | `Spec => []IdempotentAnswers` |

None of the properties is inductive: that a commit is atomic depends on what its
transaction has written before. `IInv` therefore says of each handler that
creates a resource exactly which rows it has written at its statement, that its
identifier is its own, and that nothing committed has it (`InFlight`); of all
rows, committed or not, that none conflict (`NoConflicts`); of a handler that
answers from an existing row, that the ledger holds that row for its key and
payload (`Lookup`). A commit then adds four rows with a fresh id that conflict
with nothing, so atomicity and the indexes are kept; and since ledger rows are
unique per tenant, scope and key, two answers for one key name the same row.

### `IngestAnswersProofs`: what clients are told

| Theorem | Statement |
| --- | --- |
| `FreshIsUnique` | `Spec => []FreshOnce` |
| `ConflictsAreReal` | `Spec => []ConflictIsReal` |
| `NotFoundsAreReal` | `Spec => NotFoundIsReal` |
| `OrdersHaveCustomers` | `Spec => []OrderHasCustomer` |
| `ImplementsStore` | `Spec => Refines`: every step of `Ingest` is one of `IdempotentStore` or a stutter |

`AnswersInv` adds to `IInv` that the identifiers of *fresh* answers, given or
about to be given, differ, that an order under way has found its customer, and
that the row behind a pending 409 is still there, since committed rows
stay (`DatabaseGrows`). In the refinement a commit creates the resource with its
event, and `Respond` answers; everything else, lookups, inserts, roll-backs and
crashes, stutters. That a commit finds no resource for its key (`CommitCreates`)
is `NoConflicts` again.

### `OutboxRelayProofs`

| Theorem | Statement |
| --- | --- |
| `TypeCorrect`, `RelayInvCorrect` | `Spec => []TypeOK`, `Spec => []RelayInv` |
| `PublishedAreAppended` | `Spec => []PublishedIsAppended` |
| `ClaimsAreExclusive` | `Spec => []ExclusiveClaim` |
| `OrphansComeFromStops` | `Spec => []OrphanedByStopOnly` |

`RelayInv`: queue, snapshots and batches hold distinct rows; what a claiming
transaction has found or locked is in the queue, what a relay has claimed is not;
batches of different relays are disjoint. The step that needs all of this is
`Claim`, which takes its rows out of the queue and of every other snapshot. The
lemmas on sequences say what `Append`, `Tail`, the insertion and `Without` do to
the set of elements and to their being distinct; `RankBijective` shows that ranks
number the remaining elements without gaps.

### `ProjectionProofs`

| Theorem | Statement |
| --- | --- |
| `TypeCorrect`, `ProjectionInvCorrect` | `Spec => []TypeOK`, `Spec => []ProjectionInv` |
| `NothingIsLost` | `Spec => []NothingLost` |
| `ViewShowsNewest` | `Spec => []ViewMatchesNewest` |
| `RowsOnlyAdvance` | `Spec => ViewOnlyAdvances` |
| `RowsStayRecorded` | `Spec => []RowsAreRecorded` |
| `UpdatesAreKept` | `Spec => []UpdatesSurvive` |

`ProjectionInv` has three parts, each proved on top of the one before. `BaseInv`:
what a consumer's statement says of its message and of the rows it has read and
written. `PassedInv`: every message before any consumer's position, not only
before the committed offset, is accounted for, and so is the one whose lag
refresh is under way. `ViewInv`: of the transactions about to commit each has
another row, none of which has become newer since the upsert compared it
(`Locks`), so a commit always shows the newest event. `RowsStayRecorded`
adds that the rows which transactions have read are recorded as well
(`RecordedInv`): the ledger only grows until the script clears it, and then no
transaction that has looked at the ledger is open. `UpdatesAreKept` needs
`FoldInv` on top: a consumer that has read a row which is not newer than its
update has read, in every column, what the newest recorded event wrote there
(`ReadsNewest`); and an event that was dropped and is not recorded is older than
the row that replaced it (`DroppedIsOlder`), so that a create dropped for that
reason never comes back under an update.

### `ContextAuditProofs`

| Theorem | Statement |
| --- | --- |
| `TypeCorrect`, `AuditInvCorrect` | `Spec => []TypeOK`, `Spec => []AuditInv` |
| `DisclosuresAreAnnounced` | `Spec => []DisclosedIsAnnounced` |
| `AnnouncementsAreReal` | `Spec => []AnnouncedWasRead` |
| `RowsAreUnique` | `Spec => []StoredOnce` |
| `NothingIsSkipped` | `Spec => []NothingSkippedSilently` |

`AnnounceInv` says of every item, of requests that were answered, refused or
crashed too, when the log has its event; `HandledInv` that every message any
instance has gone past is stored, ignored or given up, so that a commit of its
offset, also after a rebalance, covers nothing else.

### `GovernanceProofs`

| Theorem | Statement |
| --- | --- |
| `TypeCorrect`, `GovernanceInvCorrect` | `Spec => []TypeOK`, `Spec => []GovernanceInv` |
| `BurstsAreBounded` | `Spec => []BurstBounded` |
| `LimitsAreDeserved` | `Spec => []LimitedByOwnRequests` |
| `RetryAfterIsEnough` | `Spec => []RetryAfterSuffices` |

`BurstInv` dates requests: the requests of an open window are as old as the
window at most and the one that opened it is exactly that old, and of the
requests before it fewer than the limit can still be remembered, because the one
that opened their window no longer is. `CountedInv` compares the bucket of a token
with the requests its secret has made since the window was opened; that one
bucket counts for one secret only is `KeyTellsClient`, where `TokenAssumption` is
needed. That a request has a first matching token is the least-number principle,
proved here from the well-foundedness of inclusion among finite sets
(`LeastNumber`), since an induction theorem cannot be cited.

### `MigrationsProofs`

| Theorem | Statement |
| --- | --- |
| `TypeCorrect`, `MigrationsInvCorrect` | `Spec => []TypeOK`, `Spec => []MigrationsInv` |
| `LedgerTellsSchema` | `Spec => []LedgerIsSchema` |
| `FilesInOrder` | `Spec => []AppliedInOrder` |
| `DoneMeansMigrated` | `Spec => []DoneIsMigrated` |

A runner decides from a ledger it has read long ago. `ReadIsKept` says that what
it has read is still true, because records are never changed; `FileByFile` that
every file of its release before the one it has reached is recorded with its
release's contents, passed over or applied; `CommitAlone` that the primary key
leaves one transaction per file name. A commit then adds the one record and the
one effect of its file, after those it sorts behind.

### `PipelineProofs`: the composition

| Theorem | Statement |
| --- | --- |
| `RelaysImplemented` | `Spec => Relays!Spec` |
| `PipelineInvCorrect` | the invariants of both components, and `TopicInv` |
| `ViewShowsNewest` | `Spec => []Consumers!ViewMatchesNewest` |
| `DrainedMeansProjected` | `Spec => []DrainedIsProjected` |

The proofs of the components are reused. `RP` and `CP` are instances of
`OutboxRelayProofs` and `ProjectionProofs`; their theorems hold under the
components' assumptions, which `RelayAssumptions` and `ConsumerAssumptions`
discharge. `CP`'s topic has no logs of its own: what producers may append, and
that it keeps `EventAssumption`, is shown here, for the events of relays that
retry (`KnownEvents`). `TopicInv` connects the two: each event the relays have
appended is in the topic, and no consumer drops one as out of order, since a
resource has a single event. A row marked published is then in the topic
(`PublishedIsAppended`), and a committed topic accounts for it (`NothingLost`).

### What is only model-checked

- Liveness, which the proof system does not handle under fairness:
  `EveryRequestEnds`, `PublishedUnlessOrphaned`, `EveryMessageAccounted`,
  `StoredIsProjected`, `DisclosedIsStored`, `NotLockedOut`, `EveryReleaseMigrates`.
- The violations of the next section.

## Disagreements between documentation and code

Each is a run whose property states the documentation and which TLC refutes.

- `projection_stale`: "Projection correctness assumes ordering only within the
  documented partition key" (`docs/architecture.md:161`). Update handlers read
  a row without a lock and write all of it back; with two consumers around a
  rebalance and one failure an update recorded in the ledger is lost.
  `UpdatesSurvive` shows that on such a log races alone do not suffice.
- `projection_replay`: the replay script "starts consumption from earliest
  offsets" (`docs/projections.md:35`). The consumer group has committed offsets,
  so it does not, and the cleared views stay empty.
- `audit_lost`: "`context-query-api` emits an `audit.recorded` event describing
  the access", "`audit-writer` persists the immutable audit row"
  (`docs/architecture.md:117`). The event carries the caller's `x-request-id` as
  it came; when that is not a UUID the writer's validation refuses the event,
  the error is swallowed, and an access that was answered with 200 has no row.

Two more are exceptions that passing properties name: an orphaned outbox row
(`docs/ingestion.md:98`, see OutboxRelay) and a poison message that cannot be
dead-lettered (`docs/projections.md:23`, see Projection). Seen while reading,
without a run:

- `README.md:186` queries `/ready` of the APIs without a token, and so does
  `presentation-web`; only `/health` and `/metrics` are exempt from governance, so
  the answer is 401 and the runtime table never shows *healthy*.
- `ingest-api` records request metrics only when `contextStartedAtMs` is set,
  which only `context-query-api` does.

## What is not modelled

- Seeds: one development file whose inserts do nothing on conflict.
- The HTTP client of `context-query-api`: one request, no state, no retry.
- Health and readiness endpoints: probes of the moment that nobody depends on.
- Event contracts, configuration, logging, observability, shared types: no
  state that others depend on; whether a message passes validation is a choice
  in the modules that consume it.
- `presentation-web`, load tests, container files: around the system, not part
  of it.
- Within the modelled components: HTTP parsing and the schemas of request bodies
  (a request that reaches a handler is well formed), log and metric calls, SQL of
  the inspection scripts, the growth of the limiter's map, several topics and
  partitions (nothing orders them, so one stands for each).

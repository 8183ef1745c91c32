# Core Bridge in TLA+

Core Bridge (NestJS, `src/src`) takes access requests from HST over HTTP, records them in MySQL,
puts them on RabbitMQ for an access processor (Wristpay), receives the processor's answers on another
queue, and reports each result to HST's webhook. This directory holds TLA+ models of it, the TLC
configurations that check them, and TLAPS proofs.

## The system

| Component | State it keeps | Operations | Correct when |
|---|---|---|---|
| Request intake: `checkin.service.ts`, `checkimage.service.ts` | the running request | `createCheckin`, `createCheckimage`: isReady, create row, publish, mark PUBLISHED | a request that was published is recorded; its last write does not undo what the answer did |
| Transaction store: `transaction.service.ts` | `transactions`, `transaction_logs`, cache key `txn:<id>` | `create`, `updateStatus`, `findById` | status, log and cache agree once nobody is writing |
| Access-response consumer: `access-response.consumer.ts` | its handlers in flight | `onModuleInit`, `handleResponse` | every answer is recorded once per delivery or dead-lettered for a cause; a finished transaction is not reopened |
| Webhook consumer: `webhook.consumer.ts` | its handlers in flight | `onModuleInit`, `handleWebhook` | the status says what HST answered; every message ends in a conclusion |
| Webhook delivery: `webhook.service.ts`, `webhook-log.service.ts` | attempt counter, `webhook_logs` rows | `send` and its retries | success only if HST accepted; every attempt has its row; the call ends |
| AMQP messaging: `amqp.service.ts` | `isConnected`, the channel wrapper's setups, `retryCount` per consumer | `connect`, `ensureAllQueuesForProcessor`, `publish*`, `consume*`, `process*Message` | queues exist before they are used; consumers come back after a reconnect |
| Cache: `cache.service.ts` | Redis | `get`, `set`, `getOrSet` | never fails its caller; a stored null is no answer; not older than its TTL |
| Application registry: `application.service.ts`, `prisma/seed.ts` | `applications` | `create`, `findByApiKey`, the seed's deletes and creates | codes and keys unique; a registered key is accepted at once, a deactivated one refused in the end |
| Guards: `common/guards` | none | `canActivate` of the key and of the address guard | key, then address list, decide; the request acts for the owner of its key |
| Health, logging, filters, bootstrap, date utilities | none | reports, formatting, wiring | not about state |

They interact through calls (intake -> store, intake -> AMQP), through RabbitMQ messages
(`q.access-request.*`, `q.access_response.*`, `q.webhook.*`, each with a dead-letter queue), through the
shared database rows and cache keys, and through callbacks (the connection events set `isConnected`; the
channel wrapper runs the setup functions; `channel.consume` calls the handlers).

What is hard here: no prefetch limit is set, so the handlers of all delivered messages interleave at
every `await`, also with the HTTP request that created the transaction; RabbitMQ delivers at least once;
a handler that outlives its channel cannot settle its message, and the failed settlement ends the
process; a call that fails in the middle leaves what was written; HST's answer races a timeout; setups
run concurrently on every new channel and share retry counters; an application read before an await, from
the table or the cache, is used after it, while it is edited, deleted or created again. `PROJECT.json` lists each hazard at its line.

## Modules

| Module | Models |
|---|---|
| `AccessProtocol` | abstract: a transaction is recorded, requested, answered, notified in this order, and is called successful only once HST was notified; the verdict may change before the end |
| `TransactionFlow` | intake, store, both consumers, acknowledgements, connection and crashes, for a set of transactions |
| `TransactionFlow_proofs`, `_protocol`, `_settlement`, `_cache` | its theorems; each extends the one before |
| `SendContract` | abstract: what a call of `WebhookService.send` promises the webhook consumer |
| `WebhookDelivery` | `send` in detail: attempts, `webhook_logs` rows, timeouts, delays, failing writes, crashes |
| `WebhookDelivery_proofs` | its theorems |
| `AmqpTopology` | the channel wrapper, setups, queues, consumer registration, the start-up loops, and requests up to their publish |
| `AmqpTopology_proofs` | its theorems |
| `ApplicationRegistry` | `create`, a request through the cache, the two guards and `TransactionService.create`, Redis, an operator and `prisma/seed.ts` |
| `ApplicationRegistry_proofs` | its theorems |
| `MC*` | constants of the instances; the sizes are in the `.cfg` files |

`TransactionFlow` implements `AccessProtocol` (`ImplementsProtocol`) and uses of `send` just what
`SendContract` says; `WebhookDelivery` implements `SendContract` (`ImplementsContract`).
`TransactionFlow.Reconnect` assumes that queues exist and consumers register; `AmqpTopology` says when
they do (`ConsumersComeBack`), and `topo_counter` shows a case when they do not. `ApplicationRegistry` ends where `TransactionFlow`
begins: its `Record` is the insert in `TransactionFlow.CreateRow`, for which it shows whose transaction that is.

### Correspondence with the code

A step is what runs between two `await`s. In `TransactionFlow`, `req[t]` is the await that
`createCheckin`/`createCheckimage` is at; `rh[d]` that of the run of `handleResponse` for delivery `d`;
`wh[p]` that of the run of `handleWebhook` for delivery `p`, with the outcome it is writing. A delivery is
a message and the channel that delivered it, so a redelivery is a new run beside the old one. `respAt`
and `hookAt` say where RabbitMQ has each message. `status`, `audit`, `cached` are the row, the set of
actions logged, and the cache key. `updateStatus` is three steps (row, log, cache); the Prisma
`$transaction` of `handleResponse` is one. The `catch` block of `handleWebhook`, which writes FAILED again
and rethrows, is the outcome `SYSTEM_ERROR`. `epoch` counts channels: `ack` on a channel that is gone throws,
so does the `nack` of the `catch` block, and the promise behind `void this.process...` rejects: Node exits
(`UnhandledRejection`).

In `WebhookDelivery` a call is at one of its awaits (`pc`), `row` is the `webhook_logs` row of each
attempt and `post` what HST did with its POST, which it may do long after the timeout.

In `AmqpTopology`, `setups` are the functions the channel wrapper keeps, `run` where the run of a setup on a
channel is, `rpc` the calls that wait for the broker, in order (amqplib has one outstanding per channel),
`tries` the `retryCount` of each consumer. `link` separates the connection (`isConnected`) from
the channel: a refused bind or check closes the channel and leaves the connection up (`dead`). Promise
continuations run before anything from outside (`Quiet`).

In `ApplicationRegistry`, `creation[c]` is the await a call of `create` is at, `req[s]` that of a request:
`get` and `fill` in `getOrSet`, `query` in its factory, `lookup` and `record` in `TransactionService.create`.
`found` is the application that the request carries as `request.application`; the guards decide without
an await in between, so their decision belongs to the step that ends `findByApiKey`. `cache[k]` holds at
most one value, and a value is the set of the rows found: `{{}}` is a cached null, `{}` no value. `known` is
history, whether the key has had an active row ever since the request arrived; every step that changes a row
updates it. Nothing in `src` changes or deletes a row but `prisma/seed.ts`; `SetActive` and `SetIps` are an
operator at the database. `Fold` is what the collation of `api_key` compares: the provider is `mysql`
(`schema.prisma`, `migration_lock.toml`) and no collation is declared, so under MySQL's default two keys that differ
in case only are one key to `findUnique`, `findFirst` and the unique index, but two cache keys to Redis. The models
allow any `Fold`, equality included. Stored codes are upper case and need none. `owners` are the rows that transactions refer to by a required foreign key.

### Abstractions

* A failing database call changes nothing. A crash between a write and its answer is a crash after the write.
* `sendToQueue` and the broker's confirm are one step, while connected; a publish made while disconnected
  waits in the wrapper's buffer. A copy that the wrapper sends again is covered by a second answer.
* Answers of the processor for one id are numbered and come in the order of their numbers (they do not differ).
* A message that is no JSON, or has no `transaction_id`, behaves as one with an unknown id (`Stray`): it is nacked. An
  answer of a known id without a `status` (`Malformed`) throws at `toLowerCase()` and is nacked too, unless the
  transaction is already processed, when it is acknowledged like any other.
* Error codes, payloads, signatures and wording are left out; the URL check is a set of refused transactions.
* `webhook_url` is mandatory in both request DTOs, so the test of `webhookUrl` in `handleResponse` is true.
* `Crash` is followed by `Reconnect`: the start of the process is `AmqpTopology`'s subject. `waitForRabbitMQ`
  timing out is a restart.
* `AmqpTopology` declares a queue, its dead-letter queue and their bindings in one step, the exchanges in
  two. The channel wrapper is modelled from its documented behaviour: `addSetup` waits for the setups of
  an opening channel, keeps the function and runs it; a channel the broker closed is not opened again until the
  connection is. That an unhandled `error` event may end the process is covered by `Restart`.
* The order of applications and of services is free.
* In `ApplicationRegistry` the client address is chosen when the guard reads it: nothing that comes before it
  depends on it. A 429, a 400 and a 503 are one step, `TurnAway`. Failing calls are not bounded there: they
  end the request or the registration. Creates the failed seed script has already sent may still be done.

External (RabbitMQ, Node, HST, the processor, amqp-connection-manager) definitions are marked so in `PROJECT.json`.

## Runs and bounds

| Run | Instance | Shows |
|---|---|---|
| `flow_duplicates` | 1 transaction, 2 answers and one without a status, 2 failing calls, 1 channel | types; success only if HST accepted; a status without its log row needs a writer between the two writes, a failure or a crash; a dead-lettered message has a cause; a cached status was logged and, with one webhook, is the final one of the row; nothing reopens a settled transaction; refinement of `AccessProtocol` |
| `flow_strays` | an unknown id and a refused URL, 3 channels, 1 failing call | a dead-lettered message has a cause; an acknowledged answer was recorded; a message is unacknowledged exactly while a run on the open channel works on it |
| `flow_live` | 1 transaction, 3 channels, no failing call | a settled webhook message has a logged conclusion; an answer reaches one; refinement of `AccessProtocol` across drops and crashes |
| `flow_final` (violation) | 1 transaction, no failure | PUBLISHED overwrites a final status |
| `flow_swallowed` (violation) | 1 failing publish | SENT_WEBHOOK with no message to retry |
| `webhook_calls` | 2 calls of 2 attempts and a refused one, 1 failing write, 1 crash | rows, result and HST agree; no retry without its delay; every step brings a call nearer to its end, and every call ends; refinement of `SendContract` |
| `topo_fresh` | new or known broker, 1 application, 1 request under one of 2 spellings, 1 failing query, 1 lost connection or restart | no access request is lost to a missing queue, no webhook under a clean code; a request is answered, or its process dies, or it waits on a connection that stays up with its channel closed |
| `topo_live` | new or known broker, 2 applications, 1 lost connection or restart | a lost channel costs a service at most one application; with the queues in place only a drop costs a try; a consumer with tries left registers for good on a channel that stays |
| `topo_counter` (violation) | 1 drop | the shared retry count keeps a consumer from coming back |
| `topo_spelling` (violation) | a code with a character that is stripped | its webhook is dropped |
| `registry` | 2 keys (one in 2 spellings), 2 codes (one in 2 spellings), 2 requests at a time, 1 registration of 3 kinds, 1 edit, 1 seeding | applications stay distinct; a request acts for the owner of its key; a known key is not refused; stale rows leave the cache and the requests |
| `registry_ips` (violation) | 1 request, 1 registration | the address it registered with is refused |

Why the bounds suffice. Transactions meet only in the connection and the process, which the actions of one
transaction do not change, so one transaction per role shows every interleaving that matters; two
answers give the races of `handleResponse` with itself and with the late PUBLISHED; three channels give a drop
followed by the crash that a stale settlement causes (`Drop` leaves room for it), or two crashes; one failing
call reaches every `catch`, and two reach the failure inside the `catch` block. Two attempts have a retry and
a last one, and the one configured delay is no number, so the default is used. `MaxRetries` is 2 in
`AmqpTopology` instead of 10: one try that backs off and one that gives up. `AmqpTopology` has two services,
two spellings of one code or two applications, and up to two connections, so that a channel is closed by a refused
bind or check, lost in a drop or a restart, and opened again. A new broker is the case in which the checks of the
consumers may be refused; a known one has the queues of an earlier run. `topo_fresh` has requests, `topo_live` none:
its properties speak of the services only.
`TypeOK` there is more than types: it bounds `retryCount` by `maxRetries + 1`.
In `ApplicationRegistry` the seed writes one spelling of a key and the requests send the other, or a key that
nobody has. Two requests give the fill of one that races the read of another; one registration
races the seed for a code, for a key, or for neither; two registrations racing each other are not in the run and
are covered by the theorem. One edit comes before, between or after any two steps of a request.

Deadlock is checked in `registry` and `registry_ips`. In the other runs the bridge may rest, when every message
is settled and every call over.

Fairness. Weakly fair are: reconnecting (amqp-connection-manager retries for ever), deliveries to a
live consumer, each handler's next step (the event loop, a database and an HST call with a timeout all
return), the exit of the process after an unhandled rejection, in `WebhookDelivery` the steps of a started
call, in `AmqpTopology` the broker's answers, timers, continuations and the publish of a recorded request,
in `ApplicationRegistry` the next step of a request (ioredis gives a command up after its reconnection
attempts, the database answers or fails) and the end of a TTL.
Nothing is assumed of the processor, of HST's verdict, of new requests, or of failures; failures are only
bounded. In `TransactionFlow` liveness under failing calls does not hold and is not claimed: `flow_swallowed` shows
one reason. What the liveness properties of `AmqpTopology` leave open is in the properties themselves: that a channel stays
open in the end, that a consumer has tries left, that a dead channel is not followed by a drop.

## Proofs

All theorems hold for every value of the constants that satisfies the named assumptions of the module, and
need nothing else. What follows is the argument of each module: the strengthening that makes the property inductive.

`TransactionFlow_proofs`:

* `TypeCorrect`: `TypeOK`, one lemma for each group of actions.
* `SuccessIsAccepted`: a handler may be about to write SUCCESS, so `SuccessInv` adds `SuccessPlanned`: a
  run whose planned outcome is SUCCESS belongs to an accepted transaction.
* `AckedResponseIsRecorded`: an answer is also acknowledged when the row was terminal, so `RecordedInv` says
  in addition that a terminal row, a webhook message, a run of `handleWebhook`, and a run of
  `handleResponse` past its update imply the SENT_WEBHOOK row. That a webhook exists at all needs the row,
  which ties the two queues together.
* `SettledStaysSettled`: from `RowInv` (a handler past its first read, a webhook message and a request past
  its first write all have a row) and one step lemma over all actions: only a request in flight, a
  `handleResponse` past its duplicate check, or a webhook run writes, and a settled transaction has none of
  them and can get none.

`TransactionFlow_protocol`: `FlowImplementsProtocol`, the refinement. `OrderInv` says that the facts of
a transaction appear in the order row, request, answer, SENT_WEBHOOK, webhook, acceptance, and that the bridge
never works for an id it did not create; with it every action of the flow is a step of `AccessProtocol` or leaves phase
and verdict alone.

`TransactionFlow_settlement`:

* `DeadLettersHaveCause`: `CauseInv` follows the cause from the failing call, or the refused URL, through the planned
  outcome SYSTEM_ERROR to the nack.
* `SettledWebhooksAreConcluded`: `ConcludedInv` adds that a run past the log row of `updateStatus` has its
  conclusion in the audit trail, which only grows.
* `AuditGapsHaveCause`: `FirstChannel` says that while the first channel lasts nothing is delivered twice,
  so no second run takes the place of a writer that has not logged yet.
* `UnackedMessagesAreHandled`: `HandledInv` adds to `UnackedIsHandled` that no run is ahead of the open channel
  (`NoLaterRun`), so that a new channel starts with neither runs nor unacknowledged messages, and that the
  webhook of a delivery is in no queue before its run publishes it (`Unpublished`), so that no publish puts back a
  message that a run works on. It holds over all channels, with runs that outlive theirs.

`TransactionFlow_cache`: `CachedStatusAgrees`. That a cached status was logged needs only that a run at the cache has
logged its outcome, SYSTEM_ERROR included (`RunLogged`). That it is the final status of the row holds for one webhook
on the first channel; `Agrees` says that its single run has not come to the cache while nothing is cached and
carries the last status that a run has written, so the second round of writes of the `catch` block cannot
leave the first one's cached status behind. Two webhooks of one transaction, or a redelivery beside a run on a dead
channel, can: the model reaches such states, which is why the property has these premises.

`WebhookDelivery_proofs`: one invariant, `CallInv`, describes a call at each of its awaits: the trail of rows behind the
current attempt, the row of that attempt, the delays slept, and how the call ended. Six of its properties
follow from it, and so does the refinement of `SendContract` (`SendKeepsContract`). `SendAlwaysAdvances` is the
well-founded half of `SendReturns`: `StepsLeft`, a natural number, goes down with every step of the call, so the
call takes at most `5 * MaxRetries + 1` steps; that it takes them is fairness.

`AmqpTopology_proofs`: `TopologyInv` says which queues a run of a setup has declared at each of its stages, that
nothing has run on a channel before it was opened, that no setup has failed on an open one, and that a request
about to send has its queues declared or its setup waiting in the wrapper; from it `RequestsAreNeverDropped` and
`DroppedWebhooksHaveOddCodes`. `RetriesHaveCause` needs that a queue is declared only after the exchanges
(`ExchangesFirst`), so that once the queues of the services exist RabbitMQ refuses nothing. `SkipsHaveCause`
counts: `SkipInv` says of a service that awaits an ensure that it has passed over at most one application for each
lost channel, if no query failed, the channel of that ensure not yet counted, and its leaves are cardinality facts
of the library. `TypeCorrect` bounds the shared `retryCount`: a loop left on a closed channel counts only while a
try is left, so `TriesInv` can say that the count of a setup that waits for the broker is at most `maxRetries`, and
the throw that ends the wait counts one more. What a new channel starts, `Awaiting(setups)`, is a recursive
function of the sequence: that it yields setups of that sequence only is proved by its first index that would be
otherwise (`LeastNatural`), not by an induction theorem with an operator as its parameter.

`ApplicationRegistry_proofs`: `RowsStayDistinct` needs of `TypeOK` that ids are below `nextId`. `OwnerInv` adds to
`ActsForKeyOwner` that a cached row has the key it is cached under, as the database compares keys, and was active. `KnownInv` says of a
request with a known key that the key is active now, and that what it read and has not yet decided on is not empty.

Every safety property and every refinement that the passing runs check has its theorem. Only model-checked: liveness
(`ResponseReachesConclusion`, `SendReturns`, `ConsumersComeBack`, `RequestAnswered`, `StalenessEnds`:
fairness and ENABLED are outside the prover's reach), and what the violation runs refute.

## Findings

The violation runs show five disagreements between the code and its own comments or documentation; each is in
`PROJECT.json` with the line it contradicts. In short: a final status is overwritten by a late PUBLISHED
(`flow_final`); a failed webhook publish is never retried (`flow_swallowed`); `retryCount` outlives its channel
(`topo_counter`); webhooks are published under a code spelled otherwise than their queue (`topo_spelling`);
`create` does not store `allowedIps`, so a new application is refused everywhere (`registry_ips`).

A sixth disagreement is with a unit test and has no run. `webhook.consumer.spec.ts:197-203`, "should wait for RabbitMQ
(no auto consumer start)", lets `findMany` return WRP001 (`test/unit/jest-setup.ts:99`), calls `onModuleInit`, and expects that
`consumeWebhook` is not called: "Consumers start on-demand, not at startup". `onModuleInit` (`webhook.consumer.ts:26-58`) starts
a consumer for every application it finds, and so does the model; the comment at `access-response.consumer.ts:28`,
"Start consumers for all existing processors", is on the side of the code. A run could only show that a consumer is
registered, which the test, were it run, shows by failing. `ConsumersComeBack` states what the code promises.

More observations follow from the models and have no run. With three attempts only the first two of the three
configured delays are slept. A retry inside one run of a consumer's setup cannot succeed, because only a closed
channel makes a try fail and the loop keeps that channel. A code that was not in the database at start-up gets
queues with its first request, and consumers only with the next start. On a channel that a refused bind or check
has closed, a request passes `isReady`, which looks at the connection, and waits for ever if the connection stays
up: `RequestAnswered` has that case as its exception, and `topo_fresh` does not hold without it. The loser of two
concurrent registrations gets a 500 instead of a 409, because the refusal of the unique index is not caught. After
a seeding, requests with a cached application fail at the foreign key until the cached row expires. `migration.sql`
is written for PostgreSQL, though its lock file and the schema say MySQL, and lacks `is_active`, `allowed_ips` and
the unique index of `api_key`; the models follow `schema.prisma`, from which the client is generated. `nowDate`
adds its correction with the wrong sign: on a server in UTC it is seven hours early, and `queued_at` shows UTC.

## Not modelled

Logging, filters, interceptors, date formatting, configuration and wiring keep no state the properties speak of. The
health endpoint only reports. Rate limiting is the throttler library. Signatures, URL syntax and the layout of dates are
data. Graceful shutdown is a crash for the broker and the database. `findByCode`, `markWebhookSent`,
`updateStatusWithDetails`, `CacheService.del`, `formatDateTime` and `HealthService` are called by nothing in `src/src`.

## Plan

Done: `TransactionFlow` with `AccessProtocol`, `WebhookDelivery` with `SendContract`, `AmqpTopology`,
`ApplicationRegistry`; both refinements and all safety properties proved.

1. A composition of `AmqpTopology` with `TransactionFlow` for the way a lost consumer stops the flow: an answer
   waits in its queue until the next start.
2. The growth of the setups with every request, and codes registered after the start, which have queues and no
   consumer: properties for the two hazards that have none yet.
3. An abstract registry (a key is valid or not, at most one TTL late) that `ApplicationRegistry` implements.
4. `RowsStayDistinct` extended to the rows that transactions refer to.

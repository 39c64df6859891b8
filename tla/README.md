# Verification of the webhook processor

TLA+ models of the service, TLC runs that check them on small instances, and
TLAPS proofs of the main results for every instance.

## The system and its parts

`POST /events` stores an event and its outbox message in one PostgreSQL
transaction. In every replica an *outbox dispatcher* claims open outbox
messages under a lease, publishes them to RabbitMQ and marks them published
after the broker's confirmation. *Workers* receive deliveries, claim the event
under a processing lease, run it with retries, store `processed`, or a dead
letter and `failed`, and acknowledge. A *replay* (HTTP, command line, or the
*retry scheduler* of a replica) puts a failed event back to `queued` and
reopens its outbox message. Replicas share nothing but the database and the
queue, and each of their goroutines can stop anywhere. Within a replica, the
*queue client* keeps a publishing and a consuming connection and hands deliveries
to the workers through a bounded Go channel, and `main` stops everything in order
on a signal.

| Part | Source | Module | Status |
| --- | --- | --- | --- |
| tables and statements | `event_store.go`, `dlq_backoff_store.go`, migrations | `EventStore` | modelled |
| replay transaction | `event_store.go:324-384`, `commands.go`, `handlers.go` | `ReplayDeadLetter` | modelled |
| outbox dispatcher | `outbox.go` | `OutboxDispatcher` | modelled |
| worker | `worker.go`, `queue.go`, `deadletter.go` | `Worker` | modelled |
| retry scheduler | `dlq_retry.go` | `DLQRetryScheduler`; its delay: `RetryDelay` | modelled |
| RabbitMQ queue | external | `Broker`, part of `RabbitMQEventQueue` | as the code uses it |
| queue client | `rabbitmq_queue.go` | `RabbitMQEventQueue`; outcome of a publication: `OutboxDispatcher` | modelled |
| start, shutdown | `main.go` | `GracefulShutdown` | from the start of the goroutines on |
| acceptance | `handlers.go`, `event_store.go:88-130` | `CreateEvent`; as one step: `WebhookProcessor` | modelled |
| latency, metrics | `latency-metrics.go`, `metrics*.go` | `Metrics` | values combined from several loads |
| leases, configuration | `config.go` and the claims of `event_store.go` | `LeaseTiming` | the durations |

`PROJECT.json` lists every part, and every hazard with the properties that
cover it.

## Modules

- `Models`: the event ids, shared by all.
- `EventStore`: `events`, `outbox`, `deadLetters`, one row per event, and one
  operator per SQL statement, named after the Go method.
- `Broker`: `ready`, the number of copies of each event in the queue.
- `OutboxDispatcher`, `Worker`, `ReplayDeadLetter`, `DLQRetryScheduler`: one
  program counter per process; each call of the store or broker is a step.
  `...Step` collects what the code does when its calls succeed, `...Fault`
  failing calls, lost connections and crashes.
- `WebhookProcessor`: all of them together, the passing of time, and the
  properties.
- `EventLifecycle`: the abstract specification of an event's status;
  `FollowsLifecycle` says that `WebhookProcessor` implements it, by the mapping
  from the table to its status column.
- `FairWebhookProcessor`: fairness and progress, on top of `RetryHistory`.
- `RetryHistory`: `WebhookProcessor` with the history of claims that schedulers
  dropped and of failures that losing replays covered.
- `RabbitMQEventQueue`, `GracefulShutdown`: one replica's queue client, and with
  it the dispatcher, the workers and `main`. They look at the connections and at
  who waits for whom, where `WebhookProcessor` looks at the tables.
- `QueueContract`: the abstract specification of what a worker may assume of
  `EventConsumer` (`queue.go`). `KeepsContract` says that `GracefulShutdown`
  implements it, by the mapping to the message each worker handles, the workers
  whose ack still reaches the broker, the messages other replicas have, and those
  settled here.
- `CreateEvent`, `Metrics`, composed in `App`: the HTTP side of a replica.
- `Acceptance`: the abstract specification of what each answer of `POST /events`
  means, a submission being stored in one step. `ImplementsAcceptance` says that
  `CreateEvent`, with its transaction statement by statement, implements it.
- `LeaseTiming`, `RetryDelay`, put side by side in `Timing`: leases with a clock,
  and the pure function for the pause between automatic retries. A behaviour is
  about one of them; `config = NoConfig` marks those about the delay.
- `MCWebhookProcessor`, `MCRetryHistory`: symmetry sets.
- `WebhookProcessorProofs`, `DeliveryProofs`, `ExclusionProofs`, `ReservationProofs`
  and `RetryProofs`: the proofs about `WebhookProcessor` and `RetryHistory`.
  `AppProofs`, `LeaseProofs` and `ShutdownProofs`: those about `App`, `Timing` and
  `GracefulShutdown`.

Operators introduced by "Faulty variant" are plausible mistakes, none of them
part of the specification; putting one in the place of its original makes the
property named in `PROJECT.json` fail.

### What is abstracted

- **Time.** A lease is `none` (NULL), `live` or `expired`; `next_retry_at` is
  `none`, `due` or `later`. Expiry is an action that may happen at any time.
  `DispatchLeaseSuffices` and `ProcessingLeaseSuffices` restrict it to leases
  nobody works under any more, the condition `docs/architecture.md:123` states.
  `LeaseTiming` says which configurations meet it; there, replicas share one
  clock, and how long an attempt or a publication takes is a parameter, because
  the code bounds neither.
- **Dispatch token.** The dispatcher's name. The code draws a new token per
  claim, but a dispatcher only ever compares the token of its current batch; the
  earlier ones are of no use to anyone.
- **Batches** are sets: `RETURNING` promises no order. `SKIP LOCKED` passes over
  rows locked by others, so a claim takes any claimable subset up to the limit.
- **Calls that fail.** A statement whose call returns an error was applied or was
  not; both are modelled, as of the moment the error returns. `CreateEvent` goes
  further: a COMMIT whose request was cancelled is in doubt, keeps its row locked,
  and is decided at any later time.
- **Transactions.** Single statements are atomic under their row locks.
  `ReplayDeadLetter` reads without a lock at READ COMMITTED: its read is one
  step; its writes do not depend on what they overwrite and are locked up to the
  commit, so they take effect together in a second one. If the conditional
  UPDATE of `events` matches no row, that is a step of its own (`ReplayMiss`) and
  the other two writes follow.
- **Deliveries.** In `WebhookProcessor` an unacknowledged delivery is kept with its
  worker; `live` says its channel is still open. One waiting in the Go channel
  has no place of its own there. While its AMQP channel is open it behaves like a
  ready copy. Once that has closed, the message is ready again, may go to another
  replica and be finished there, and the old delivery is still handed to a worker:
  it behaves like a delivery one more worker already holds, has not begun, and can
  no longer settle. The theorems about the service hold for any number of workers,
  so they include these; the runs have two. `RabbitMQEventQueue` has the Go channel
  itself, numbers the AMQP channels, and has bodies that are no event.
- **Other replicas.** They consume from the same queue. In `RabbitMQEventQueue` a
  ready message may be taken by one (`TakenElsewhere`), which settles it or gives
  it back; `QueueContract` calls such messages `away`.
- **Connections.** `none`, `open` or `dead` (the channel is closed, whether or not
  its connection is: what the code then does is the same). The broker may also
  cancel the consumer and leave the channel open.
- **Acceptance.** A row that is inserted and not committed is seen by nobody and
  makes an INSERT of the same id wait. A committed row remembers its request,
  which stands for type and payload.
- **Attempts.** The processor is a parameter of the code, so each attempt
  succeeds or fails freely.
- **Not kept:** payloads, request ids, error texts, and the attempt counters of
  `outbox` and `events`, which are only reported.
- **Leftovers.** `LegacyFailed` are events that failed before the outbox table
  existed (migration 1 creates outbox rows for queued events only); `Orphans` are
  messages in the durable queue whose event row is gone.
- **History.** `overtaken` records that a replay requeued an event while a
  dispatch reservation was still on its outbox row, until the row is claimed
  anew; `dropped` that a scheduler gave up a dead letter it had claimed, until
  `next_retry_at` is set or the event requeued; `hidden` that a replay which
  requeued nothing recorded `replayed_at`, until that is cleared or the event
  requeued; `decided` the messages a worker's
  ack or reject took out of the queue. No action reads them.

## Runs

| Run | What it asks | Result |
| --- | --- | --- |
| `delivery` | can anything lose an event, or fail one without a dead letter, when leases expire under running work? | only a replay that overtakes a dispatch |
| `timely` | with sufficient leases, a manual replay and a scheduler: one executor, one dispatcher per message, status follows the life cycle? | holds |
| `retry` | schedulers that crash or whose calls fail, next to a manual replay, on an event older than the outbox: is a retry forgotten, an event stranded, the limit of attempts passed? | a retry, only by a scheduler that stops with the dead letter or a losing replay that covers the next failure |
| `progress` | is every event decided and every failed one retried, do queue and outbox drain, is a recorded replay a requeued event? | yes, but for `overtaken`, `dropped` and `hidden` events |
| `progress_batch` | does leaving a batch early strand or delay a message for good? | no |
| `shutdown` | does the queue client lose or leak a delivery or hand out a settled one, does it reconnect, does a signal end the process in order? | no; yes; yes |
| `timing` | which leases cover the work under them? is the retry delay its closed form? | those longer than the claim, all the work and its last store call; yes |
| `app` | what may a client conclude from an answer? do concurrent observations and scrapes give wrong values? | what `Acceptance` says; no |
| `stranded` | `NoEventStranded` with replays | **violated** |
| `short_lease` | `ExclusiveExecution` with a lease that is too short | **violated** |
| `racing_replays` | `ReplayRequeues` with two clients | **violated** |
| `retry_forgotten` | `RetryNotForgotten` with a scheduler that stops | **violated** |

The violated properties state sentences of the README and of
`docs/architecture.md`; `findings` in `PROJECT.json` quotes them.

1. `stranded`: `ReplayDeadLetter` reopens the outbox row and leaves the dispatch
   token on it (`event_store.go:358`). A dispatcher published the event; before
   it records that, a worker fails the event and a replay requeues it; the
   dispatcher then marks the reopened row published. The event stays `queued`
   with no message, and cannot be replayed because it is not failed.
2. `short_lease`: the lease is not renewed, so a second delivery of a slow event
   is executed at the same time as the first.
3. `racing_replays`: the rows affected by the UPDATE of `events` are not checked,
   so a losing replay still reopens the outbox and records `replayed_at`. If the
   event has failed once more by then, automatic retry no longer sees it
   (`hidden`).
4. `retry_forgotten`: the scheduler's claim clears `next_retry_at` and has no
   lease; a stop before the replay or a failed rescheduling ends the automatic
   retry of that dead letter with attempts left. The rescheduling runs under the
   context a shutdown cancels, so a graceful shutdown in the middle of a batch
   does the same to its rest.

`LeaseCovers` in numbers: a processing lease must exceed claim + (retries + 1) *
attempt + backoff * retries * (retries + 1) / 2 + two store calls (dead letter and
status), so with the defaults (300 s, 3 retries, 1 s) the claim, four attempts and
the store calls have 294 s. A dispatch lease must exceed claim + batch size *
(publication + `MarkOutboxPublished`): with the defaults (30 s, 100) less than
0.3 s for each, while neither call has a time limit of its own. A lease equal to
the bound does not suffice, because a row whose age equals the lease can be
claimed.

### Bounds

One event suffices where the question is about the copies and claims of an event
(no action but a batch involves two events); `progress_batch` has two. Two
dispatchers and two workers give one that is stale and one that is current; two
schedulers, or a scheduler and a manual client, give a race of replays.
`MaxCopies` bounds the copies the dispatchers may put on top of those in the queue
(returned deliveries may exceed it): 1, and with two workers holding deliveries
three copies of an event are alive; 2 or 3 in the progress runs, where it must not
block publication for good. `MaxFaults` bounds faults in the progress runs, which
ask what happens after the last one. `MaxRetries` is 1 in `timely` and `progress`, 0 elsewhere
(what is proved holds for every value). With schedulers, `RetryLimit` is 2, so
that a dead letter is claimed, fails again and is claimed at its limit, and 1 in
`timely`. `RetryBatch` is the code's own limit of 10 and never reached.

- `shutdown`: a channel of capacity 1 and a prefetch of 2 make the forwarder block
  with a delivery in its hand; three messages, one of them undecodable, fill
  workers, channel and forwarder; two faults give a reconnection that fails or is
  lost again, or a lost connection whose messages another replica takes while
  their old deliveries are still in the Go channel.
- `timing`: leases from 1 to 18 units lie on both sides of the bound for each of
  the configurations; ages beyond a lease and a claim are alike. The cap
  is 24 units, with intervals below, at and above it.
- `app`: two submissions of one id, one to the replica whose metrics are kept and
  one to another, which can stop; either COMMIT can be in doubt while the other
  request runs; two observations of two durations.

Where nothing is left to do the service is idle and a replica that was shut down
has ended, so deadlock is not an error.

### Fairness

`FairWebhookProcessor`: every dispatcher, worker and scheduler has weak fairness,
since a goroutine whose next call can return eventually makes it (each runs a loop
on a ticker or a channel). Leases age and delays elapse by themselves. Faults, new
events and manual replays are not fair. Leases are sufficient. Scheduler faults are
included; as findings 1 and 4 show, they and replays do lose progress, and the
properties exempt exactly the events whose history variable says so.

`GracefulShutdown`: `main`, the dispatcher, the workers and the consume loop are
weakly fair: goroutines run, calls of the store and attempts to connect return,
timers fire. The signal, faults, pushes and confirmations of the broker are not
fair; a confirmation may never come, and the shutdown still ends. Noticing a
cancelled context has a fairness of its own, because Go's `select` does not
ignore a ready case for ever.

## Proofs

All for any sets of events, processes, requests and messages, any bounds and any
number of steps. Assumptions on constants are those named in the modules: the
markers (`NoEvent`, `NoToken`, `NoRequest`, `NoHolder`, `NoDelivery`) are none of
the things they stand beside, limits are naturals, schedulers are replay clients.
Where a proof counts, the sets are finite: the requests of one replica, messages
and workers. `LoadConfig` refuses a `WORKER_COUNT` or `QUEUE_SIZE` of zero, and
durations have a longest one.

The service (`WebhookProcessor`, `RetryHistory`):

- `TypeCorrect`: `TypeOK`, one lemma per component and one for `Next`.
- `NothingElseStrands`, `FailedCanBeReplayed`, `DeliveryInvariant`, with leases
  that may expire at any time. `StrandedOnlyIfOvertaken` is not inductive: closing
  an outbox row is safe only because of a publication made earlier. `IInv` adds
  `DeliveryInv`: a dispatcher about to mark a row it still holds has a live copy
  unless the event is decided or the row was overtaken, a worker about to store
  `failed` has stored the dead letter, and a busy worker has an event. The proof
  treats workers and dispatchers action by action, and shows that every replay,
  scheduler step and expiry is a *table step*, which keeps, opens or replays an
  event.
- `NothingStrandedWithoutReplay`: where nothing replays dead letters, no event is
  stranded at all. From `IInv`, because only a replay overtakes a dispatch.
- `Exclusion` and `ExecutionIsLeased`, assuming `ProcessingLeaseSuffices`. `XInv`
  adds `ExecutionHasLease`: an executing worker's event is `processing` under a
  live lease, so no claim, replay or expiry can touch it.
- `RefinesLifecycle`, under the same assumption: every step is a move of
  `EventLifecycle` or leaves the statuses alone.
- `DistinctDispatch`, assuming `DispatchLeaseSuffices`: `DistinctBatches`. Batches
  are disjoint because a row has one token; `BInv` says that what a dispatcher has
  in hand is reserved under its token by a live lease, that the message being
  settled has left the batch, and that a row in use belongs to a stored event, so
  that neither acceptance nor a replay takes a reserved row away.
- `SoleReplayRequeues`: `ReplayRequeues` with one replay client, assuming
  `ProcessingLeaseSuffices`. `ReplayDeadLetter` reads the event without a lock;
  `CInv` says that what it read still holds when it writes, since a worker under
  its lease never writes to a failed event and no second client exists. Run
  `racing_replays` shows that two clients break it.
- `NothingElseForgets`: `ForgottenOnlyIfLost`, for any number of schedulers. Its first
  part, dead letters not marked replayed, holds with leases that may expire at any
  time and stale workers. The property speaks of failed
  events and is not inductive, because a scheduler may claim the dead letter
  between `SaveDeadLetter` and `MarkFailed`. `RInv` states it for every dead letter
  that is owed an attempt, whatever the event's status (`OwedIsScheduled`), and
  adds `SchedulerForm`: what a scheduler holds at each position, and that it
  replays only the event it holds. Every other actor's step keeps a dead letter,
  schedules it, or marks it replayed (`RowKept`). The second part, that only a
  replay which requeued nothing leaves a failed event marked replayed, assumes
  `ProcessingLeaseSuffices` and rests on `XInv`: a worker that stores `failed` still
  holds its event, so no replay came between its dead letter and its status
  (`ReplayedIsRequeued`).

The HTTP side (`App`):

- `EventAndMessage`, `AcceptedStaysStored`, `DuplicateWasStored`. `AInv` adds what a
  request knows between two statements (`Progress`) and `OneTransaction`: the
  unique index lets at most one open transaction insert an id, and the id is free
  until that one commits.
- `RefinesAcceptance`: `ImplementsAcceptance`. The step that stores is the commit or,
  when that was in doubt, its later decision by PostgreSQL, possibly after the
  answer 500; every other step of a request is a reply or is not seen. So nothing
  is stored after an answer 400 or 409, and what a 202 or 409 says stays true.
  Beyond `AInv` this needs `NotYetStored`: a request that has not
  committed is not the one stored under its id, so a 409 is about another request
  and a 400 about one that is nowhere. `EventStore` takes acceptance as one step;
  this theorem is why it may.
- `MaximumIsExact`: `MaxInv` adds that a compare-and-swap about to run carries a
  value below its own duration.
- `MeanIsBounded`: an observation is counted before it is summed, so the sum is at
  most the number of summed observations times the longest duration, and these
  are among the counted ones (`LatencyInv`); a scrape loads the sum first
  (`ScrapeInv`).
- `RatioIsBounded`: the rejected counter only grows, and equals the number of
  rejected requests (`RejectedCounted`).
- `AppTypeCorrect`: `TypeOK`, from the conjunction `MInv` of all of these.

The leases (`Timing`): `LeaseLongEnough`, `LeasesCover` for every configuration and
any number of holders, up to the moment the last store call takes effect. `Phases`
is a sequence, so `PhaseValues` first gives its length and the longest time of each
phase, and `BeforeNext` and `WithinWorstCase` relate the time before a phase to that
before the next and to `WorstCase` (the pauses grow by one backoff each, which makes the bound quadratic in the retries).
`LInv` says that nobody exceeds a phase and, when the lease is longer than the
worst case, that whoever works owns the row with a claim no older than its phases
so far; a claimant then never finds the lease expired. This is the condition on
the configuration behind `ProcessingLeaseSuffices` and `DispatchLeaseSuffices`.

The retry delay (`Timing`): `DelayIsClosedForm` and `BackoffNeverShrinks`, for every
interval, cap and attempt. What the recursive `RetryLoop` computes is shown by
induction in two parts. `IterationExists` says that a step function iterated from a
start defines one function on the naturals, so that the recursive definition has
the value it describes; `NatSetInduction` replaces the induction theorem of the
library, which takes an operator, by one about a set of naturals. `RetryLoopMatches`
then is the loop's invariant: capped as soon as a doubling reaches the cap, before
that the interval times a power of two. `DInv` adds to `DelayMatches` that no delay
precedes the first attempt. `TwoTo` stands for powers of two because the prover has no
exponentiation; `TwoToIsExponentiation` compares it with `^`, is evaluated by
TLC and used in no proof.

One replica's queue client and shutdown (`GracefulShutdown`), from one invariant
`SInv`:

- `NoDeliveryLost`: `DeliveriesAccounted`. Its counts are not suited to induction;
  `Copies` says the same by places: a message has a live delivery in at most one
  of the library's buffer, the loop's hand, a slot of `events` or a worker, only
  while it is unacknowledged, and in one of them then. `DeliveryPlaces` adds that
  every delivery came on a channel that was opened, so a new channel revives
  none; `TakenBack` that nothing is unacknowledged without an open channel and
  that the loop never dials with one.
- `ReturnsClean` and `ChannelOutlivesWorkers`: `CleanStop` and `ClosedOnlyWhenIdle`,
  from `StopOrder`, which says who has stopped by where `main` is. One interleaving
  is excepted from `ClosedOnlyWhenIdle`: the broker cancels the consumer, the loop
  checks the context (`rabbitmq_queue.go:180`), the shutdown begins, and the loop
  closes a channel on which workers still acknowledge. Their messages go back to
  the queue, which `NoDeliveryLost` and `ReturnsClean` cover.
- `ClientKeepsContract`: `KeepsContract`. A stale delivery in the buffer must not
  reach a worker after its message was settled through a newer one. `QInv` adds to
  `SInv` that the deliveries of one message lie in the order of their channels, the
  oldest with a worker, the newest in the library's buffer (`InOrder`), and that a
  message on its way to a worker is not settled (`StillWaits`): a delivery that can
  settle it came on the newest channel, so none of that message is behind it. One
  lemma per kind of step shows both kept, and one which step of the contract it is.
  A message settled by another replica is out of this client's control: a worker
  may still receive a stale delivery of it, which it cannot settle.
- `ShutdownTypeCorrect`: `TypeOK`, with the prefetch and the channel capacity.

Only model-checked: the progress properties `EventuallyDecided`, `EventuallyQuiet` and
`RetriedOrExhausted`, and `ShutdownTerminates` and `Reconnects`. Liveness under
fairness is out of the prover's reach.

## Not modelled

- **Start-up** before the goroutines: configuration, migrations and commands other
  than the replay run alone and end the process on an error.
- **Requests that outlive the shutdown timeout** use only the database; for the
  tables they are requests of another replica.
- **Loss of the queue or of its data**: the queue is durable and messages
  persistent; nothing in the code answers to their loss.
- **Counters reported one by one**: no decision reads them and no value combines
  them. `webhook_events_queued_total` is described as "Events accepted into the
  outbox." (`metrics_prometheus.go:19`) and is incremented after the publication
  (`outbox.go:74`), so it counts publications, repeated ones included.
- **Read-only endpoints, logging, request ids, text formats, connection pool,
  deployment and load scripts**: no shared state of their own.

## Open proofs

A condition weaker than the absence of replays under which nothing is stranded, and
one weaker than a single client under which replays requeue. The runs `stranded` and
`racing_replays` show that some condition is needed.

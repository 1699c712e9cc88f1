# Order Processor verification

TLA+ specifications of the order processor, the TLC configurations that check
them on small instances, and TLAPS proofs of the main results for every value of
the constants. Paths without a directory prefix are below `src/`.

1. [The system](#1-the-system): components, state, interactions, hazards
2. [The modules](#2-the-modules): what each one models and how it maps to the code
3. [The runs](#3-the-runs): what TLC checks, bounds, fairness
4. [The proofs](#4-the-proofs): theorems, assumptions, inductive invariants
5. [Disagreements between the code and its documentation](#5-disagreements)
6. [What is not modelled](#6-not-modelled)
7. [Plan](#7-plan)

## 1. The system

A client posts an order. `SaveTx` commits the order and an outbox row in one
database transaction. A relay polls the outbox, publishes the row to the
`order-commands` topic and marks it. The consumer reads the command on the
worker of its partition and runs it through the handler chain, which reserves
the payment, reserves the stock and confirms the order; the confirmation puts an
event row into the same outbox.

    HTTP create -> SaveTx -> orders + outbox -> Relay -> Kafka -> Consumer
                                  ^                                  |
                                  |       withPoisonPill / withIdempotency
                           UpdateStatusTx <- create-order saga <- Handle
                                                |          |
                                          breaker(payment) breaker(warehouse)

| Component | State it keeps | Operations | Hard because of |
|---|---|---|---|
| Outbox relay (`pkg/outbox/relay.go`, `internal/storage/pg/outbox.go`) | `outbox` rows: `published_at`, `retry_count`; the open transaction's row locks | `Run`, `drain`, `processBatch`, `GetBatch`, `MarkPublished`, `UpdateRetryCount` | several relays on one table; publish and mark are two systems; rollback after publish; attempts that run out; cancellation in the middle of a batch |
| Handler chain and saga (`internal/kafka/handler`, `pkg/saga`, `internal/service/order/process.go`) | `processed_events`, order status, reservations at two services, records re-published or dead-lettered | `withPoisonPill`, `withIdempotency`, `Handle`, `ProcessCommand`, saga `Execute` | two transactions where the text has one; compensation that fails; replies that are lost; retries that are new records |
| Partition consumer (`pkg/kafka/consumer.go`) | committed offsets, a channel and a goroutine per partition, `commitCh` | `Run`, `dispatch`, `worker`, `drainCommits`, `stopWorkers`, `shutdown` | rebalancing under a working goroutine; offsets committed later and elsewhere; bounded channels in a cycle |
| Circuit breaker (`pkg/breaker/breaker.go`) | an atomic pointer to a snapshot, an atomic probe slot | `Execute`, `allow`, `recordSuccess`, `recordFailure`, `Reset` | CAS loops over two separate atomics; outcomes that arrive in another state than the one the call was admitted in |
| Payment and warehouse clients | none here: reservations live at the services | `Reserve`, `Cancel`, `CancelReservation` | a reservation whose reply is lost; a 4xx taken for success |
| Storage (`internal/storage/pg`) | connection pool, transaction in the context | `RunInTx`, `conn` | a nested `RunInTx` is a second transaction on a second connection |
| Producer (`pkg/kafka/producer.go`) | send queue | `Publish`, `Close` | a cancelled context returns before the delivery report |
| Order creation and lookup over HTTP | none | `Create`, `Get` | amounts are unchecked `int64` products |
| Application (`internal/app`) | the components and their order of release | `New`, `Run`, `shutdown` | resources closed while handlers may still run |

What makes each of them correct:

* **Outbox**: a committed row reaches the broker at least once, is marked only
  then, is not sent again once marked, and duplicates have a cause.
* **Processing**: a committed offset never hides a record nobody dealt with; a
  record is handled once unless a fault came in between; reservations match
  confirmations; every order comes to an end.
* **Breaker**: it behaves as if every operation were atomic; one probe at a
  time; it never stays open for good.
* **Consumer**: no deadlock between poll goroutine, workers and channels;
  nothing is committed that was not handled; nothing is sent to a closed channel
  or left in one without a worker; shutdown ends.
* **Application**: nothing is used after it is closed, the pool is not
  exhausted by those who hold it, and whatever fails ends the process.

The hazards, each at its line, are listed in `PROJECT.json` under `hazards` with
the properties that are aimed at them.

## 2. The modules

| Module | Models | State to code |
|---|---|---|
| `AtLeastOnce` | what the outbox promises, with no relay, lock or retry in it | `stage`: fate of a message; `copies`: what the broker got |
| `Outbox` | `relay.go`, `outbox.go`, the row inserted by `SaveTx` and `UpdateStatusTx` | `row`, `retries`: the table as committed; `todo`, `marked`, `bumped`: the rows of the open transaction (together: its row locks); `pc`: the place in `Run`/`drain`/`processBatch` |
| `MCOutbox` | `Outbox` with a batch size for each relay | |
| `OutboxProofs` | proofs about `Outbox` | |
| `Processing` | one partition: `builder.go`, `handler.go`, `process.go`, `orchestrator.go`, `event.go`, `update-status.go`, both clients, and the life of a partition from `consumer.go` | `log`: the partition; `committed`, `owner`: the group; `processed`: `processed_events`; `retried`, `dead`: re-published and dead-lettered records; `dropped`: records whose handler's error was only logged; `held`: live reservations; `suspect`: orders whose reservations at a service a fault has put in doubt; `pc`, `at`, `got`, `err`: a worker's place, record, saga state and handler error; `chan`: what is left in the channel of a worker that gets no more; `next`: how far the owner has read; `pending`: what a worker has reported for commit |
| `MCProcessing` | `Processing` with the symmetry of the instances and a bound on the records | |
| `ProcessingProofs`, `RepeatProofs` | proofs about `Processing` | |
| `AtomicBreaker` | a breaker with a mutex: every operation one step | |
| `Breaker` | `breaker.go`, one action per atomic memory operation | `snap`: the snapshot; `probing`: the slot; `pc`: the place of each goroutine; `fresh`: the goroutines whose loaded pointer is still current; `isProbe`: the local of `Execute` |
| `BreakerProofs` | proofs about `Breaker` | |
| `CommitLog` | what the consumer group promises for each partition: records are handled in order, none is skipped, and only what was handled is committed | `handled`, `committed` |
| `Consumer` | `consumer.go`: the poll goroutine, a worker and a channel per partition, `commitCh`; the group around it | `pc`, `event`, `about`, `offset`: the place in `Run` and the event in hand; `pending`: the map of `drainCommits`; `sent`: the entries of `commitCh`, by partition; `worker`, `chan`, `open`, `at`: a worker, its channel and the offset it has to report; `owned`, `member`, `asked`, `next`: the client library's view of the group; `lent`: partitions it lost without being told |
| `ConsumerProofs`, `RebalanceProofs` | proofs about `Consumer` | |
| `App` | `app.go`, the pool of `storage.go`, `Close` of producer and pool, HTTP handlers, and where workers and relay hold connections | `main`, `cancelled`, `server`, `stopper`, `consumer`: the goroutines of the group; `worker`, `relay`, `request`: the place of everybody who uses the pool; `outer`, `inner`: who holds a connection, and a second one; `outlived`: handlers `Shutdown` gave up |
| `AppProofs` | proofs about `App` | |

Granularity and abstraction, module by module:

**Outbox.** A relay's step is one call of a collaborator: a query, a publish, an
update, a commit. Rows are numbered in `created_at` order. `GetBatch` picks the
first `BatchSize[r]` rows that are pending, below the attempt limit and not locked
by another relay, which is what `FOR UPDATE SKIP LOCKED` gives. Publishing has
three outcomes: acknowledged, failed, and failed although the broker has or
will get the message (lost acknowledgement, or the context was cancelled after
the enqueue). A statement may fail (`Abort`), the commit may take effect and be
reported as failed (`LostCommit`), and once the context is cancelled every
statement and the commit may fail without a further fault. `Crash` loses the
open transaction. The payload, the topic and the headers are left out.

**Processing.** All commands of a user have one key and therefore one partition,
and partitions share only the breakers, so one partition is modelled and a call
may be refused by the breaker (`ErrOpen`) at any time. An instance that is
evicted does not notice: its worker handles what is still in its channel while
the next owner starts from the committed offset. The unique key in
`processed_events` makes the second of two transactions on one record wait
(`KeyLocked`) and then find the row. `UpdateStatusTx` opens a second transaction
through `RunInTx`, so the confirmation is committed before the key is: `Confirm`
changes `status` and `confirmed` at once, `Commit` adds the key later. Retries
are new records with a larger `x-retry-count`.

`Handover` is `withPoisonPill` after an error. It reads the retry count first: if
that is not a number, which only a record of another program can have (`Foreign`),
it returns at once, and the record goes nowhere. Otherwise the record is stored in
the DLQ or as a retry (`Stored`), or the publish fails. Whatever it returns, the
worker only logs an error (`Dropped`), finishes the record (`Done`) and reports its
offset, which the poll goroutine commits later (`CommitOffsets`). The coordinator
takes the offset of any member, owner or not, also one that is below the committed
offset; a commit may also fail, and then the offset is forgotten (`Taken`).

A worker never learns that its partition was lost, as the consumer is configured.
While its instance owns the partition a worker reads the log in order from `next`;
what the poll loop has put into its channel but the worker has not taken is not
fixed until the partition is lost or the instance is stopped: then `CutOff` leaves
any part of the rest of the log in `chan`, and the worker goes on with that. When the
partition comes back (`Assign`) reading starts at the committed offset, behind
whatever old records are still in the channel. Simplifications: all offsets of a
record are its position in `log`; a re-published record gets its place at the end of
the same partition; the capacity of the channel is left to `Consumer`; `Deliver` may
append a copy of a command, as the outbox allows.

**Breaker.** A snapshot is immutable and every swap allocates, so a
`CompareAndSwap` succeeds exactly if no swap has succeeded since the caller's
load; that is all `fresh` records. Time is the single bit `cooled`, which says
the timeout of the current snapshot has passed; a caller that checks the timeout
of an older snapshot may find either answer. The wrapped call ends with success,
an ignored error, an error, a panic or a cancellation, fast or slow, as
`Execute` distinguishes them. `generation` is left out: it is written and never
read.

**Consumer.** One instance. A step of the poll goroutine is one receive, one
`Poll` or one commit; the loops of `drainCommits` and `awaitWorkers` are `Receive`
repeated until `commitCh` is empty, so workers may report in between. A worker
receives a record and handles it in one step (what the handler does is in
`Processing`), reports it in a second, which blocks while `commitCh` is full, and
ends when its channel is closed and empty. `commitCh` is kept as one queue per
partition with a common capacity: `drainCommits` takes the largest offset of each
partition, so the order between partitions does not matter. The coordinator
accepts a commit from any member, whether or not it owns the partition, and answers
for each partition by itself; a commit that fails, for all partitions or for some,
is logged and its offsets are forgotten (`failed`). Other members (`Rival`) appear as
what they may do to a partition that is not here: handle its next record and commit
what has been handled. Where losses are not announced, a member that once had the
partition does so later still, when it is here again (`lent`), and its commit may be
below the committed offset. `Init` is the state after the first assignment.

How a partition is lost has two modes. If `announced`, `Poll` returns
`RevokedPartitions` and the partition is given up when the event has been dealt
with; this is what the cases of `Run` are written for. Otherwise the client library
gives it up inside `Poll` and the worker is never told; this is what happens with
the configuration in `NewConsumer`, which does not ask for the events. In either
mode the coordinator can evict the member.

**App.** A user of the pool is at one place at a time: a worker waits for the
connection of its record (`begin`), runs the saga on it, perhaps waits for a second
one (`nested`, `UpdateStatusTx` inside `withIdempotency`), gives both back and
publishes what failed. A relay holds one for a batch, an HTTP handler one for
`SaveTx` or `FindByID`. `Begin` waits without a timeout; it fails when the
caller's context is done, when the pool is closed, or when the statement fails on
the connection it got. Workers and relay have the context of the group, handlers
that of their request. `Shutdown` returns when all handlers have or after thirty
seconds, which is any moment here. When `ListenAndServe` fails, connections that are
open may bring requests until `Shutdown` closes them. `pool.Close` refuses new connections and waits
for those that are out. Left out: which records a worker has (`Processing`) and
how channels fill (`Consumer`).

## 3. The runs

| Run | Question | Bounds |
|---|---|---|
| `outbox` | Does the relay implement `AtLeastOnce`, are duplicates accounted for, and is every row settled in the end? | 2 rows, 2 relays, one with batches of 2 and one with batches of 1, 2 attempts, 2 faults of any kind |
| `outbox_loss` | Is every committed row stored by a broker that keeps recovering? (no) | 1 row, 1 relay, 5 attempts |
| `processing` | Are committed records accounted for, no orders forgotten, reservations balanced, repeats explained, also when a late commit lowers the offset? | 2 commands, one malformed and possibly with an unreadable retry count, 2 instances, 1 retry, 1 crash or fault of the database or a service, 1 eviction, 3 records (`ShortLog`) |
| `processing_live` | Across stops, failed publishes and an eviction: is no record skipped, does every order come to an end, and do the accounts hold? | 1 command, 2 instances, 1 retry, 1 cancellation or failed publish, 1 eviction, 2 records once a fault has happened (`ShortAfterFault`) |
| `processing_twice` | Is a record handled once? (no) | 1 command, 1 crash |
| `processing_lost` | Is a committed record always dealt with? (no) | 1 command, 1 failed publish |
| `breaker` | Is it linearizable, is the probe slot a lock, does it recover? | 3 callers, thresholds of 2 |
| `breaker_probe` | Is it closed only by a probe? (no) | 2 callers, thresholds of 1 |
| `consumer` | Does the consumer implement `CommitLog` in both modes of losing a partition, and is no record stranded in a channel; with announced revocations, does it hand over drained partitions and never lower an offset? | 2 partitions, 2 records each, buffers of 1, `commitCh` of 3, 1 rebalance or eviction |
| `consumer_full` | Can poll goroutine and workers wait for each other, does everything dispatched get handled, does shutdown end? | 2 partitions, 3 records each, buffers of 1, `commitCh` of 3, a stable group |
| `consumer_rewind` | Is a rebalance safe as the consumer is configured? (no) | as `consumer`, revocations not announced |
| `app` | Is the pool ever stuck, is anything closed while in use, does everything that ends the group end the process? | 2 workers, the relay, 1 handler at a time, 3 connections |

Why the bounds suffice. Two relays, two instances and three callers are what the
races need: a third relay or instance meets the same locks, and the third caller
lets a stale outcome arrive while two others race for the slot. Two rows in a
batch let one fail and one succeed in the same transaction; in a batch of one the
older row, as long as it fails, keeps the younger one out; two attempts make a row
run out; two faults allow a rollback after a crash. One retry exercises the
counter on both sides of its limit. One eviction suffices for two workers on one
record and for a late commit, a crash of the second one for the records above
the lowered offset to be read again, and one fault at every place of the chain
for the interplay of two transactions. Three records are two commands and a
retry; beyond them `processing` explores nothing. In `processing_live` a command and
its retry are all records there are unless an offset that goes back lets a record be
re-published again, which `ShortAfterFault` admits only before the fault. A
constraint cuts behaviours off and makes no behaviour fair that was not, so the
liveness result is one about the behaviours within it. In the consumer runs three records fill a partition's worker, its
channel and the poll goroutine's hand at once, and `commitCh` is one entry larger
than what the other partition can put into it, the tightest case in which it
cannot deadlock; two records are enough for a rebalance between them. The
rebalances and the liveness properties are in separate runs because TLC does not
finish both together (`consumer` has 3.7 million states without liveness). So
`DispatchedIsHandled` is checked for a stable group and its shutdown only; what it
rests on while partitions move is the invariant `NothingStranded`, which is checked
in `consumer` and proved. In `app` two workers and one more user reach the limit of
three connections. Most of the safety properties are also proved without bounds
(section 4).

`CHECK_DEADLOCK FALSE` is set for the processing, consumer and app runs because
the system does stop there: when every command is delivered, handled and
committed, or the process has exited, nothing is left to do. The outbox and breaker runs check for deadlock.

Fairness, and why the code justifies it:

* `Outbox!FairSpec`: a relay that can take a step takes one (a goroutine is not
  stopped); a statement under a cancelled context returns (pgx aborts it);
  `select` does not take the ticker for ever while `ctx.Done` is ready (Go picks
  among the ready cases at random, and between two ticks only `ctx.Done` is
  ready), hence the strong fairness of `Stop`; a stopped process is started
  again by its supervisor (an assumption about the deployment).
* `Outbox!HealthyBrokerSpec`: moreover a publish that is possible again and
  again succeeds in the end. `outbox_loss` is violated even so.
* `Processing!FairSpec`: a worker that can take a step does; the poll loop
  tries to commit finished offsets, which may fail each time; a cancelled consumer shuts down and its process is
  restarted; the group gives an unowned partition to some live member (Kafka's
  contract). No fairness for deliveries, evictions or faults.
* `Breaker!BusySpec`: goroutines run, calls return (the HTTP clients have
  timeouts), time passes, and calls keep coming. Without the last an open
  breaker rightly stays open.

* `Consumer!Spec`: the poll goroutine and each worker take a step when they can;
  `Poll` returns within its 100 ms and handlers return. Weak fairness is enough:
  a worker that waits for room in `commitCh` keeps it until the poll goroutine
  empties it. None for the group, for faults or for the cancellation.
* `App!Spec`: goroutines run, statements and publishes return, the thirty seconds
  pass. Strong fairness for those who wait for a connection: the pool serves its
  waiters in turn (pgxpool's queue), so one that is free again and again comes to
  everybody. None for clients, records, failures or the signal.

Each property has a mutant in `PROJECT.json`: a variant of a definition with a
plausible bug (kept next to the definition, marked "Variant") under which the
run finds the property violated.

## 4. The proofs

Assumptions: those on the constants (`OutboxAssumption`, `BreakerAssumption`,
`ProcessingAssumption`, `ConsumerAssumption`, `AppAssumption`): thresholds and batch sizes are positive, limits are
natural numbers, rows are numbers, rows and instances are finitely many. No
bound on relays, rows, callers, instances, orders, attempts, evictions or faults.

**OutboxProofs.** `TypeCorrect`, `DuplicatesAccounted`, `ImplementsDelivery`.
None of the properties is inductive alone. The inductive invariant adds:

* `LockInv`: open transactions hold disjoint sets of rows, all of them pending
  and below the attempt limit. Without it a rival relay could mark or publish a
  row after this relay's commit, and the counter could pass the limit.
* `StoredInv`: a row that is marked in an open transaction, or is about to be,
  is at the broker. This is what makes the commit a `Settle` of `AtLeastOnce`.
* `CopyInv`: an account for the copies of each row. A copy made inside an open
  transaction is paid for by the commit to come (as a mark or a counted
  failure) or by the fault that undoes it; a cancelled relay has paid already.

`ImplementsDelivery` maps a commit to `Settle` of the marked rows, a publish to
`Send`, `Save` to `Accept` and everything else to a stutter.

**BreakerProofs.** `TypeCorrect`, `ProbeSlotExclusive`, `BreakerLinearizable`.
The invariant joins `ProbeSlot` with `ProbeInv` (a caller with `isProbe` is in
its call or counting it) and `FreshInv` (a caller about to swap with a current
pointer saw the state that justifies the new snapshot). The
linearization points: the load in `allow` for a call admitted while closed, the
CAS or the second load for a probe, the successful CAS (or the load that finds
nothing to count) for an outcome. Every other step is a stutter of
`AtomicBreaker`.

**ProcessingProofs.** `TypeCorrect`, `ReservationsMatch`, `NothingSkipped`,
`NoneDropped`, `NoneForgotten`. The invariant joins `TypeOK`, which is not inductive alone (a
compensation could make the number of reservations negative), with:

* `GotInv`: which reservations a worker has the ID of at each step of the saga;
  a worker at `confirm` for an order no fault has touched has both.
* `HoldInv`: an account of the reservations at the services. Each is charged to
  a confirmation or to the worker that can still undo it; for an order in
  `suspect` there may be more, never fewer.

`NothingSkipped` is `NoneSkipped`, without any assumption on faults: what a commit
passes over, some handler has finished. Its invariant `DoneInv` speaks of all
instances and not only of the owner, because any of them may commit: everything an
instance is done with or has reported has an outcome (processed, re-published,
dead-lettered or dropped), including what it skipped when it was assigned the
partition at the committed offset; and records come to a worker in such an order that
all below the one it takes have an outcome by then. The last part is what a partition
that comes back needs: the old records in the channel are dealt with first, and the
new ones, which may repeat them, start at the committed offset.

`NoneDropped` is `CommittedAccounted` under the assumption that publishes do not
fail and instances are not stopped: then the only records dropped are those whose
retry count cannot be read (`DropInv`). Both parts are needed: `processing_lost` is
the counterexample without the first, and a cancelled context fails the re-publish
in the same way.
`NoneForgotten` is `NoOrderForgotten` under the same assumption: re-publishing counts
as dealing with a record, so `CommittedAccounted` alone would allow a chain of
retries that ends in nothing. `LastInv` says that every order of the partition has
a record that was not re-published.

**RepeatProofs.** `RepeatsAccounted`: `RepeatsExplained` for every value of the
constants, so also when offsets go back and records are read again. Two invariants are added to those of `ProcessingProofs`:

* `KeyInv`: two transactions on one record are open at once only if the record
  is processed already, and a saga runs only for a record that is not. This is
  the mutual exclusion of the unique key, across instances.
* `RepeatInv`: an account of the confirmations. Each is charged to a record that
  is processed, to one whose worker has only the key left to commit, or to a
  fault. A stopped instance that is still in its saga counts as a confirmation
  in advance, since under a cancelled context its `UpdateStatusTx` may commit and
  its key may not; the fault that stopped it pays.

**ConsumerProofs.** `TypeCorrect`, `NoDeadlock`, `ImplementsCommitLog`.
`NoDeadlock` assumes `Roomy`: what the channels and hands of all partitions but
one can hold is less than the capacity of `commitCh`, `(partitions - 1) * (bufSize +
1) < 16 * bufSize`. With the 256 of `internal/app/kafka.go:50` this holds for up to
16 partitions assigned to one instance (the compose file has 3) and not for 17. Its
invariant `FillInv` counts, for each partition, the entries in `commitCh`, the
record in hand and the records in the channel: since the drain that precedes
`dispatch` nothing was dispatched, so together they are at most `bufSize + 1`.
`ImplementsCommitLog` needs `OrderInv`: the records in a channel are in order and
without gaps from what is handled up to the position of the consumer, and what is
reported, pending or committed lies below all that is not handled. This holds in
both modes, also when a partition comes back to a worker that still has old
records: the new ones queue up behind them.

**RebalanceProofs.** `NoRewind`, `HandoverDrained`: `NeverRewinds` and
`HandsOverDrained`, which speak of announced revocations. The code as configured is
never told (section 5), so of it they say this: while no partition is lost, no
commit of its own goes back, and the shutdown gives up what is drained. What they
say of revocations is what `stopWorkers` would do if it were called. `HandoverInv`
adds to the
invariant of `ConsumerProofs`:

* `TenureInv`: an account of each partition this instance has. Between the
  committed offset and the position of the client library every record is at
  exactly one place, and in order: reported and pending, in `commitCh`, in the
  worker's hand, in its channel, in the poll goroutine's hand. Only a failed
  commit makes a gap. So what is committed next is never below what is, and with
  everything drained it is the position itself.
* `RoleInv`: a member has every partition it is asked for, and of a partition it
  neither has nor is asked for no goroutine and no channel knows. Without it a
  partition could come back to a worker that still reports old records, which
  is what happens when the revocations are not announced (`consumer_rewind`).
* `RestInv`: a worker ends with its channel empty.

`NoneStranded` is `NothingStranded` in both modes: `RestInv` and `OpenInv`, which says
that only a worker the poll goroutine waits for has a closed channel.

**AppProofs.** `TypeCorrect`, `NoPoolDeadlock`, `ClosedLast`. `NoPoolDeadlock`
assumes `Ample`: more connections than workers (20 and 3 by default). The
invariant `HoldInv` ties the connections to the places of their holders; if nobody
but waiting workers held one, there would be at most as many out as there are
workers. With `MaxConns` workers or more on one instance the pool can be exhausted
for good until the context is cancelled. `ClosedLast` rests on `EndInv`, which
carries what each goroutine has waited for to the moment when `g.Wait` returns.

Only model-checked: liveness (`EventuallySettled`, `EveryOrderSettled`,
`Recovers`, `ShutdownEnds`, `DispatchedIsHandled`, `NestedServed`, `Stops`), which
needs fairness and `ENABLED` and is beyond the prover. The modules hold no recursive
operator, so nothing else is out of the prover's reach; induction over data,
which would be, is not needed by any of the results.

## 5. Disagreements

Each is the result of a run that is expected to find a violation; details and
quotations are in `PROJECT.json` under `findings`.

1. `outbox_loss`: "zero message loss" (`README.md:42`). A row whose publishes
   fail five times is skipped for ever by `retry_count < 5`, with no dead-letter
   queue and no alarm.
2. `processing_twice`: the key is "inserted ... inside a transaction; duplicates
   are silently skipped" (`README.md:75`). The saga's effects are committed by a
   second, nested transaction, and a crash between the two repeats the record.
3. `processing_lost`: "no event is ever lost, even during partial failures"
   (`README.md:3`). When the re-publish fails the worker logs the error and
   commits the offset.
4. `breaker_probe`: "Closed (on successful probes)" (`README.md:49`). A call
   admitted before the breaker opened closes it by succeeding while it is
   half-open; `generation`, which could tell, is never compared.
5. `consumer_rewind`: "Rebalance-safe - revoked partitions trigger targeted worker
   shutdown with offset drain" (`README.md:64`). `stopWorkers` is only reached by a
   `RevokedPartitions` event, and neither the configuration nor the subscription
   asks the library for one. The worker of a lost partition goes on, and its late
   commit lowers the offset another member has committed. Nothing is lost by it
   (`ImplementsCommitLog`, `NothingSkipped` and `NoneDropped` hold all the same);
   records are handled again and the idempotency key catches them
   (`RepeatsAccounted`). But the lowered offset stays until the partition's owner
   commits again, which without a new record it never does.

Noticed on the way, with no run of their own:

* `README.md:74` says "non-retriable errors go straight to DLQ". `withPoisonPill`
  reads `x-retry-count` before it looks at the error (`builder.go:74`), and when the
  header is not a number it returns without publishing anything; the worker logs the
  error and the offset is committed. The relay and `rePublish` write numbers only, so
  it takes a record of another program (`Foreign`). `CommittedAccounted` and
  `NoOrderForgotten`, and with them `NoneDropped` and `NoneForgotten`, except such
  records by name; `dropped` keeps account of them, and `NoneSkipped` includes them.
* `README.md:41` says failed publishes are "retried with backoff". After a full
  batch `drain` fetches the next one at once (`relay.go:69`); failed rows are the
  oldest and come first, so all five attempts may be spent without a pause.
* `internal/kafka/handler/handler.go:49` says "Saga failed but compensated ->
  system is consistent"; the same branch is taken when the compensation failed
  (in `Processing`, a failure in `Undo` followed by `Commit`).
* `README.md:118` says there are "no use-after-close races". That is so for all
  goroutines of the group (`ReleasedLast`), but HTTP handlers that outlive the
  thirty seconds of `Shutdown` can still ask the pool for a connection while the
  producer is flushed and get an error once the pool is closed.

## 6. Not modelled

* Response rendering, request decoding, middleware: no state changes.
* Configuration, logging, migrations, and `app.New`, which runs before any
  goroutine exists: static; limits that matter are constants of the modules.
* The Kafka and PostgreSQL client libraries: external, modelled by the outcomes
  the code distinguishes.
* Time: timeouts, poll intervals and backoff are events that may come at any
  moment. `HTTP.ShutdownTimeout` is configured and not read.
* Amounts: `NewOrder` sums unchecked `int64` products, which can wrap. The amount
  is stored and passed on, nothing is decided by it, and nothing says which amounts
  are legal, so there is no property to state.
* A saga with an arbitrary list of steps: `Processing` has the three that
  `ProcessCommand` gives the orchestrator.
* What a service holds for an order after a lost reply, a compensation that fails or
  a crash in the middle of the saga: the code keeps no record of it, and
  `ReservationsBalanced` leaves out that service for that order (`suspect`). It does say
  that the other service is compensated all the same.
* Handlers in `Consumer` and channel capacities in `Processing`: each module has what
  the other leaves out.

## 7. Plan

Done, in this order: `AtLeastOnce` and `Outbox` (the delivery guarantee is the
system's main promise), `Processing` (the largest piece of control flow),
`AtomicBreaker` and `Breaker`, the proofs of these, `CommitLog` and `Consumer`,
`App`, the proofs of `Consumer` and `App`, and those of `Consumer` with announced
revocations; then `Processing` as the consumer is configured, with commits that
come late, fail or lower the offset and partitions that come back to a worker with
old records of them.

Left:

1. `Pipeline`: `Outbox` and `Processing` composed over the abstract delivery of
   `AtLeastOnce`: an accepted order is in the end confirmed, dead-lettered or
   given up, and each confirmation has an event.
2. A second instance in `Consumer` in place of the abstract rivals.

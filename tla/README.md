# Verification of the Dibs watch protocol

Dibs watches restaurants for a free table and, when asked to, books it. A
*watch* is polled in cadence windows by background workers until it is found,
booked, expired or cancelled. This directory holds TLA+ models of that
machinery, the TLC configurations that check them and TLAPS proofs about them.
Paths below are relative to the repository root.

## 1. Inventory

### Components, their state and operations

| Component | State | Operations | Correct when |
|---|---|---|---|
| Watch repository, `backend/db/repositories/watches.py`, `watch_scripts.py` (in-memory and Redis) | per watch: document, runtime sidecar (revision, window, phase, cancel request), fencing counter, poll claim, schedule marker, active/all/terminal indexes, event ids; dispatch leases; leader lease | create_with_schedule, claim_window, begin_booking, commit_window, cancel_if_active, expire_if_eligible, release_claim, cleanup_due, claim/mark/release_dispatch, leadership, synthesize_marker, legacy save/delete | a finished watch stays finished; an active one always has a marker; a fenced writer changes nothing; one event per ending |
| Watch service, `backend/services/watch_service.py` | none of its own; the snapshot a delivery holds | create, poll_window/poll_once, provider and booking sequence, reconciliation, outage/miss/terminal commits, cancel, expire, notify; a legacy unfenced path | each window charges the budget at most once; a booking is reported if and only if it exists; one announcement |
| Dispatcher, `backend/workers/dispatcher.py` | dispatch leases | dispatch_due | a window is published by one replica at a time and never stays unpublished |
| Recovery, `backend/services/watch_recovery.py` | leader lease, pass lock | reconcile_once: prune, expire, synthesize, dispatch, cleanup | what a crash loses is found again |
| Queues and worker, `backend/workers/` | jobs at the broker | enqueue, monitor_watch, Celery retry and late ack | lost and repeated jobs are harmless |
| Mock booking state, `backend/db/repositories/mock_booking*.py` (in-memory and Redis) | slots under a capacity, search pins, bookings by idempotency key, tombstones | publish_and_filter, release, book_slot, get_booking, cleanup | no slot is sold twice or offered while held; nothing pinned or protected is dropped |
| One-shot bookings, `backend/services/booking_service.py`, `backend/integrations/mock_booking.py` | none; the slots a request was shown | execute: replay, search, book, replay | a confirmation is a slot the caller holds; never NONE while its key holds one |
| Legacy path, `watch_service.py` and `watch_recovery.py` | documents without sidecar | unfenced poll and save, migration, marker synthesis, pruning | the window of a watch that goes on is never closed or rewound; an old record settles |
| Pacing, `backend/services/watch_policy.py`, `backend/workers/scheduler.py` | outage counter | attempt budget, jittered delay, outage backoff, deadline clip | the deadline is reached when jobs keep their windows, never hot polling, a saturated counter changes nothing |
| History projection, `backend/db/repositories/watch_history.py` | one row per watch | revision-guarded upsert, ownership, claim | never moves backwards, tells the truth, keeps its owner |
| Sign-in, `backend/api/routes/auth.py`, `backend/services/auth_service.py`, `throttle.py` | two throttle buckets per attempt, hashing slots, accounts, sessions | log in, sign up, log out, check/reserve/abort/reset | guesses are bounded, only failures count, hashing threads are bounded, one account per e-mail |
| In-process queue, `backend/workers/queue.py` | tasks by window, closing flag | enqueue, done callback, close | one task per window; nothing survives close |
| Composition root and readiness, `backend/main.py`, `backend/services/readiness.py` | which store, queue and clients are bound; last outcomes | start-up branches, follow-up passes, shutdown, /health | one composition, no use after close, readiness has evidence |
| Request times, `backend/orchestrator/validator.py`, `integrations/mock_booking.py` | none | resolve date and times, candidate slots | what is offered is what was asked and what the venue serves |
| Language model calls, configuration, catalogue, logging, frontend | none relevant | parsing, wiring, presentation | not modelled |

### Interaction

The API process and the Celery workers share nothing but Redis and the broker.
`create` commits a watch and its first marker and then publishes a job. A worker
claims the job's window, talks to the provider, and commits the result with a
successor marker, then publishes the successor. Publication is best effort: the
marker is the authority, and the recovery pass of one API replica publishes due
markers again. Cancels come from HTTP requests, expiries from deliveries and
from recovery. History and notification are called after a commit.

### What is hard

Every `await` is a point where another process may write. The snapshot of a
delivery is old by the time it commits; leases lapse while their holder runs;
cancel and expire read two keys and then run a script; a booking error leaves
open whether the booking exists; jobs are lost, repeated and late; processes die
between the provider's effect and its record. `PROJECT.json` lists these hazards
line by line with the properties that cover them.

## 2. Modules

| Module | Models | Uses |
|---|---|---|
| `WatchStore` | the stored state of one watch and each atomic transition of the repository | - |
| `WatchPolling` | deliveries, cancel requests, recovery expiries, time and cleanup over that store; properties and inductive invariant | extends `WatchStore` |
| `WatchLifecycle` | the abstract promise: opened once, finished once, announced at most once and truthfully, then deleted | instantiated by `WatchPolling` |
| `WatchPollingProofs` | the theorems | extends `WatchPolling`, TLAPS |
| `WatchDispatch` | how windows reach workers: recovery passes, leader and dispatch leases, the broker, deliveries reduced to claim, commit and death | - |
| `WatchDispatchProofs` | the theorems about it | extends `WatchDispatch`, TLAPS |
| `ScheduleBatch` | several watches and the bounded, oldest-first batch of a pass | - |
| `LegacyWatch` | a record without sidecar: unfenced polls, cancels and expiries step by step, migration, pruning | - |
| `WatchHistory` | the PostgreSQL row of a watch: upserts of fenced and unfenced calls, ownership, what the API reads | - |
| `WatchHistoryProofs` | the theorems about it | extends `WatchHistory`, TLAPS |
| `PollPacing` | budget, cadence, outage backoff | - |
| `MockBookingLimits` | the settings both stores of the mock provider are built with | - |
| `MockBooking` | the in-memory store of the mock provider | extends `MockBookingLimits` |
| `MockBookingRedis` | the Redis store of the mock provider, with its separate keys and round trips | extends `MockBookingLimits`, implements `MockBooking` |
| `MockBookingRedisProofs` | the theorems about it, its implementation of `MockBooking` among them | extends `MockBookingRedis`, TLAPS |
| `BookingRequests` | concurrent one-shot requests over the in-memory store | extends `MockBooking` |
| `MockBookingProofs` | the theorems about the in-memory store and the requests | extends `BookingRequests`, TLAPS |
| `SignIn` | log-ins, sign-ups, throttles, hashing slots, accounts | - |
| `SignInProofs` | the theorems about it | extends `SignIn`, TLAPS |
| `LocalQueue` | the in-process task queue | - |
| `AppProcess` | start-up, bindings, follow-up passes, shutdown, readiness | - |
| `RequestTimes` | the routing of an extraction's date and times, and the slots offered for it | - |
| `BackgroundProofs` | the theorems about `LocalQueue` and `AppProcess` | extends both, TLAPS |
| `EdgeProofs` | the theorems about `LegacyWatch`, `PollPacing` and `RequestTimes` | extends the three, TLAPS |
| `MCWatchPolling`, `MCWatchDispatch` | the symmetry sets of the TLC instances | |
| `MCBookingRequests`, `MCEdge`, `MCBackground` | several components in one run (section 3) | extend them; `MCBackground` instantiates `ScheduleBatch` and `LegacyWatch` |

### WatchStore and WatchPolling

State follows the keys of the Redis store: `doc` (status, attempts, auto_book),
`rt` (revision, cadence sequence, window, phase, cancel request), `fence`,
`claim`, `marker`, `active`, `indexed`, `retention`, `events`. Each operator of
`WatchStore` is one Lua script, equally one critical section of the in-memory
store. A window identity is its cadence number, a claim its fencing token.
Time is the order of its events: a marker becomes due, a lease lapses, the
lifetime is `open`, `closing` (less than the one-second floor left, so that no
successor fits) or `over`, the retention elapses. Delays have no length here.

A delivery (`wk[k]`) stops at every await of `_run_claimed`: claim, replay
lookup, search, booking permit, the booking call (whose effect and whose answer
are two steps), reconciliation, the look for a pending cancel, commit,
announcement. It carries the document and sidecar it read at the claim and the
one clock reading of `_run_claimed`. Provider errors and the owned timeout may
strike at any provider step, crashes at any step. A cancel or expiry (`call[c]`)
is one step with the in-memory store (`AtomicStore`) and three on Redis: GET
document, GET sidecar, script; a cancel retries a bounded number of times.

The queue of `WatchPolling` is over-approximated: any window may be delivered at
any moment and any number of times. `WatchDispatch` models the queue itself.

### WatchDispatch

One watch, several replicas and worker slots. A pass holds the leader lease,
reads the schedule index, reads the sidecar (which may already be the
successor's), takes the window's dispatch lease, publishes, and extends or
releases the lease; it may die anywhere and its leader lease may lapse under it.
The broker holds a number of copies of each window's job and may lose any of
them; a delivery that dies may come back through late acknowledgement or retry.
A dispatch lease is represented by its owner: a replica runs one pass at a time
and draws a fresh owner id per process, so the owner determines the generation.

### Around a watch

**ScheduleBatch** reduces a marker to publication, loss, poll and grace and adds
what one watch cannot show: the pass takes the `batch_size` oldest markers only,
those still waiting out their grace period and *zombies* (rows whose window is
dead) included.

**LegacyWatch** has the reads of a recovery pass (index, document, sidecar,
marker, claim) apart from each other and from its reconciliation, which uses the
clock reading of the pass, and the read, provider call and save of
`_legacy_poll_once` as separate steps. A cancel and an expiry are three steps as on
Redis: the document, the sidecar, the script. A script whose caller read no sidecar
compares no revision (`EndIfActive`), and blanks a sidecar that was written
meanwhile. Cancels of the BOOKING phase are `WatchPolling`'s. Jobs name the watch
only. A coordinated poll is its claim and its commit.

**WatchHistory** has one row. Each transition of the live watch puts an upsert
into the set `sent`; it arrives at any later moment in any order, or is lost, as
`_record_history` logs a failure and never retries. An account's creation writes
its row first and is refused when that fails; an anonymous one writes after the
watch is live. Fenced transitions (`Commit`, `Finish`) are one step each. The calls
that no revision fences begin with a read (`BeginCall`) and land later, whatever is
stored by then: a legacy poll saves its document and reports no revision
(`LegacySave`), a cancel or expiry that read no sidecar reports revision 0
(`FinishUnfenced`). `overrun` remembers that one of them landed on a write it had
not read. A process without projection answers requests for any watch
(`PassUnchecked`, remembered in `unchecked`).

**PollPacing** counts time in half floors (two ticks are `MIN_DELAY_SECONDS`),
draws jitter nondeterministically, and quantifies over small policies. Jobs that
name their window (`enforce`) are refused before it is due; those that name the
watch only, as all of the in-process queue do, poll whenever they come after the
latest poll.

### Mock provider

**MockBooking** handles one candidate of `publish_and_filter` per step under the
lock, with a clock reading that may be `Skew` old when it takes effect. A booking
is the slot its confirmation names; a tombstone keeps the slot from being offered.
**MockBookingRedis** keeps `all`, `lru`, the pin set, owner hash and set per
operation, bookings and tombstones apart, each with its own expiry, and takes a
second round trip where the code does (`get_booking`, `book_slot`). Its mapping to
`MockBooking` reads a key that has expired as absent. **BookingRequests** runs
`BookingService.execute` against the first store; equal requests of one owner
have one idempotency key.

### Process and edge

**SignIn** stops an attempt at every await of the route (`check` of two buckets,
reservation of each, hashing, session, reset) and may cancel it there; a hashing
thread runs on after its request. `shared` chooses the local or the Redis
throttle. A cancellation that strikes inside a reservation (`auth.py:125-135`
releases what was reserved) or during the reset after a success is left out.

**LocalQueue** separates the end of a task from its done callback, and has
`close` cancel what it sees and wait. **AppProcess** walks through every
combination of reachable services at start-up and names for every part which
repository, mock state and queue it holds, then passes, writes, failures and the
order of shutdown. **RequestTimes** quantifies over requests, clocks and venues of
a nine-minute day with a boundary every three minutes.

## 3. Runs

| Run | Instance | Shows |
|---|---|---|
| `polling_redis` | Redis, 2 deliveries, 1 cancel (2 rounds), 1 sweep, all faults, leases that lapse under their task; 813k states | `TypeOK`, `NeverStranded`, `WindowChargedOnce`, `AnnouncedOnce`, `NoPhantomBooking`, `TerminalIsFinal`, `NoLostCommit` |
| `polling_memory` | in-memory, 2 deliveries, provider errors that reconciliation resolves; 16k states | `CancellationNeverLies`, `AttemptsNeverFall` |
| `polling_celery` | Redis, leases that outlive their task, timeouts, fairness; 237k states | `SingleFlight`, `LifecycleSpec` (refinement), `WatchFinishes` |
| `dispatch_leases` | 2 replicas, 2 workers, 2 windows, 2 copies of a job; 165k states | `TypeOK`, `SinglePublisher`, `NoJobAhead`, `CadenceMovedByOwner` |
| `dispatch_recovery` | 1 replica, 1 worker, leases that lapse under their owner, fairness; 4k states | `WindowServed` |
| `mock_provider` | `BookingRequests` (4 requests, 2 of them equal, 2 slots, capacity 1, stale clocks) and `MockBookingRedis` (2 slots, 2 keys, 2 searches, 1 caller); 490k states | `StoreSound`, `ConfirmedIsHeld`, `IndexesAgree`, `HeldKept`, `NoFalseSoldOut`, `StoreSpec` (refinement) |
| `edge` | `WatchHistory`, `SignIn`, `RequestTimes`, `PollPacing`, `LegacyWatch` (2 polls and 1 pass, 1 poll and 2 passes, or 1 poll, 1 pass and 1 cancellation); 1.4M states | `HistorySound`, `AccountWatchGuarded`, `HistoryKept`, `ThrottleSound`, `AccountsSound`, `OffersSound`, `PacingSound`, `NeverHotPolls`, `LegacySound`, `WindowNeverRewinds` |
| `background` | `LocalQueue`, `AppProcess`, `ScheduleBatch` (3 watches, 1 zombie, batch 2), `LegacyWatch` (1 poll, 1 pass, 1 cancellation), fairness; 257k states | `QueueSound`, `CloseReturns`, `ProcessSound`, `ReadyHasEvidence`, `Stops`, `EveryWatchServed`, `IndexedSettles` |
| `cancel_lies`, `sweep_discards`, `cancel_dropped`, `torn_read` | one delivery, one cancel, one sweep, no fault | the first four disagreements of section 6 |

`CHECK_DEADLOCK FALSE` throughout: a deleted watch, an answered request or a
stopped process has nothing left to do.

**Several components in one run.** The components of the last three passing runs
share no state. Their MC module chooses a *subject* in the initial state; a
behaviour is the subject's own, and the others rest in an initial state (in
`background` one where they owe nothing, so that their liveness properties are
not asked of components that do not move). TLC therefore checks each component
separately, and the run's state space is the sum and not the product. Where an MC
module extends several components, their `Init`, `Next` and `Spec` carry the
component's name (`SignInInit`, `PacingNext`, `ProcessSpec`), so that run and theorem
speak of the same definitions. A property
whose name ends in `Sound` or `Kept` is the conjunction of named parts in the
component's module:

| Property | Parts |
|---|---|
| `StoreSound` | types; the capacity bounds the published slots; a slot has one holder; a held slot is never offered |
| `HeldKept` | pinned slots and protected bookings stay |
| `HistorySound` | types; a row shows a status its revision stood for; unless an unfenced call landed on a write it had not read, the only one, and the ending is there once all writes arrived |
| `HistoryKept` | the row never regresses; its owners never change |
| `ThrottleSound` | types; guesses are bounded per window; only failed guesses remain counted |
| `AccountsSound` | hashing threads are bounded; one account per e-mail and no session without one |
| `PacingSound` | the budget lasts to the deadline if jobs name their windows; the saturated counter gives the backoff of the true one; the policy can be read back from the stored budget |
| `OffersSound` | types; a ready intent makes a valid query; slots lie within opening hours and ahead of the clock (reversed windows excepted: section 6, item 10); the preferred time comes first |
| `LegacySound` | types; a marker always has an open window behind it |
| `QueueSound` | types; one task per window; no task outlives `close` |
| `ProcessSound` | types; all parts hold one composition; nothing closed is used; everything opened is released |

**Bounds.** Two deliveries are enough for every race between a current and a
fenced holder, one cancel and one sweep for every race of those with a delivery
and with each other. `MaxSeq = 1` and `MaxAttempts = 2` let a watch miss, move to
a second window and spend its budget there; `MaxToken` allows a window to be
claimed again after a lapse. `polling_memory` uses larger bounds because its
state space is small. In `WatchDispatch` two windows suffice for a job, a lease
or a sidecar of one window to meet the other; two copies of a job for a
duplicate; a copy beyond the bound is one the broker lost. In the mock provider a
capacity of one and two slots force every eviction decision, and the clock runs
long enough for a pin, an idle slot and a booking's protection to end. In
`WatchHistory` the revisions 0 to 2 suffice for an overtaken write to meet a
successor and an ending, two unfenced calls for one to land on the other, and three
upserts are under way at most; who passes the ownership check is explored for the
watches of accounts, and losses only where no unfenced call landed on a write it had
not read (a write that never arrives stays under way there). The policies of
`PollPacing` include one whose early polls can spend the budget. Three tasks are a running, a replaced and a rescheduled one. The
batch of two with one zombie and three watches is the smallest in which a watch
has to wait for a later pass. The theorems hold for every value of the constants
of their module.

**Fairness.** `polling_celery`: time passes, and the periodic loop that
`main.py` starts keeps sweeping; a sweep may die, but not at the same await in
every pass (strong fairness of its later steps). Deliveries get no fairness at
all, so the result does not depend on workers. `dispatch_recovery`: time passes,
so markers come due and leases lapse; recovery passes go on; the broker does not
refuse or lose every publication for ever; a worker that claims again and again
is not killed before every commit. The service's own publications get none.
`background`: tasks that were cancelled end and their callbacks run (asyncio);
polls end and the lifespan's shutdown goes on; passes go on and jobs that are not
lost are polled, and losses are bounded (`MaxFaults`); time passes and the
recovery pass over old records takes its next step. `IndexedSettles` promises
nothing for a record the index has lost.
One replica and one worker are used in `dispatch_recovery` because the liveness check of two
replicas takes too long; the safety run has two of each.

**Assumed orders of time limits.** `LeaseOutlivesTask`: Celery ends a task after
90 s (`celery_app.py:45`) and the poll lease is 120 s, so a lease does not lapse
while its delivery is in flight. Only `SingleFlight` needs it; `polling_redis`
checks everything else without it. `LeaseOutlivesPublish`: a dispatch lease does
not lapse while its owner publishes; only `SinglePublisher` needs it.

## 4. Theorems

`WatchPollingProofs` proves, for every number of deliveries, clients and sweeps,
every bound and, unless the table says otherwise, both stores, all faults and
leases that lapse under their task:

| Theorem | Statement |
|---|---|
| `TypeCorrect` | `Spec => []TypeOK` |
| `Invariance` | `Spec => []IndInv` |
| `Stranding` | `Spec => []NeverStranded` |
| `Charging` | `Spec => []WindowChargedOnce` |
| `Announcing` | `Spec => []AnnouncedOnce` |
| `Finality` | `Spec => TerminalIsFinal` |
| `NoLostCommits` | `Spec => NoLostCommit` |
| `Refinement` | `Spec => LifecycleSpec` |
| `Exclusion` | `Spec => []SingleFlight`, assuming `LeaseOutlivesTask` |
| `NoPhantoms` | `Spec => []NoPhantomBooking` |
| `AttemptsKept` | `Spec => AttemptsNeverFall`, assuming `AtomicStore` |
| `Truthful` | `Spec => []CancellationNeverLies`, assuming `AtomicStore`, `LeaseOutlivesTask` and `Faults \subseteq {"error"}` |

`WatchHistoryProofs` proves, for every number of clients, accounts and unfenced
calls, every bound on revisions and clock, and every order of arrival and loss:

| Theorem | Statement |
|---|---|
| `TypeCorrect` | `Spec => []TypeOK` |
| `Invariance` | `Spec => []IndInv` |
| `Truth` | `Spec => []HistorySound` |
| `Guarding` | `Spec => []AccountWatchGuarded` |
| `Keeping` | `Spec => HistoryKept` |

`WatchDispatchProofs` proves, for every number of replicas, workers, windows and
copies of a job, and every loss, lapse and crash:

| Theorem | Statement |
|---|---|
| `Invariance` | `Spec => []IndInv` |
| `TypeCorrect` | `Spec => []TypeOK` |
| `NotAhead` | `Spec => []NoJobAhead` |
| `SingleFlightDispatch` | `Spec => []SinglePublisher`, assuming `LeaseOutlivesPublish` |
| `OwnerMovesCadence` | `Spec => CadenceMovedByOwner` |

`MockBookingProofs` proves, for every number of slots, keys, searches and
requests, every capacity and lifetime (`RSpec` is the requests' specification):

| Theorem | Statement |
|---|---|
| `Soundness` | `Spec => []StoreSound` |
| `Keeping` | `Spec => HeldKept`, assuming `Skew < Retention` |
| `Confirmation` | `RSpec => []ConfirmedIsHeld` |
| `NoFalseAnswer` | `RSpec => NoFalseSoldOut` |

`MockBookingRedisProofs` proves, for every number of slots, keys, operations and
callers:

| Theorem | Statement |
|---|---|
| `Indexes` | `RedisSpec => []IndexesAgree` |
| `Implements` | `RedisSpec => StoreSpec`: the keys and scripts implement `MockBooking` |

`SignInProofs` proves, for every number of attempts, e-mails and peers and every
limit:

| Theorem | Statement |
|---|---|
| `Throttling` | `SignInSpec => []ThrottleSound` |
| `Accounts` | `SignInSpec => []AccountsSound`, assuming `~Twice` |

`BackgroundProofs` proves, for every number of tasks and windows, every branch of
the start-up and every outcome of a pass:

| Theorem | Statement |
|---|---|
| `Queueing` | `Spec => []QueueSound` |
| `Composition` | `ProcessSpec => []ProcessSound` |
| `Readiness` | `ProcessSpec => []ReadyHasEvidence` |

`EdgeProofs` proves, for every number of polls, passes and cancellations, every
setting of the pacing, and every extraction, clock and venue:

| Theorem | Statement |
|---|---|
| `LegacySoundness` | `LegacySpec => []LegacySound` |
| `NoRewind` | `LegacySpec => WindowNeverRewinds` |
| `Budget` | `PacingSpec => []PacingSound` |
| `NoHotPolls` | `PacingSpec => NeverHotPolls` |
| `Offers` | `TimesSpec => []OffersSound` |

**Assumptions.** Those the modules state of their constants: bounds are numbers,
flags are Booleans, `None` and `NoOne` are no member of the other sets, slots and
attempts are finitely many. What is more than a type comes from the code or its
configuration:

- `Skew < Retention`: a Redis round trip is shorter than the retention of a
  booking, seven days by default.
- `AtomicStore`, `LeaseOutlivesTask`, `Faults \subseteq {"error"}`: section 3;
  `cancel_lies` and `torn_read` refute the properties on Redis, and section 6
  describes what a timeout does.
- `~unchecked`, inside `AccountWatchGuarded`: every process that answered for the
  watch has the projection. One that started without reachable PostgreSQL checks
  nothing (`routes/watches.py:43-45`, `main.py:201-212`), which requirement 3.5 in
  `docs/specs/milestone-5-accounts-and-authentication/requirements.md:93` accepts.
- `~overrun`, inside `HistorySound`, and `enforce`, inside `PacingSound` and
  `NeverHotPolls`: section 6, items 14 and 7, show what happens without them.
- One clock stamps the writes without revision of all processes.
- `~Twice`: no request is cancelled a second time while it waits for its hash;
  section 6, item 11.
- `Before`: log-ins that failed before the start were themselves admitted, so
  they are within the limits.
- `PacingAssumption`: the interval is at least the floor of one second and the
  jitter below the interval; `config.py` refuses intervals below 15 s.
- `TimesAssumption`: a boundary at least every third minute that divides the day
  (`SLOT_INTERVAL_MINUTES` is 15), and venues that open at a boundary and close on
  the same day or at its midnight, as every one of the catalogue does. With a
  boundary every second minute `OffersAhead` is false at the last minute of the
  day; with a venue open past midnight `TimesTypeOK` is, as a start would be printed
  24:00. The assumptions are what the proof needed, and both are TLC's to refute.

**Argument for `WatchPolling`.** None of these properties is inductive alone: a commit writes a
document computed from a snapshot, so what it writes is right only if the
snapshot is current whenever the fence lets it through. `SnapshotsFenced` says
so: a delivery in flight whose revision is the stored one holds the stored
document and window. It is preserved because every write that changes those
raises the revision, and the writes that do not (permit, recorded cancel) change
only phase and request. `CallsFenced` is the weaker fact that holds for cancel
and expire on Redis, whose document may be older than their sidecar: the window
is current and the attempts are not more than the stored ones. `OneAnnouncer`
says that whoever wrote the ending, and nobody else, is about to announce it.
`IndInv` joins them with the properties. The proof that a step preserves it
treats the steps that leave document, window and indexes alone in one go
(`Undisturbed`) and gives every other action a lemma. The action properties and
the refinement rest on `StepEffect`: a step opens the watch, advances it,
finishes it, tells its owner, deletes it or leaves all that alone.
`Exclusion` adds `ClaimHeldInFlight`: the live claim is that of the delivery in
flight, and the stored revision the one it read.
`NoPhantoms` follows the reservation instead of the status (`BookingBacked`): a
delivery that has landed a booking or is about to commit one has a reservation
behind it, and nothing takes reservations back. `AttemptsKept` needs that no call
keeps a snapshot across an await (`NoStaleCall`), which is what Redis lacks.
`Truthful` rests on `BookingGuarded`: as long as a delivery may book, the stored
phase says BOOKING, and an active watch with a reservation has a delivery on its
way to commit it. A cancel of an active watch looks at the phase under the lock, so
it ends the watch only when no reservation can exist or come. A timeout after the
booking landed would clear the phase and break exactly this.

**Argument for `WatchHistory`.** That the row is truthful depends on every write
still under way, so `Truthful` says of each of them what it says of the row: a
write that names a revision shows a status that revision stood for (`Told`). As long
as no unfenced call landed on a write it had not read, `Ordered` says more: every
revision stood for one status, and while the watch is active all writes told of an
active watch, at the latest of the current revision. Hence a finished row tells the
ending, which is why refusing writes to a finished row loses nothing. `Unfenced` says
what a call that nothing overtook still knows: the watch is active, has no sidecar,
and no write so far has a later time than the call. `Projected` then keeps the ending
in the row, or in a write under way that beats every other one, unless one was lost.
`Owned`
says that writes under way never name an account and no client but the creator's,
and that an account's row precedes its watch; `Guarded` and `HistoryKept` follow.

**Argument for `WatchDispatch`.** That a successor is a window at all depends on
`OwnerCurrent`: a delivery whose claim is live holds the current window, because
the window moves only with a commit that gives the claim up. `PublisherHoldsLease`
ties each publisher to the lease of its window; the compare-and-delete of
`release_dispatch` and the order of the time limits preserve it.

**Argument for `MockBooking`.** `StoreSound` is inductive. Every step but a booking
only drops entries that have lapsed at the caller's reading, and what has lapsed
at an older reading has lapsed (`LapsedForGood`). A booking is made over lapsed
entries only: its key's booking by the replay check, its slot's tombstone because
the slot is still published and no held slot is. An eviction that admits a
candidate exchanges one published slot for another.

**Argument for `BookingRequests`.** A request books under its own key, and the
answer it got is the booking the store holds for that key until its protection
ends (`AnswerStored`); bookings change only over lapsed entries, so this survives
the steps of all other requests. `StoreSound` then gives the tombstone.
`RequestsOK` says that only a request with a key is in a booking phase.

**Argument for `MockBookingRedis`.** The mapping reads a pin from the pin set and the
owner hash, a booking from its key and the expiry beside it, and the published
slots from the index `all`. That each script is one step of `MockBooking` needs
the indexes to agree in between (`IndexesAgree`, `RecordsIndexed`), a release to
find all live pins of its operation through the operation's own set although that
set expires (`PinsFound`), a script to see the pins it started from (`ScriptPins`),
and the clock of a second round trip to be recent (`CallsRecent`). `RedisInv` joins
them. An expiry of a key maps to a stutter or to the removal of a lapsed entry.

**Argument for `SignIn`.** The limits speak of guesses, the buckets of reservations.
`GuessesReserved` ties a guess made in the present window to an event in both
buckets of its attempt; `EventsOwn` and `TokensOwn` say that an event belongs to
one attempt and is released by no other; `EpochsEarned` that a bucket was emptied
only after a success. With `WindowsBounded` the number of guesses is that of a
subset of a bounded set. For the accounts `AccountsInv` says that a running hash
holds its slot, also when its request was cancelled once, and that a session about
to be issued has its account.

**Argument for `LocalQueue` and `AppProcess`.** `TasksKnown`: a live task is the one
its window is booked for, and is awaited once a close has begun; hence a second
task for the window would be the same one. `ProcessInv` describes the start-up
and the shutdown stage by stage: what is open is what the composition of that
stage needs (`Composed`), which parts hold it already (`Staged`), what is closed
first (`Drained`); `Evidence` ties each green light to the latest outcome.

**Argument for `LegacyWatch`.** `WindowsAgree`: a marker, an open window and a live
claim go together, and every sidecar that is stored or was read has a sequence
not above its revision. A repair stores what its pass read only where its script
finds no marker, and then no window is open that it could take back. Commits move
an open window forward. A cancel or expiry that compares no revision may blank a
later sidecar, but it ends the watch in the same script. What happens to the cadence
of a watch that ended is section 6, item 13.

**Argument for `PollPacing`.** `PacingInv`: the next poll of an active watch is
scheduled the floor after the latest one, so a job that waits for its window runs
no earlier. If jobs name their windows, then after `n` checks of an active watch its
next poll is at least `n` earliest intervals after the start, or at the deadline.
The derived budget is one more than the intervals that cover the lifetime, so the
check that spends the last of it is not before the deadline. The stored outage
counter is the true one cut off at the exponent limit. What `Pow2` and
`ExponentLimit` compute is an induction; it is carried out with the least
counterexample of a set of numbers, which `WFMin` and the well-foundedness of `<`
provide without an operator as a parameter.

**Argument for `RequestTimes`.** `TimesInv` adds `AsksAhead` to the property: the times
of a ready intent for today are not before the next boundary. The rest is
arithmetic of the grid (`Snapped`, `Ahead`): the boundary nearest to a minute is
never beyond a boundary on either side of it, so a preferred boundary inside the
window is among the candidates, and snapping what is ahead of the clock stays ahead.

**Only model-checked:** the liveness properties `WatchFinishes`, `WindowServed`,
`CloseReturns`, `Stops`, `EveryWatchServed` and `IndexedSettles` (liveness under
fairness is outside the prover's reach), and with them all of `ScheduleBatch`,
whose one property is liveness. Every invariant and every action property of a
passing run is proved. The invariants used in the proofs were checked by TLC
before they were proved.

## 5. Mutants

Each checked property has a mutated definition beside the original, marked
`Mutation:`, that changes the code as a plausible bug would (a dropped fence, a
missing successor marker, a scan that leaves out overdue markers) and that
violates the property under the run's own configuration.

## 6. Where code and text disagree

1. **A cancellation can lie on Redis** (`cancel_lies`). `cancel_if_active` reads
   the sidecar (`watches.py:1304`) and its script compares only the revision,
   which `begin_booking` does not raise. A cancel that read before the permit
   passes after it: the watch ends CANCELLED while the booking is made.
   `watch_service.py:496` says "a cancellation never lies". The in-memory store
   is not affected (`polling_memory`).
2. **A sweep discards a confirmed booking** (`sweep_discards`).
   `expire_if_eligible` disregards the BOOKING phase and a live claim, so at the
   deadline a watch whose booking was just confirmed ends EXPIRED.
   `watch_service.py:496` says "a confirmed booking is never silently discarded".
3. **A recorded cancel is dropped** (`cancel_dropped`). A request recorded after
   the delivery looked for one is overwritten by that delivery's miss or outage
   commit and the watch stays active. `watch_service.py:315` calls its
   resolution "the owner's".
4. **A torn read lowers the attempts** (`torn_read`). Document and sidecar are
   read by two GETs; a commit between them pairs an old document with the new
   revision. `watches.py:269` calls the stores "equivalent".

### Further disagreements

These have no run of their own. Each is a definition of the named module, marked
*refuted*; checked in the run named, as an invariant or a property beside its
others, it yields the counterexample.

5. **A confirmation may not be stored** (`ConfirmationStored` of
   `MockBookingRedis`, `mock_provider`) and **a replay may be out of date**
   (`ReplayIsCurrent`, with two callers). `book_slot` and `get_booking` read first
   and decide in a second command; `mock_booking_scripts.py:3` speaks of "each
   multi-key decision" as one script, and `mock_booking.py:81` says `get_booking` returns
   "a still-protected booking for a key, or None".
6. **A client's watch may not be listed** (`ClientWatchListed` of `WatchHistory`,
   `edge`), with no write lost: a later revision published from another
   process arrives before the creation's, which is then not fresh, and the client
   id it carried is dropped.
   `docs/specs/milestone-4-write-api-and-frontend/requirements.md:66` states the
   listing.
7. **The cadence can slip in the in-process queue** (`CadenceKept` of
   `LocalQueue`, `background`): a task is told no window and polls whatever window
   is open, so a job kept too long polls the successor early;
   `.kiro/specs/milestone-3-production-path-hardening/bugfix.md:32` asks that
   duplicates keep "the one configured jittered schedule". Such early polls also
   **spend the budget before the deadline** (`DeadlineAlwaysReached` of `PollPacing`,
   `edge`): every miss charges an attempt, `poll_once` passes `enforce_due=False`
   (`watch_service.py:356-358`) and the in-process queue calls it for every job
   (`main.py:539-543`). `PacingSound` and `NeverHotPolls` therefore promise the
   deadline and the distance between polls to jobs that name their windows only.
8. **A broken migration ends the start-up** (`StartsWithoutPostgres` of
   `AppProcess`, `background`): only `ConfigurationError` is caught; `main.py:184`
   says "a broken migration -- degrades to a disabled history projection".
9. **A legacy ending is not final** (`EndIsFinal` of `LegacyWatch`, `edge`):
   an unfenced save can restore an active document, which `bugfix.md:33` of the
   same directory excludes. **A legacy record may not settle** (`Settles`,
   `background`) once it has left the index, the "permanent wedge" of `bugfix.md:34`.
10. **A past time is bookable** (`PastNotBookable` of `RequestTimes`, `edge`)
    when the extraction also holds a reversed window, which ends the validation
    before the time is compared with the clock;
    `tests/test_validator.py:198` is named
    "test_today_is_bookable_but_a_time_already_past_is_not". **A slot may precede
    the window** (`NotBeforeWindow`, `edge`) because times snap to the grid;
    `orchestrator/schemas.py:62` says "Earliest acceptable local time".
11. **Hashing may exceed its bound** (`HashersBounded` of `SignIn` with
    `Twice = TRUE`): a second cancellation ends the wait that keeps the slot while
    the thread runs (`auth_service.py:123`).
12. **A batch full of dead markers starves the rest** (`ScheduleBatch` with as many
    zombies as `BatchSize`): a legacy ending leaves its marker, although
    `watches.py:1050` says recovery prunes it.
13. **The cadence can rewind when a watch ends or is revived** (`CadenceNeverRewinds`
    of `LegacyWatch`, `edge`). A cancel or expiry that read no sidecar passes no
    revision (`watches.py:1305`, `1333`); its script then compares none
    (`watch_scripts.py:150`) and sets the sidecar that recovery migrated and a poll
    advanced meanwhile to the empty string (`watch_scripts.py:158`). The watch ends
    with it. When an unfenced save makes a watch active again, its cadence starts
    over, or recovery, which reads document, sidecar and marker with one await each
    (`watches.py:1519-1523`) and stores the sidecar it read without comparing its
    revision (`watch_scripts.py:328`), opens a window again that was polled.
    `NoRewind` is about a watch that goes on.
14. **An ending may not be projected** (`OutcomeAlwaysProjected` of `WatchHistory`,
    `edge`), with no write lost. A legacy poll reads the watch; an expiry that read no
    sidecar ends it and is projected with revision 0; the poll then saves FOUND, with
    revision -1, which the row refuses (`watch_history.py:77-81`). The same happens
    when recovery migrates the watch and a commit is projected before the poll's
    save. The module says that "a watch's last known public state survives"
    (`watch_history.py:5`).

A provider timeout (`watch_service.py:420`) after the booking landed is an
outage that also clears the BOOKING phase; a cancel may then win over a
reservation that exists, which is why `polling_memory` has errors but no
timeouts. The next delivery of a watch that is still active finds the
reservation by its key (`Replay`).

## 7. Plan

Every component that keeps state is modelled, and every safety property of the
runs is proved. What is worth adding, in this order:

1. `StoreSound` and `HeldKept` of the Redis store itself, from `Implements` and
   the theorems about `MockBooking`.
2. Action properties that the invariants already carry: the revision of a watch
   never falls, a fencing token is never given twice, an account is never replaced.
3. The reads of `book_slot` and `get_booking` (section 6, item 5) as a statement of
   what they do guarantee.

## 8. Not modelled

The language model calls and their parsing, party sizes and venue names; the
encoding of records, tokens, cookies and HTTP answers; SQL, connection pools and
migration files beyond their failure; e-mail transport; configuration parsing,
the venue catalogue and logging; the web frontend. None of them keeps state that
two actors share. The eviction of idle throttle buckets, the throttles of routes
other than sign-in, and the construction of a worker's clients for each task are
left out as well. Delays have a length in `PollPacing`, `MockBooking` and
`WatchHistory` only; elsewhere time is the order of its events.

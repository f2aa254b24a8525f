# LedgerSync in TLA+

LedgerSync is a closed-loop, double-entry ledger for one currency per tenant.
PostgreSQL is the only source of truth: every financial command is a PL/pgSQL
function, and the Go services around it authenticate, validate, retry, publish
events and run workers. This directory holds a TLA+ model of that system, TLC
configurations that check it on small instances, and TLAPS proofs of the
properties that matter most, for every size of instance.

## The system

| Part | State | Operations | Source |
|---|---|---|---|
| Balances and journal | projection columns `ledger_minor`, `available_minor`, `balance_version`; append-only journal; balance rows of the outbox | written by every financial command | `migrations/000036`, `000066`, `000035` |
| Transfers | transfers, idempotency requests, velocity events and totals | submit, replay | `migrations/000036`, `internal/application/transfers` |
| Reservations | holds, stored hold commands, expiry jobs, claims in worker memory | create, release, capture, expire | `migrations/000066`, `internal/platform/db/reservation_repository.go` |
| Corrections | corrections and their approvals | request, cancel, approve, reject, post, expire | `migrations/000036`, `000053` |
| Funding | funding events and their approvals | request, compensate, approve, reject, post | `migrations/000036`, `000052`, `000059` |
| Account lifecycle | account status and version | freeze, reactivate, close | `migrations/000048`, `000066` |
| Outbox publication | claim owner, generation, lease, attempts; the worker's batch | claim, renew, publish, complete, retry, bury, replay | `internal/application/outbox`, `migrations/000044`, `000054`, `000055` |
| Stream, projector, cache | Redis stream, consumer group, cached balances | read, recover, apply, acknowledge | `internal/application/projection`, `internal/platform/events`, `internal/platform/cache` |
| Webhook delivery and verification | leased jobs, endpoints | claim, send, complete | `internal/application/webhookdelivery`, `webhookverification` |
| Reconciliation scheduler | scheduler lease, scheduled jobs | acquire, tick, complete | `internal/application/scheduler`, `migrations/000043` |
| Opening imports, provisioning, statement reconciliation, investigation, exports, web | evidence and read models | see `PROJECT.json` | various |

How they interact: all financial commands of a tenant share the balance
projection. `withSerializableRetry` (`internal/platform/db/postgres.go:82`) runs
each of them in a SERIALIZABLE transaction, retried up to five times, so that
those that commit have the effect of running one after the other. That is why a
command is one atomic step of the model, and a command that raises an error is
rolled back and no step at all. The session advisory lock that
`withSerializableSequence` takes first (`postgres.go:132`) spares retries and is
not what the model rests on: its key names a family of commands
(`transfer-policy`, `funding-post`, `transfer-correction-post`,
`account-update`), and commands of different families do run concurrently. A
capture calls the transfer command
inside its own transaction. Closing an account looks at holds, funding and
corrections. Commands write outbox rows in the same transaction; workers
publish them later, at least once.

What makes it hard, and what should be true anyway:

* commands of several people and retries of one person interleave: one key has
  one outcome, money is neither made nor lost, nobody spends reserved money;
* a hold is decided by a person, by a capture or by an expiry worker that may
  crash or come back late: the reserved amount is given back or spent once;
* time enters through windows (rolling limits, approval windows, expiries,
  leases) that close between two steps;
* an account is closed while something about it is still open;
* running totals and projections replace sums over history and must not drift;
* events are consumed out of order and rebuild the balance from versions.

`PROJECT.json` lists these hazards one by one, each at its line.

## The modules

| Module | Models |
|---|---|
| `Sums` | sums over numbered history (`sum()` in SQL), as a recursive function |
| `Balances` | accounts, projection, journal, balance events; `MoveMoney` and `ShiftAvailable` are the only two ways the projection changes |
| `Transfers` | `controlled_submit_transfer_v1`: idempotency, policy, rolling limits, posted and rejected outcomes |
| `Reservations` | holds, their commands and the leased expiry queue |
| `Corrections` | reversal of posted transfers under dual control |
| `Funding` | recorded external value and its compensation |
| `Ledger` | the composition of the five and the account lifecycle: the specification `Spec`, and `LiveSpec` with fairness |
| `AbstractLedger` | what the financial core promises, without its machinery |
| `MCLedger` | instances of `Ledger` for TLC |
| `Outbox` | the leased, generation-fenced outbox queue, its publishers, retries, burial and approved replay |
| `Projection` | the composition of `Outbox` with the Redis stream, the consumer group of projectors and the monotonic balance cache |
| `MCOutbox`, `MCProjection` | instances of the two for TLC |
| `SumProofs` | facts about sums |
| `CommandTypes`, `LedgerTypes` | every action keeps every type, ending in `TypeCorrect` |
| `LedgerEffects` | every step has one of five effects on balances and holds |
| `LedgerProofs` | solvency, and that the projection never drifts from the journal |
| `LedgerRefines` | refinement of `AbstractLedger` and the action properties |

State and actions correspond to the code as `PROJECT.json`'s `map` records, by
definition and line. Some conventions:

* Tables are sequences where rows are numbered by commit order (transfers,
  journal, holds, corrections, funding) and sets elsewhere. A foreign key is an
  index; 0 is NULL.
* A command's checks are conjuncts. Checks that raise may be listed in any
  order, since each of them rolls back everything.
* A comparison with the clock is a flag that time sets (`due`, `lapsed`,
  `lease`), except for the rolling windows, which use a small clock `now`.
  `Skew` is the difference between the clock of an API replica, which stamps
  `occurred_at`, and the clock of the database.
* The event payload is modelled by what it carries: version 1 payloads have no
  ledger balance, the insert trigger promotes an event to version 2 when funds
  are reserved, and `DecodeBalance` reads either back.
* The initial state is a provisioned tenant after its opening import: imported
  accounts have version 1 and one event.
* Worker failures are bounded by `MaxFaults`. A lease that lapses on a worker
  that is still busy counts as a fault; a lease that lapses after its worker is
  gone does not.
* `Ledger` and `Outbox` meet in the outbox rows. `Ledger` says what an event
  carries (`EventsDescribeBalances`: each version of an account has one event,
  which describes it); `Outbox` then names an event by aggregate and version,
  and `Commit` stands for any command that writes one.
* A publisher's handling of one event is several steps (`Renew`, `Prepare`,
  `Send`, `MarkPublished` or `HandlePublishFailure`), because the database, the
  other workers and time move between them. `Send` is one command on the
  wire: Redis may add the event although the client hears nothing of it. The
  client is built with the default options of go-redis
  (`internal/platform/redisconn/options.go`), sends such a command again up to
  `MaxRetries` times on the same claim, and then answers with success or
  failure; other workers move between two sends. Two publishers may share an identity: it is made of node name and
  process number, which a replacement container can inherit.
* `Keeps` compares versions as the Lua script does, as strings of digits.
* In `Projection`, stream entries are numbered from the first one ever added;
  `trimmed` entries are gone from Redis. One process runs a publisher and a
  projector in turn; the model lets them run independently, which allows more.

## What TLC checks

A bound of 0 switches a component off, so that each
run spends its states on one question. Deadlock is not checked in these runs:
with every bound reached the instance has nothing left to do.

| Run | Question | Instance | States |
|---|---|---|---|
| `Transfers` | Does a key keep its outcome, and are the rolling limits kept by totals that are exact? | two accounts, two actors, two keys, clock 0..3, window 2 | 23,852 |
| `TransfersSkew` | Are they kept when replica clocks differ by one unit? No: see Findings. | the same with `Skew` 1 | violation |
| `Reservations` | Is money conserved, reserved once and given back once, and does the core implement `AbstractLedger`? | two holds, transfers between them, one client using a capture key | 320,955 |
| `HoldExpiry` | Do stored responses stay true and do due holds settle, with two workers that crash and lose leases? | two holds, two workers, two faults, one actor, fairness | 37,795 |
| `Lifecycle` | Is a closed account empty and quiet, whatever was in flight? | a hold, a correction, a funding event and a transfer each | 854,322 |
| `Corrections` | Is a transfer reversed at most once, in full, by two people, and never after its approval window closed? | three people, two corrections | 112,182 |
| `Funding` | Does the clearing account mirror external value, is value taken back once, and does a compensation requested after its account was closed take nothing from it? | three people, one reference, three funding events, one transfer, two lifecycle changes | 521,650 |
| `Outbox` | Is what is called published sent, do rows and attempts agree, also when operators replay buried events, and do the attempts explain every duplicate? | two publishers with one identity, one event, one resend per publication, two operators, two approvals, two faults | 575,399 |
| `ReplayOnce` | Can buried work always be recovered? No: see Findings. | the same with one attempt and one fault | violation |
| `OutboxLive` | Does every committed event get out or get buried? | two publishers, batches of two, no resends, one fault, fairness | 47,578 |
| `Projection` | Is nothing acknowledged before it is visible, and does the cache never go back? | one publisher, one resend, two projectors, one read, versions 8 to 10, one fault | 1,019,047 |
| `CacheLive` | Does every committed balance reach the cache, does nothing stay pending, and does what is trimmed or lost with Redis cost no other update? | one publisher, one projector, two updates, one attempt, no resends, one expired entry or loss of Redis, stream of one entry, one fault, fairness | 32,466 |

The bounds are small but every case of interest happens: two commands that
compete for the same balance, a key reused with the same and with another
intent, a window that slides past a posted transfer, a hold decided while it is
claimed, a lease lapsing under a working and under a dead worker, an account
closed in front of each kind of open obligation. Each property has a mutant, a
plausible bug in one definition, and fails on it. Symmetry is used for request
keys and, in `Projection`, for the projectors: both are compared for equality
and nothing else, and no liveness is checked with it. Versions start at 8 so
that the second commit crosses from one digit to two.

Fairness (`LiveSpec`) is weak fairness of the expiry worker for each hold and
of lease time. The worker process calls `RunOnce` in a loop for ever
(`cmd/outbox-worker`), and a claimed item is always finished, refused or
forgotten by a fault; time passes. Nothing is assumed about people: a hold that
is due is settled even if no command ever comes. `OutboxLive` and the
`LiveSpec` of `Projection` assume the same of publishers and projectors, which
`WorkerRunner.RunOnce` (`internal/bootstrap/worker.go:181`) runs in turn, with
no failure of one keeping the others from their turn, and of the time that
leases, backoffs and idle entries wait for. Failed publications are not bounded
and need no fairness: each takes one of a finite number of attempts. A resend is
one more of a finite number of sends and only delays the answer; `OutboxLive`
and `CacheLive` leave them out to afford two events. (`CacheLive` with
`MaxCommits = 1`, `MaxAttempts = 2` and `MaxRetries = 1` passes too, with 44,012
states.) Operators
need not replay anything.

### Findings

`TransfersSkew`: `docs/pilot/india-launch-profile.md:39` says the rolling window
is the immediately preceding 24 hours, evaluated transactionally. The command
prunes velocity events by the `occurred_at` of the request, which an API replica
stamps with its own clock before the request waits for its turn. A request
stamped by a fast clock prunes events that a later request with a slow clock
must still count, and that request is admitted over the limit. With equal clocks
and requests stamped at most once per turn the limits hold (`Transfers`).

`ReplayOnce`: `docs/runbooks/data-retention.md:10` keeps dead outbox work for
ever because "Recovery must remain possible and explainable". The unique index
`outbox_replay_executed_once_idx` (`migrations/000010:29`) allows one executed
replay per event for ever. An event that is replayed while Redis is still
unavailable is buried again, and from then on a replay of it can be approved but
never executed. The limit itself is intended:
`docs/release-evidence/phase-0d.md:55` says that a replay "cannot execute twice".
The two documents cannot both hold of such an event.

## What is proved

TLAPS proves the following of `Spec`, for all accounts, actors, keys, amounts,
limits and bounds, from the named assumptions of the modules (constants have
their types, the clearing account is not a customer account, opening balances
and amounts are natural numbers).

| Theorem | Says |
|---|---|
| `TypeCorrect` | `TypeOK` is invariant; it includes that no transfer or hold has the same account on both sides |
| `AlwaysSolvent` | the inductive invariant below |
| `ReservationsBalance` | available is ledger less active holds |
| `NeverOverdrawn` | no customer account is overdrawn, no reserved money is spent |
| `CapturesAreCovered` | an active hold can always be paid |
| `ProjectionNeverDrifts` | the projection equals opening balance plus postings |
| `CoreKeepsItsPromise` | `Ledger` implements `AbstractLedger` |
| `MoneyIsConserved` | a step moves money between two accounts and journals it, or moves none |
| `VersionsNameBalances` | a version advances by one exactly when the balance changes |

The argument. `NoOverdraft` alone is not inductive: a capture debits more than
`available` shows, and is safe only because the hold it captures is part of what
`available` leaves out. The inductive invariant is the conjunction of `TypeOK`,
`available = ledger - Reserved` and `available >= 0`. Then a debit guarded by
`available` keeps it non-negative; releasing, expiring or capturing hold `h`
removes exactly its amount from `Reserved`; and the amount of one active hold is
at most `Reserved`, so a capture is covered. Every action changes the projection
through `MoveMoney` or `ShiftAvailable`. `StepEffect` sorts the actions into
five effects (quiet, a move, a new hold, a returned hold, a captured hold), and
each theorem is then proved once for each effect. `SumProofs` supplies what sums need:
a sum changes by what one term changes, and appending adds one term. The
facts about sums are proved from the least counterexample: a set of natural
numbers that is not empty has a least member, at which the recursive definition
of the sum is unfolded once.

Only model-checked: liveness (`DueHoldsSettle`), the exactness of velocity
totals and the rolling limits, faithful answers, events, corrections, funding
and the lifecycle, and everything about `Outbox` and `Projection`. Liveness is out of the prover's reach; the others are
candidates for the plan below.

## What is not modelled

`PROJECT.json` lists every part with its status. Not modelled: HTTP transport,
identity, telemetry, configuration, the web front end (no financial state);
read models and exports (pure reads); cryptographic signatures and outbound
HTTP (I/O); 64-bit overflow of amounts, which PostgreSQL reports as an error
and thereby rolls back; retention, which deletes only published outbox rows
that nothing refers to and rate-limit windows (final idempotency outcomes are
never deleted, so the model remembers keys for ever). Of publication, the burial
of malformed events is left out, as the commands write none, and so is an XADD
that Redis executes only after its connection gave up and the client or the
worker moved on: a copy of the event that the bound of `DuplicatesAreEvidenced`
has already counted. What the client sends again of the other Redis commands
needs no action of its own: a repeated cache write or XACK changes nothing, and
entries whose XREADGROUP or XAUTOCLAIM was answered in vain stay pending as after
`Drop`.

## Plan

1. `Webhooks`: delivery and verification jobs behind published events, and the
   replay of dead deliveries.
2. `Scheduler`: leader lease and scheduled reconciliation.
3. `LogicalClocks`: Lamport stamps of nodes and messages.
4. `OpeningImport`: request, approval and execution, ending in `BalancesInit`.
5. `StatementMatching`: the matcher of imported statements as a pure algorithm.
6. Theorems: the fencing invariants of `Outbox` (`PublishedWasSent`,
   `TrialsTellTheStory`) and `AcknowledgedIsVisible`; then
   `VelocityTotalsAreExact`, `EventsDescribeBalances`, `CorrectionsReverseOnce`
   and `ClearingMirrorsFunding`.

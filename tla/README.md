# Verification of wagerflow-go

TLA+ specifications of the wallet and wagering service in `src/`, the TLC
configurations that model-check them on small instances, and theorems about
them checked by TLAPS for every value of the constants.

Paths below are relative to the repository root unless they are modules of this
directory.

## 1. The system

Four binaries share one PostgreSQL database (READ COMMITTED throughout) and two
SQS FIFO queues:

| binary | what it runs |
|---|---|
| `src/cmd/api` | the HTTP API: wagering operations, wallets, ledger, reconciliation |
| `src/cmd/wager-consumer` | the same operations, arriving as SQS messages |
| `src/cmd/pending-reference-worker` | reapplies operations whose reference had not arrived |
| `src/cmd/outbox-publisher` | sends committed events to SQS |

Several instances of each may run at once. They never talk to each other: they
meet in the rows of the database, and in the queues.

### Components, their state and their operations

| component | state | operations | what makes it correct |
|---|---|---|---|
| wager processing (`process_wager_transaction.go`, `wager_applier.go`) | `wager_transactions`, `wallets`, `wallet_ledger_entries`, `outbox_events`; row locks | look up by key and external id, create, apply (loss, movement, reference), commit; reread after a lost race | one operation per key and per external id; the ledger is the history of the balance; a reversal once; a settled result stands |
| domain rules (`src/internal/domain`) | none | constructors, payload hash, reference rules, transitions | kinds, amounts and references fit together |
| pending-reference worker (`retry_pending_reference.go`, `pending_reference_repository_postgres.go`) | the columns `reference_*` and `locked_*` | claim a batch under a lease, reapply one, give up, reschedule, release | every waiting operation is settled, once, although workers fail |
| SQS consumer use case (`consume_wager_transaction.go`) | `inbox_messages` | insert into the inbox, process, acknowledge | a message recorded as seen has had its effect |
| SQS consumer loop (`sqs_wager_consumer.go`) | the queue: visibility, receive count, message groups, DLQ | receive, handle, acknowledge, dead-letter, stop | no message is lost; a permanent error does not block its group |
| outbox publisher (`publish_outbox_events.go`, `outbox_publisher_repository_postgres.go`, `sqs_event_publisher.go`) | the columns `locked_*`, `next_attempt_at`, `published_at` | claim, publish, mark, stop, exit | at-least-once delivery; events of one aggregate in order |
| wallet opening (`open_wallet.go`, `wallet_handler.go`) | `wallets`, its opening entry and event | open, answer | one wallet per player and currency; what a caller is told is so |
| money (`money.go`) | none | parse, format, add, subtract, negate | no silent overflow |
| reconciliation (`reconciliation.go`) | none (two reads) | compare balance and ledger | a divergence reported is a real one |
| ledger pages (`wallet_ledger_entry_repository_postgres.go`) | a cursor, in the client's hands | list | no entry twice, none left out (the second does not hold: section 5) |
| HTTP interface, authentication, configuration, bootstrap, observability | none | translate, validate, log | — |
| schema (`src/migrations`) | unique indexes, checks, triggers | — | backstops for all of the above |

### How they interact

* **Deliveries.** An HTTP call and a reception of a message run the same
  transaction; the message adds an inbox row to it. Two deliveries of one
  operation meet at the unique indexes on `(provider, idempotency_key)` and
  `(provider, external_transaction_id)`: the second INSERT waits for the first
  transaction to end, then fails, rolls back and rereads the winner.
* **References.** A WIN with a reference, a REFUND and a ROLLBACK lock the row
  they refer to (`FOR UPDATE`). If it is missing or itself waits, the operation
  is committed as `PENDING_REFERENCE`, and a worker reapplies it later.
* **Money.** One conditional `UPDATE wallets` moves money, increments the
  version and locks the wallet until the commit; the ledger entry and the
  outbox events are in the same transaction.
* **Leases.** Workers and publishers claim rows with `FOR UPDATE SKIP LOCKED` and
  stamp `locked_by` and `locked_at`; a lease older than the lock timeout can be
  taken over, whether its holder is dead or merely slow.

### What is hard

Interleavings of READ COMMITTED statements between transactions; references in
any order, in chains and circles; leases that outlive or are outlived by their
holders; processes that stop between two steps; answers that are lost after the
effect; deadlocks between row locks; events overtaking one another; arithmetic at
its limits. Every such hazard is listed in `PROJECT.json` at its line with the
properties that watch it.

## 2. Modules

| module | what it is |
|---|---|
| `WagerRules` | kinds, statuses, request validity, payload hash, reference rules, directions: pure operators |
| `WagerService` | deliveries and pending-reference workers over the database, statement by statement |
| `WagerInvariants` | what the processing promises |
| `WagerBook` | the abstract specification: a clerk with a book, one operation at a time |
| `MCWagerService` | the scenarios for TLC: one table of requests each |
| `WagerServiceProofs` | the inductive invariant of `WagerService`, the theorems on types, ledger, identities and races |
| `WagerMoneyProofs` | what a transaction may count on until it commits, the theorems on money |
| `WagerLeaseProofs` | the theorems that need leases to outlive their holders' work, the implementation of `WagerBook` |
| `OutboxPublisher` | publishers over the outbox and a FIFO queue with a deduplication window |
| `OutboxInvariants` | what publishing promises |
| `EventDelivery` | the abstract specification: at-least-once delivery, `Spec` for safety, `LiveSpec` with liveness |
| `MCOutboxPublisher` | the scenarios for TLC |
| `OutboxProofs` | the inductive invariants of `OutboxPublisher`, its theorems, the implementation of `EventDelivery` |
| `WagerConsumer` | consumers over a FIFO queue with visibility, groups, redrive and a dead-letter queue |
| `ConsumerInvariants` | what consuming promises |
| `MCWagerConsumer` | the scenario for TLC |
| `ConsumerProofs` | the inductive invariant of `WagerConsumer` and its theorems |
| `Money` | amounts in a machine integer of any width: parsing, sums, differences, formatting; pure operators |
| `MoneyProofs` | that the operations are exact or say that they are not |
| `WalletOpening` | concurrent calls that open a wallet |
| `WalletDesk` | wallets opened by `WalletOpening`, movements of their money, reconciliations and readers of the ledger |
| `WalletInvariants` | what opening, moving and reading promise |
| `AccountBook` | the abstract specification: accounts in plain numbers |
| `MCWalletDesk` | the scenarios for TLC |
| `WalletProofs` | the inductive invariant of `WalletDesk`, its theorems, the implementation of `AccountBook` |
| `PagesProofs` | the theorems about the pages |

`WagerService` and `OutboxPublisher` meet in `outbox_events`: the first appends to
it at commit (`wagerEvents`, `walletEvents`, whose order and content its
properties speak of), the second takes any committed event, in the order of
`occurred_at`, and delivers it (`AppendEvent` onwards). They share no other
state, so they are checked apart. `WagerService` and `WagerConsumer` meet in the
call of the use case: for the first each reception of a message is a delivery that
may come at any time, any number of times and concurrently with another reception
of the same message; for the second that delivery is one step, `Execute`, which
is sound because the first shows that repeating it has no effect
(`UniqueOperations`, `SeenMeansRecorded`).

`WagerService` and `WalletDesk` share `wallets` and `wallet_ledger_entries` and look at
them from two sides. The first starts with open wallets and amounts that never leave
their range and takes the transaction of a movement apart; the second has wallets that
are not open yet and integers that wrap around, and takes a movement for one step. It
may: the `UPDATE` is the transaction's first write to the wallet, and keeps its row until
the commit (`walletLock` in `WagerService`, `MoneyInFlight` in its proofs), so no one
else moves the money of that wallet in between, and readers see either all of a
transaction or nothing.

### WagerService: state and steps

| variable | code |
|---|---|
| `wallets` | `wallets.balance`, `wallets.version` |
| `wagers` | the row each delivery inserted: status, failure code, reference id, resulting balance. A row is named by the delivery that inserted it |
| `ledger` | `wallet_ledger_entries`, per wallet, in commit order |
| `wagerEvents`, `walletEvents` | `outbox_events` by aggregate; of balance events the announced version |
| `inbox` | `inbox_messages` |
| `schedule` | `reference_attempts`, `reference_next_retry_at` (`due`), `reference_expires_at` (`overdue`), `locked_by`, `locked_at` (`expired`) |
| `rowLock`, `walletLock` | row locks of open transactions |
| `pc`, `draft`, `replaying` | where a process is, the entity it holds in memory, whether it rereads after a lost race |
| `answer` | what a delivery was told, replayed row included |
| `batch`, `claim` | what a worker claimed and what it is processing, with the attempts as `Claim` read them |
| `failures` | how many failures and restarts of workers have happened (a bound of the model) |

Each statement that reads shared rows or waits for a lock is one action:
`TryInsertInbox`, `FindByKey`, `FindByExternal`, `RefuseWallet`, `Create`,
`LoseRace`, `ApplyLoss`, `ReferenceMissing`, `LockReference`, `DebitRefused`,
`MoveMoney`, and `FinishDelivery`/`FinishRetry` for the row update, the outbox
rows and the commit. What a transaction writes before it commits is kept in the
process (`draft`, the locks it holds, `pc`) and becomes visible in one step: that
is what READ COMMITTED shows others. Waiting for a lock or for a rival's
uncommitted unique key is a disabled action. Workers add `ClaimBatch`,
`TakeSettled`, `TakeToGiveUp`, `TakeToReapply`, `Acknowledge`; failures are
`FailDelivery`, `FailRetry`, `RestartWorker`, `ConstraintViolation` and
`DeadlockVictim`, the last one guarded by an actual cycle of waiting
transactions. Time is three environment actions: `BackoffElapses`,
`TTLElapses`, `LeaseExpires`.

Abstractions: provider is part of a key and of an external id; player and
currency are functions of the wallet (a request that disagrees about them has
`wallet = None` and is refused); amounts are natural numbers (`WalletDesk` has the
integers); a game round is a name; error texts, ids and payloads are left out.

### OutboxPublisher: state and steps

| variable | code |
|---|---|
| `outbox` | `outbox_events`, per aggregate, in commit order |
| `row` | `published_at` (`published`), `next_attempt_at` (`due`), `locked_by`, `locked_at` (`expired`) |
| `pc`, `batch`, `stopping` | where `RunOnce` is, what is left of its batch, whether SIGTERM has cancelled its context |
| `queue`, `window` | the FIFO queue by message group, and the deduplication ids it remembers (external) |
| `failures` | a bound of the model |

`Claim` is the short transaction of the repository; `ClaimUnanswered` is one that
commits while its answer is lost. `Publish`, `PublishFails` (sent or not) and
`PublishCancelled` are the outcomes of the call; `MarkPublished`, `MarkFailed`
and `MarkFails` those of the update; `Stop`, `Exit`, `Crash` and `Start` are the
process; `BackoffElapses`, `LeaseExpires`, `LeaseExpiresEarly` and `WindowCloses`
are time. The clock of `occurred_at` is taken to be the same for all processes, and
an event is stamped while its aggregate's row is locked, so the events of one
aggregate are stamped in commit order (`AppendEvent`); a skew between hosts could
only make ordering worse. The deduplication window may close at any time. The
number of attempts and the length of the backoff do not matter to any property
and are left out.

### WagerConsumer: state and steps

| variable | code |
|---|---|
| `sent`, `gone`, `receives`, `hiddenBy`, `dlq` | the two queues (external): the messages of each group in order, those deleted or moved, the receive count, whose receipt hides a message, the dead-letter queue |
| `processed` | the messages whose operation is committed |
| `pc`, `batch`, `stopping` | where `Run` and `handle` are, what is left of the batch, whether SIGTERM has cancelled the context |
| `troubled` | messages left in the queue after a handling: history, for `OvertakenOnlyAfterFailure` |
| `failures` | a bound of the model |

`Receive` takes a prefix of what any group offers whose messages are all visible.
`Execute`, `ExecuteRefuses` (`IsPermanentWagerError`) and `ExecuteFails` are the
outcomes of the use case; which of them a message can have is its `Verdict`, as
the parser and the domain would decide. `DeadLetter` and `Delete` are the two
calls, each with a variant that fails with or without its effect; a delete with
the receipt of a message that has reappeared has no effect. `Redrive` follows the
policy `NewSQSWagerConsumer` sets. Nothing relates the producers' order to the
order of references: a later operation that overtakes is one of
`WagerService`'s interleavings.

### Money, WalletOpening and WalletDesk: state and steps

| variable | code |
|---|---|
| `wallet` | the committed row of `wallets`: player, balance with its currency, version. A wallet is named by the call that opened it |
| `ledger` | `wallet_ledger_entries` of each wallet in commit order, with `created_at` and `id` as one number, `stamp` |
| `announced` | the versions of its `WalletBalanceChanged` events |
| `opening`, `reply` | where each `POST /wallets` is, and what it was told |
| `settled` | the operations that are recorded, processed or rejected |
| `audit` | what a reconciliation has read: first the wallet, then the sum |
| `reading` | the pages and cursors a client was given |
| `failures` | a bound of the model |

`Refuse` is the handler and `NewWallet`; `Create` the `INSERT` of the wallet, disabled while
a rival of the same player and currency has inserted and not committed, a conflict if
the rival has committed; `CommitOpening` the opening entry, the events and the commit,
`LoseAnswer` the same with the answer lost, `FailOpening` any failure before. `mapError`
is the table of status codes. `Move` is the transaction that moves money, with every
check on its way: the amount, the condition of the `UPDATE`, the range of the column,
the balance before as `wager_applier.go` reconstructs it and the comparison in
`NewWalletLedgerEntry`; one that fails rolls the transaction back and is no step. `Reject`
records a debit the balance does not cover. `ReadWallet` and `SumLedger` are the two
statements of a reconciliation, each with its own snapshot, since `TxManager` begins
transactions with the default isolation. `FirstPage` and `NextPage` are `ListByWallet`.

`Money` has the largest integer and the cents in a unit as parameters, so that TLC can
reach the limits: with 127 and 10, as with 2^63 - 1 and 100, the cents of the largest whole
part pass the check and wrap around when there are more than seven of them. What a text
looks like is one flag (`wellFormed`) and the number it writes. `created_at` is the clock
of the process that makes the entry: each entry is stamped with a lag from `Lags`, and
several processes' clocks need not agree.

## 3. What TLC checks

| run | scenario | shows |
|---|---|---|
| `idempotency` | one BET over HTTP, as a message and as that message again; its key reused for a wallet that does not exist; its external id reused by a LOSS; fairness | `UniqueOperations`, `TwinNeverConflicts`, `LoserFindsWinner`, `SeenMeansRecorded`, `EveryDeliveryEnds` |
| `reversal` | a BET, a REFUND and a ROLLBACK of it, two workers, one failure or restart | `ReversedAtMostOnce`, `BackstopNeverFires`, `EventsTellStatus`, `TerminalIsFinal`, `ImplementsBook` |
| `chain` | a ROLLBACK of a WIN that refers to a BET, and another BET, a balance that cannot cover everything | `TypeOK`, `LedgerIsHistory`, `VersionsAnnounced`, `ReversalMirrorsReference`, `ImplementsBook` |
| `settling` | two ROLLBACKs that refer to each other, two workers, one failure or restart, fairness | `PendingIsSettled`, `DeadlockOnlyBetweenWaitingRows` |
| `slow_workers` | a BET and its REFUND, leases that run out under workers still at work | `AtMostOneEntry` holds even then |
| `outbox` | two publishers, two events of one wallet, batches of two, two failures, fairness | `PublishedMeansSent`, `DuplicatesAreExplained`, `OvertakenOnlyByRival`, `HolderDecides`, `PublishedIsFinal`, `DeliversAtLeastOnce`, `TypeOK` |
| `consumer` | two consumers, three messages of one group: good, refused, failing every time; batches of two, two receptions, two failures, fairness | `NothingIsLost`, `DeadOnlyIfExhausted`, `OvertakenOnlyAfterFailure`, `EveryMessageEnds`, `TypeOK` |
| `wallets` | three calls race to open one player's wallet, in two spellings of the currency, with nothing, with the largest balance but one and with a text that wraps around; one failure or lost answer; four movements that reach the limit, wrap around or take everything; a reconciliation, a client of the pages, a late clock, fairness | `OneWalletPerHolder`, `RepliesAreTrue`, `BalanceIsExact`, `BookIsChained`, `DifferenceIsExplained`, `PagesInOrder`, `MissedIsExplained`, `ImplementsAccounts`, `EveryOpeningEnds`, `TypeOK` |
| `reversed_twice` | as `reversal`, with leases that run out under workers still at work | violated: `ReversedAtMostOnce` |
| `outbox_unordered` | two publishers, no failure | violated: `SentInOrder` |
| `ledger_pages` | one wallet, three movements, clocks that agree, one client | violated: `PagesMissNothing` |
| `reconciliation` | the same | violated: `ReconciliationSeesOneMoment` |

Every property of a passing run is broken by a mutation of the model that a
plausible bug of the code would be; the mutations stand beside the definitions
they replace and are listed in `PROJECT.json`.

### Bounds, and why they are enough

* **Deliveries: two to five, one per role.** The properties relate at most two
  operations of one identity, or two reversals and their reference; each role is
  one delivery, and the idempotency run adds a redelivery and both kinds of
  intruder. Wallets do not interact, so there is one.
* **Workers: two**, the number that can compete for a row or deadlock. `BatchSize`
  is two where a row has to wait in a batch while another is processed.
* **`MaxAttempts` is one or two**: one attempt that reschedules, one that gives up.
* **`MaxFailures` is one** for workers (a failure and a restart each leave a lease
  behind, and the takeover is what matters) and two for publishers, so that a
  copy may fail, be sent again and fail again, and for consumers, as many as
  `MaxReceiveCount`, so that failures alone can exhaust a message. Failures of deliveries are
  unlimited: each may fail at any step.
* **Opening balance 1 to 3**: too little for the bet, enough for one bet, never for all debits.
* **Integers of eight bits and ten cents in a unit** in `wallets`: 12.7 is the largest
  amount, 12.8 and 12.9 wrap around. Nothing depends on the width but where the limits
  are (the theorems hold for every width).
* **Three openers**: the winner, one that waits for it and one that comes after both or
  finds the winner rolled back. Their amounts are the three kinds there are.
* **Pages of one entry**: every entry is a page, a look-ahead row or neither, and three
  entries suffice for one to be skipped and a later one to be given.
* **A lag of 0 or 3** where entries are 2 apart: late enough to go before one that is
  committed, and never equal to another.
* **One wallet failure**, of an opening: before its commit or after it.

Deadlock checking is on in every run: `Quiescent` is enabled only when every
delivery has its answer and nothing waits, and publishers never run out of
polls.

### Fairness

`WagerService!Fairness` is weak fairness of each delivery's statements, of each
worker's poll and steps, and of the clock (backoffs and leases run out).
PostgreSQL runs what a live client sends, its deadlock detector is one of a
worker's steps, the worker's loop polls until it is stopped
(`src/internal/application/retry_pending_reference.go`) and the compose file
restarts a stopped process (`restart: unless-stopped`). No delivery has to fail, and the
time-to-live need not run out: a waiting row is settled through its attempts.
`OutboxPublisher!Fairness` is the same for publishers: one that is up polls and
works through its batch, one that is down is started again, backoffs and leases
run out. `WagerConsumer!Fairness` is that of consumers, with timeouts that run out and
a redrive policy that is followed. `WalletDesk` asks only that the database goes on with some
opening that can go on (`Serve`): a call that waits is not served until its rival is done.
Failures are finite, and that is the only thing liveness asks of the
queue: an SQS that fails for ever delivers nothing. Committing an event is
not fair.

## 4. What TLAPS proves

One section per component. In each there is one lemma per group of actions, one step per
action or group in the lemma that `Next` keeps the invariant, and a temporal theorem that
combines them.

### WagerService

The theorems hold for any number of wallets, deliveries, messages and workers, any
requests, amounts, batch size, attempts and failure bound. The first ones hold whether or
not leases run out under workers at work:

| theorem | statement |
|---|---|
| `TypeCorrect` | `Spec => []TypeOK`: among other things no balance is ever negative |
| `LedgerCorrect` | `Spec => []LedgerIsHistory`: the ledger is the history of the balance |
| `UniqueCorrect` | `Spec => []UniqueOperations`: one operation per key and per external id |
| `LoserCorrect` | `Spec => []LoserFindsWinner`: the reread after a lost race finds the winner |
| `SeenCorrect` | `Spec => []SeenMeansRecorded`: a message in the inbox has had its effect |
| `TwinCorrect` | `Spec => []TwinNeverConflicts`: repeating a recorded request is never a conflict |
| `VersionsCorrect` | `Spec => []VersionsAnnounced`: versions are announced once each, in order |
| `OneEntryCorrect` | `Spec => []AtMostOneEntry`: an operation moves money once |
| `BackstopCorrect` | `Spec => []BackstopNeverFires`: a second reversal is stopped by the row lock, not by the index |
| `MirrorCorrect` | `Spec => []ReversalMirrorsReference`: a reversal moves the reference's amount the other way |
| `PaidCorrect` | `Spec => []ProcessedIsPaid`: what is PROCESSED is in the ledger |

The second table assumes `~SlowWorkers`, that no worker is still at work on a row when its
lease runs out. `Claim` reads a lock older than the timeout as abandoned
(`pending_reference_repository_postgres.go:34`), which is the same assumption: the timeout
is two minutes by default and the work a batch of short transactions. Nothing enforces it,
so the runs `slow_workers` and `reversed_twice` lift it; the first table is what is left
then, and finding 1 what is lost.

| theorem | statement under `~SlowWorkers` |
|---|---|
| `TerminalCorrect` | `Spec => TerminalIsFinal`: a settled row is never rewritten |
| `EventsCorrect` | `Spec => []EventsTellStatus`: the outbox tells each operation's story, once |
| `ReversedOnceCorrect` | `Spec => []ReversedAtMostOnce`: the money goes back once at the most |
| `LedgerTellsCorrect` | `Spec => []PaidMeansProcessed`: an operation is in the ledger exactly if it is PROCESSED |
| `DeadlockCorrect` | `Spec => []DeadlockOnlyBetweenWaitingRows`: only waiting rows deadlock |
| `BookImplemented` | `Spec => ImplementsBook`: the service implements `WagerBook` |

The assumptions on constants are those `WagerService` states: `RequestAssumption`
(deliveries carry valid requests), `MessageAssumption` (receptions of one message carry
the same request), `SizeAssumption`, `NameAssumption` and `AbsentAssumption` (the absent
value is none of the others). TLC evaluates them in every run.

None of the statements is inductive by itself. There are four invariants: `IInv`,
`RaceInv` and `MoneyInv` on top of it, and `LeaseInv` on top of both `IInv` and
`MoneyInv`. TLC has checked each of them on the instances of the runs.

`IInv` is the conjunction of

* `TypeOK`;
* `ProcessesOK`: what a process holds in memory where it stands, for instance that a
  worker past `Take` has a claim on a row that exists and a draft of it, and that
  a process about to commit has a draft of a settled or waiting row;
* `PresentAreUnique`: uniqueness of identities among the committed rows AND the
  uncommitted ones of transactions between `Create` and their end, which is what
  the unique index really enforces; `UniqueOperations` is its committed part;
* `MoneyInFlight`: a process that holds a wallet's lock stands at its commit, and its
  draft's result is the balance the lock protects plus or minus its amount. It
  says that what `Commit` writes still fits the balance it finds, which is what
  the `LedgerIsHistory` step needs;
* `LedgerIsHistory`.

`RaceInv` says of each delivery what its own reads have told it, as far as that is stable.
A row never disappears, so a delivery that has seen a winner's row will find it again: one
that rereads (`replaying`) has a recorded row of its key or of its external id, and if it
has passed the first lookup then of its external id (`LooksForARow`). Every answer it has
given was about such a row (`ToldTheTruth`), and every message in the inbox has one with
its content. `TwinNeverConflicts` then follows with `UniqueOperations`: the row a twin was
compared with is the row of the delivery that was told `created`, whose content is its
own.

`MoneyInv` is about transactions between their locks and their commit. Its heart is
`ReferenceHeld`: from `LockReference` until its end a transaction that is going to apply
holds its reference's row, and what it has read under that lock still stands: the
reference is PROCESSED, the rules allow it, and no other operation is a PROCESSED reversal
of it. It stays so because whoever could change it would have to commit a row under the
same lock (`RowLocksOK`). A settled row of the reference can be rewritten only by a slow
worker, and it would have to lock the row first. `WalletLocksOK` says that a wallet is
locked only by who moves money in it for the first time, `StepsOK` what each step may
count on, and `BooksOK` ties the committed tables together: a PROCESSED operation is paid,
its reversal mirrors an earlier entry, every entry has one operation, and no two reversals
of one reference are PROCESSED at a time.

`LeaseInv` adds what the lease alone can give: what a worker has in its batch or at hand
is under its own valid lease, and waits until the worker itself settles it (`BatchOK`,
`ClaimOK`); so a worker's commit finds the row as it was claimed. From this follow
`TerminalIsFinal`, that entries belong to PROCESSED operations for ever
(`EntriesSettled`), and `EventsTellStatus`.

`DeadlockCorrect` is an argument about circles, in which every transaction holds something
that another member waits for. One that waits for a rival's key in the inbox holds nothing
yet, and one that waits for a key of the operations holds its inbox key only, which nobody
in a circle then waits for; so nobody in a circle waits for a key, and one that waits for
its reference, which holds keys only, is in none either (`CircleHoldsLocks`). What is left
waits at the `UPDATE` of the wallet or at that of its own row at the end. A transaction at
the former holds a reference that is PROCESSED, and who waits for a row at the end is a
worker whose row still waits. So all members are at the end, and each has the waiting row
of another locked as its reference; having found that its reference waits it has decided
to wait as well (`HeldByAWaiter`): it is a worker, and it has moved no money.

`BookImplemented` maps an uncommitted or absent row to `UNKNOWN`. Only `Commit` changes
`wagers` or `wallets` (`OnlyCommitsWrite`); a delivery's commit is a `Record` of the clerk
(`Fresh` by `PresentAreUnique`), a worker's a `Settle` or, when it reschedules, a stutter.
That the clerk may process the operation at that moment, with that reference, balance and
direction, is `ReferenceHeld` and `MoneyInFlight` again.

### OutboxPublisher

`OutboxProofs` proves, for any events of any aggregates, any
instants, publishers, batch size and failure bound:

| theorem | statement |
|---|---|
| `TypeCorrect` | `Spec => []TypeOK`: among other things a publisher has a batch exactly while it works through one |
| `PublishedCorrect` | `Spec => []PublishedMeansSent`: what is marked published the queue has taken |
| `FinalCorrect` | `Spec => PublishedIsFinal`: a published row is not touched again |
| `HolderCorrect` | `Spec => HolderDecides`: a valid lease is lost by a step of its holder only |
| `DeliveryImplemented` | `Spec => Delivery!Spec`: the outbox implements the safety part of `EventDelivery` |
| `DuplicatesCorrect` | `Spec => []DuplicatesAreExplained`: at most one copy more than failures |
| `RivalCorrect` | `Spec => OvertakenOnlyByRival`: until something fails, only rivals overtake |

They rest on `OutboxAssumption` (finitely many events and publishers, a batch size of at
least one, identities that differ). The first five follow from an invariant that adds to
`TypeOK` and `PublishedMeansSent`

* `BatchesOK`: a publisher has only committed events at hand, and the one it is about to
  mark published is in the queue, whoever holds the row by then;
* `PublishedAreReleased`: a published row has no holder. With `locked_by = $2` in every
  mark it makes published rows final;
* `WindowSent`: the queue remembers only what it took, so a send it drops as a duplicate
  is as good as one it takes.

`NextMoves` says what any step may do to a row, and both action properties and the
refinement are read off it. `EventDelivery` has two variables, the state of each event
and the number of its copies; a send the queue takes is `Deliver`, a `MarkPublished` that
still holds its row is `Confirm`, and every other step but an append stutters.

`DuplicatesAreExplained` needs a potential. `Explained(e)` adds to the copies of `e` the
publishers that may yet send it, or leave it to be sent again, without a further failure
(`ToSend`) and the row itself while it waits for a claim nobody is working on (`Open`),
and bounds the SUM by one more than the failures. A claim exchanges the row for a
publisher (`OpenPays`), a send exchanges the publisher for a copy, a mark of a failed call
the publisher for the row (`PublisherPays`), and whatever adds to the sum, a lost answer, a
stop between send and mark, a crash, a lease that runs out under its holder, is itself
a failure (`FailurePays`). It holds only because no batch has an event twice
(`BatchesDistinct`).

`OvertakenOnlyByRival` rests on `OInv`, which relates batches to the order of the outbox: until
something fails, whatever was stamped before an event of a batch is sent, at hand in another
publisher or further ahead in the batch (`InTurn`). A claim establishes it, since it takes the
earliest rows it may and a row it may not take is published or under a lease, and while
nothing fails a lease lasts exactly as long as its holder is at work on the row (`Calm`). A later
commit cannot break it, since an aggregate's events are stamped in commit order
(`AppendedInTurn`). `IInv`, `DInv` and `OInv` hold in the instance of run `outbox` too.

### WagerConsumer

`ConsumerProofs` proves, for any consumers, messages, groups and verdicts, batch size,
redrive policy and failure bound:

| theorem | statement |
|---|---|
| `TypeCorrect` | `Spec => []TypeOK`: among other things no message is received more often than the redrive policy allows |
| `NothingLostCorrect` | `Spec => []NothingIsLost`: what left the queue is processed or dead-lettered |
| `DeadCorrect` | `Spec => []DeadOnlyIfExhausted`: a message that can be processed is dead-lettered only by failures |
| `OrderCorrect` | `Spec => []OvertakenOnlyAfterFailure`: a group keeps its order but for messages left in the queue |

from `ConsumerAssumption`. The invariant adds

* `HandsOK`: a consumer deletes only what has an outcome, and dead-letters only what can
  never be processed. `NothingIsLost` is then read off the two steps by which a message
  leaves;
* `AheadOK`: what precedes a message at hand has an outcome, was left in the queue or
  comes before it in the batch. A reception establishes it, since it returns the first
  messages of a group, and every step by which a consumer goes on keeps it; at the head of
  a batch it is `OvertakenOnlyAfterFailure`;
* `ReceptionsPaid`: a message was received at most once more often than something failed,
  and the one reception more is that of a consumer which has the message, its valid
  receipt and no order to stop. Losing any of the three is itself a failure, so a message
  received as often as the redrive policy allows and visible again has had that many.

`NextIs` groups the steps into six shapes, and there is one lemma per shape and conjunct.

### Money and WalletDesk

`MoneyProofs` proves, for any width and scale, that `Add` and `Subtract` return the exact
result or `ErrAmountOverflow` (`AddIsExact`, `SubtractIsExact`) although they look at the
wrapped result only; that `Negate` is exact but for the least integer
(`NegateIsExactButOnce`); that a text is parsed exactly or, where the sum of whole part and
cents wraps around, as a negative amount (`ParsedIsExactOrNegative`), which every caller
refuses; and that the texts `NewWalletLedgerEntry` compares tell amounts apart
(`StringTellsAmounts`). They rest on `MoneyAssumption`.

`WalletProofs` and `PagesProofs` prove, for any calls, texts, movements,
clocks, auditors and clients:

| theorem | statement |
|---|---|
| `TypeCorrect` | `Spec => []TypeOK`: no balance leaves the range of the integer |
| `OneWalletCorrect` | `Spec => []OneWalletPerHolder` |
| `RepliesCorrect` | `Spec => []RepliesAreTrue` |
| `ChainCorrect` | `Spec => []BookIsChained`: entries, balance and versions fit together |
| `BalanceCorrect` | `Spec => []BalanceIsExact`: the balance is what the callers' texts add up to |
| `DifferenceCorrect` | `Spec => []DifferenceIsExplained`: a difference is what was committed between the two reads |
| `AccountsImplemented` | `Spec => ImplementsAccounts` |
| `PagesCorrect`, `MissedCorrect` | `Spec => []PagesInOrder`, `Spec => []MissedIsExplained` |

They rest on `MoneyAssumption`, `OpeningAssumption`, `RowAssumption`, `DeskAssumption` and
`ReadAssumption`. The invariant is `TypeOK` with

* `CallInv`: no two calls that have inserted or committed are about one holder (what the
  unique index enforces, uncommitted rows included), and each reply is so;
* `BookInv`: each wallet's entries, versions and balance form a chain, and each entry moves
  what its caller wrote;
* `AuditsOK`: what a reconciliation has read of the wallet is the chain up to the version it
  read.

A balance is a sum over its ledger, a recursive function over positions. Since induction over
data is out of reach, `TotalIs` shows that a running total of the same terms is the sum by
looking at the LEAST position at which the two differ: the least element of a set of
naturals exists because `<` is well founded. `PagesProofs` adds `ReadersOK`: pages hold
entries only, the last cursor is ahead of every page, pages are in order, and what is
missing is explained.

### What is only model-checked

Every invariant and every action property that a passing run checks is stated by a theorem
above. What is left is out of the prover's reach, being liveness under fairness: `PendingIsSettled`,
`EveryDeliveryEnds`, `EveryMessageEnds`, `EveryOpeningEnds` and the liveness part of
`DeliversAtLeastOnce`, whose safety part is `DeliveryImplemented`.

## 5. Findings

1. **A slow worker rewrites a settled operation** (`reversed_twice`). `processOne` reads
   its row without a lock and `Update` has no condition on the status. When a lease
   is older than the lock timeout while its holder is still at work, the holder
   overwrites the outcome of the worker that took over. A PROCESSED reversal that
   becomes REJECTED no longer counts as a reversal, and the next one pays the
   same money back again. The ledger stays consistent throughout
   (`LedgerCorrect` assumes nothing about leases), so reconciliation does not see it.
2. **Several publishers do not keep the order** (`outbox_unordered`): `Claim` may lease
   a later event of an aggregate while another publisher still holds an earlier
   one. The message group orders what arrives, not what is sent. As long as nothing fails
   that is the only way two events stamped in different milliseconds change places
   (`OvertakenOnlyByRival`). `NewOutboxEvent` truncates the instant to milliseconds
   (`outbox_event.go:287`) and `ORDER BY occurred_at` has no second key, so events of one
   aggregate that are stamped in the same millisecond may change places in one publisher's batch.
3. **The pages of a ledger leave entries out** (`ledger_pages`). `ListByWallet` reads one
   entry more than the page, cuts it off and makes the cursor from it; the next page asks
   for what is strictly after the cursor. The entry the cursor names is on no page. That is
   all that goes wrong when clocks agree (`MissedIsExplained`).
4. **A reconciliation reads two moments** (`reconciliation`). The comment at
   `reconciliation.go:13-17` has both reads in one snapshot, but the transaction is READ
   COMMITTED: a movement that commits between them is reported as a divergence. The difference
   is always that movement's (`DifferenceIsExplained`), so asking again clears it.

Met while modelling, and harmless or matters of wording:

* `consume_wager_transaction.go:107-111` says the loser of an insert race has its inbox row
  committed; it was rolled back. The redelivery is a replay all the same.
* `ARCHITECTURE.md:193-195` and `sqs_wager_consumer.go:109-114` have a stop finish the work
  at hand; the cancelled context is the one every call and mark uses, so the rest of the
  batch is abandoned. Leases and visibility run out and it is done later, some of it twice
  (`DuplicatesAreExplained`, `DeadOnlyIfExhausted`).
* `money.go:107-112` checks the whole part before the cents are added, and an amount within
  100 cents of the limit may wrap around. The result is negative (`ParsedIsExactOrNegative`)
  and refused as such by every caller (`BalanceIsExact`).
* `errors.go:91-97` says nothing was persisted after a 503; the commit of an opening may
  have gone through and only its answer been lost. A retry is then told 409, which is so
  (`RepliesAreTrue`).
* `mapError` does not list `ErrAmountOverflow`: a text that is too large is answered with 503,
  which `docs/PROJETO.md:152` reserves for temporary failures.

## 6. What is not modelled, and why

* Reads of wallets and operations (`get_wallet.go`, `get_wager_transaction.go`): one statement
  each, no state.
* The rest of the HTTP interface, authentication, logging, configuration, dependency
  injection: no state that other parts depend on; a request of the models is one that was
  let through. Of the handlers, what `POST /wallets` answers and the limit of a page are
  modelled with the calls themselves.
* The parsing of a message's body: its outcome is the message's `Verdict`.
* The length of a backoff (`ExponentialBackoff`): a backoff is over at some time, and no
  property depends on when.
* A cursor the service has not issued, and the cursor's encoding: a cursor is the key of the
  entry it was made from.
* Names, ids and currencies as strings: a member of a small set is all the properties
  distinguish; of a currency, its spelling and its code.
* `Negate`, `GreaterThanOrEqual` and `Wallet.Debit` and `Credit` (`src/internal/domain`) are called
  by tests and their fakes only: the service moves money with an `UPDATE`. `Negate` is modelled
  and proved about, since a caller would rely on it.

## 7. Plan

Done: `WagerRules`, `WagerService`, `WagerInvariants`, `WagerBook`; `OutboxPublisher`,
`OutboxInvariants`, `EventDelivery`; `WagerConsumer`, `ConsumerInvariants`; `Money`,
`WalletOpening`, `WalletDesk`, `WalletInvariants`, `AccountBook`; and the proofs about each.

The invariants and the action properties the passing runs check are proved, and so are the
refinements of `WagerBook`, `EventDelivery` (its safety part) and `AccountBook`.

Left, in order:

1. **One system out of two**: a module that composes `WagerService`'s outbox with
   `OutboxPublisher`, so that commit order and delivery are stated of one state, and the proof that
   each part implements its own specification in it.
2. **Slow workers**: the weaker forms of `ReversedAtMostOnce` and `TerminalIsFinal` that still hold
   without `~SlowWorkers`, as theorems.

# TLA+ verification of the wallet and wagering service

The service keeps the wallets of players. Providers send wagers (BET, WIN, LOSS,
REFUND, ROLLBACK) by HTTP or through an SQS FIFO queue; each moves money in one
wallet, is recorded in an append-only ledger, and is announced by events that
leave through a transactional outbox. Several instances of the application share
one PostgreSQL database and the queues; nothing is coordinated in memory.

Paths below are relative to the repository. `use-cases/` and `messaging/` stand
for `src/application/use-cases/` and `src/infrastructure/messaging/`.

## 1. The system

| Component | State it keeps | Operations | Talks to |
|---|---|---|---|
| Wagering rules (`src/domain/*`, `use-cases/reversal-reference.rules.ts`) | none | debit, credit, check of a reversal, direction of a reversal | called by the use cases |
| Wallet creation (`use-cases/create-wallet.use-case.ts`) | `wallets`, an OPENING transaction, its entry and events | `execute` | HTTP |
| Wager submission (`use-cases/submit-wager-transaction.use-case.ts`, `wager-transaction-outbox.ts`) | `idempotency_keys`, `wager_transactions`, `wallets`, `wallet_ledger_entries`, `outbox_messages` | `execute`, `executeInTransaction` | HTTP, the consumer |
| Reprocessing (`use-cases/reprocess-pending-reference.use-case.ts`) | the same tables | `execute` on one pending reversal | the worker |
| Consumer (`messaging/wager-transactions-consumer.service.ts`) | `inbox_messages`, FAILED rows | `consumeOnce`, `processMessage`, dead-lettering, shutdown | both input queues, submission |
| Pending reference worker (`messaging/pending-reference-worker.service.ts`) | `reference_attempts`, `next_reference_attempt_at` | `processDueOnce`, shutdown | reprocessing |
| Outbox publisher (`messaging/outbox-publisher.service.ts`) | `outbox_messages.status`, attempts | `publishPending`, shutdown | `wager-events.fifo` |
| Reconciliation and queries (`use-cases/reconcile-wallet.use-case.ts`, `query-*.ts`) | none | recompute a balance, page the ledger | HTTP |
| HTTP controllers, filter, DTOs | none | validation, status codes | use cases |
| Health, metrics, start-up | counters | probes | none |

What is hard:

- **Concurrency.** Every use case is one READ COMMITTED transaction. Two
  deliveries of a wager meet on the row of `idempotency_keys`, two wagers of a
  wallet on the `FOR UPDATE` lock of its row; but the row of a *reference* is read
  without a lock, by a reprocessing even before the wallet's lock.
- **Ordering.** A reversal may come before the transaction it reverses
  (PENDING_REFERENCE), and reversals can be reversed.
- **Failure.** A consumer can die between the commit and the acknowledgement, or
  between the terminal inbox row and the send to the dead-letter queue; a receipt
  can expire while a batch is handled (visibility timeout 1 s, batches of ten).
- **Boundaries.** Zero amounts, the range of NUMERIC(19,2), the last attempt of
  the worker.

What makes each component correct:

- database core: the balance follows from the ledger, the version counts the
  entries, a wager takes effect once, a reversal matches what it reverses and
  happens once per kind, events mirror the ledger, decided is decided;
- sessions: no lost update, they implement the atomic use cases, no deadlock, a
  caller is told what is stored;
- consumer: acknowledgement only after a trace, dead letters only after
  persistence, rows written once, every message leaves the queue;
- worker: a row is reprocessed by one instance at a time, nothing is rejected for
  a missing reference before its attempts are counted, every pending reversal is
  decided in the end, and all the worker does to the tables is what the use cases
  allow;
- publisher: no row is in two open transactions, nothing is PUBLISHED that the
  queue did not take, nothing is sent after it is PUBLISHED, every event is
  published in the end;
- readers: a difference a reconciliation reports is what committed between its
  two reads, a walk over the pages skips and repeats nothing.

The hazards at their lines, with the property that covers each or the reason why
none does, are in `PROJECT.json`.

## 2. The modules

```
WageringRules                    pure decisions
   ^
   |                 <--extends, implements--  DatabaseSessions
WageringTransactions <--extends, implements--  PendingReferenceWorker
                     <--extends--------------  LedgerReaders

EventRelay           <--implements-----------  OutboxPublisher

WagerConsumer
```

Each has an `MC` module with its small instances. The proofs are in modules of
their own:

```
WageringTransactionsProofs <-- EffectOnceProofs <-- EventsProofs <-- DatabaseSessionsProofs
                           <-- PendingReferenceWorkerProofs
                           <-- LedgerReadersProofs
OutboxPublisherProofs
WagerConsumerProofs
```

**WageringRules** has the decisions as operators: `MoveMoney` is `Wallet.credit`
and `Wallet.debit` with the range of the column, `ReversalFailure` is
`validateReversalReference` with its checks in order, `Decide` and
`DecideReversal` are the branches of `executeInTransaction`. A decision is a
status, a failure code and the type of the ledger entry; `ABORTED` stands for an
exception that rolls everything back. Amounts are integers (cents).

**WageringTransactions** is what the database promises: one action per use case,
each an atomic transaction.

| State | Code |
|---|---|
| `wallets[w]` | row of `wallets`, `None` before it exists |
| `txs[k]` | row of `wager_transactions` with idempotency key `k` (for an opening: the wallet) |
| `ledger[w]`, `outbox[w]` | entries and events of `w`, in commit order |
| `reading[k]` | what a reprocessing of `k` under way has read of its reference |

| Action | Code |
|---|---|
| `CreateWallet` | `CreateWalletUseCase.execute` |
| `Submit` | `SubmitWagerTransactionUseCase.executeInTransaction` that inserts a row |
| `FailTransaction` | `persistFailedTransaction` of the consumer |
| `BeginReprocess`, `FinishWithoutReference`, `FinishWithReference`, `AbortReprocess` | `ReprocessPendingReferenceUseCase.execute`: up to the read of the reference, its ends, a rollback |

A submission that finds its key answers with the stored row and changes nothing:
it is a stutter here and a step of the sessions. External data are abstracted to
what the rules compare: a wager is a record of model values; the payload hash is
equality of that record, the pair (provider, external id) is one value.

**DatabaseSessions** runs the same use cases statement by statement. `pc[s]` is
the next statement of session `s`, the locks it holds follow from `pc`:

| Statement | Code | Lock |
|---|---|---|
| `ClaimKey` | insert into and select for update of `idempotency_keys` | the key |
| `FindExisting` | look for the stored row: conflict or replay | |
| `LockWallet` | select of the wallet, `PESSIMISTIC_WRITE`; the row is copied to `loaded` | the wallet |
| `ReadReference` | select of the reference | none |
| `ReadPrevious` | select of an earlier reversal | none |
| `Flush`, `Commit` | the writes, computed from `loaded`; they become visible together | unique (provider, external id), key share of the reference's row |
| `LockRow`, `ReprocessFlush`, `ReprocessCommit` | the reprocessing, which locks its row first | the row |
| `Abort` | a crash or an SQL error at any statement | releases all |

The module extends `WageringTransactions`: the committed tables are its
variables, and so is `reading[k]`, which the session that reprocesses `k` sets
when it reads its reference and clears when it ends; a submission keeps what it
read in `seen`. `ImplementsTransactions` is therefore `Spec` itself, without a
mapping. `WageringTransactions` has at most `Workers` reprocessings under way at
a time; all reprocessing sessions may be under way together, so there are at most
`Workers` of them (`ReprocessingsAssumption`), and `Workers` is any number.

**WagerConsumer** is the consumer between the queue and the database. The
database transactions of a message are single steps (what happens inside them is
the sessions' business); of the tables it keeps the messages whose bodies the
PROCESSED inbox rows hold (`inbox`; the code looks a message up by its id alone,
`Processed`, and keeps the first body, `InboxWith`) and whether a key is DECIDED
or FAILED. `pc[c]` names the step of consumer `c` for the first message of
`batch[c]`. `refused` is a history variable: the messages the use case has
refused, of which the code keeps nothing but the inbox row. Queue actions (`Send`, `Expire`, `Redrive`,
`Deliverable`) are external: FIFO order within a message group, a group with a
message in flight is held back, at-least-once, `MaxReceives` deliveries. An old
receipt may or may not delete a message, a lost answer may or may not mean that
the request was served. `Receive` takes any set of deliverable messages in any
order that keeps the order of each group.

**PendingReferenceWorker** extends `WageringTransactions` with the instances of
the worker. A step of it is a step of the use cases, or leaves the tables alone.

| State | Code |
|---|---|
| `attempts[k]` | `reference_attempts`; the code only compares it with the maximum, so it is counted up to that |
| `due` | the rows whose `next_reference_attempt_at` has come, in that order |
| `batch[i]`, `busy[i]` | `claimed`, and whether its first row is being reprocessed |
| `running[i]` | `running` of the loop |

| Action | Code |
|---|---|
| `SubmitWager`, `OtherUseCases` | the use cases of other components; a submission that leaves its row pending makes it due, before or after rows already there |
| `Claim` | the statement of `processDueOnce`: SKIP LOCKED, the first rows that are due, their attempt, their backoff, rows returned in any order |
| `Begin`, `Finish`, `LeaveDecided` | one turn of the loop over the batch: `reprocess.execute` up to the read of the reference, its end, its early return for a decided row |
| `Interrupt` | an exception or a crash: rollback, and the rest of the batch is lost |
| `BackoffEnds`, `Shutdown`, `Restart` | time, the shutdown that completes the batch, the next start |

The claim is committed before the batch is reprocessed, so several instances may
hold claims of one row; the lock on the row itself (`reading[k]`) is what keeps
them apart.

**EventRelay** is what the outbox promises: an event that is stored is delivered
at least once, only while it is not settled, and is settled only after a
delivery. **OutboxPublisher** implements it with `settled` mapped to the rows that
are PUBLISHED. A poll is one database transaction around several sends:

| State | Code |
|---|---|
| `stored`, `published`, `waiting` | committed rows, those PUBLISHED, those with `next_attempt_at` in the future |
| `rows[p]`, `done[p]`, `putBack[p]` | the rows publisher `p` has locked: not handled yet, updated to PUBLISHED, given a backoff; not committed |
| `copies[e]` | external: how often the queue has taken the event |
| `datesAreParsed` | external and fixed: the driver returns `created_at` as a `Date`, or as a string |

| Action | Code |
|---|---|
| `Store` | a use case commits with its events |
| `Select` | the select for update with SKIP LOCKED, oldest first, and the metric of the lag |
| `Publish`, `SendFails` | a send and the update that follows it, or the catch; a send that fails may have been taken |
| `Commit`, `Rollback` | the end of `transactional`; a rollback undoes all updates and no send |
| `BackoffEnds`, `Shutdown`, `Restart` | as in the worker |

The send and its update are one step, because nobody sees an uncommitted update;
what can go wrong between them is `Rollback` in the state after it. Events are
numbers in the order of (created_at, id). What the driver
returns for `created_at` is a variable that no step changes, with both values in
`Init`: with strings `getTime` throws at `outbox-publisher.service.ts:74`, after
the select has locked its rows and before the first send, so that `Rollback` is
all that can follow `Select` (the limitation of `README.md:126` and
`ARCHITECTURE.md:258`; `app.module.ts` always provides the metrics).

**LedgerReaders** puts the readers beside the use cases: a reconciliation that
reads the wallet and then the entries in two statements, and a client that pages
through the entries with a cursor. `order[w]` is the order of (created_at, id)
both use; a new entry may come out before up to `Disorder` earlier ones, because
the instance that wrote it took the time from its own clock. A mismatch, which
the code throws as `LedgerBalanceMismatchError`, is the value `None`. The loop
over the entries is `RecomputedByLoop`; the actions use `Recomputed`, which says
the same without a fold so that it can be reasoned about, and the run evaluates
both on all small ledgers (`LoopRecomputes`).

## 3. The runs

| Run | Question | Bounds | Result |
|---|---|---|---|
| CompetingReversals | Do wallet, rows, ledger and events stay in step when reversals of one bet compete? | 1 wallet with 2 at stake, 5 wagers (bet, two refunds and a rollback of it, a rollback of the refund), 2 reprocessings at a time | holds |
| WagerContexts | Are wagers that miss their context kept out? | 2 wallets, 2 currencies, 9 wagers, `MaxBalance` 3 | holds |
| RacingSessions | Do sessions on one wallet implement the atomic use cases, without lost update and without deadlock? | 6 sessions: two bets of which one is covered, a refund, its rollback with a used external id, two workers that reprocess the refund, one of them for the last time | holds |
| CrossingSessions | The same across two wallets; are callers told what is stored? | 5 sessions: a bet twice, once failing, a refund, another wallet's rollback of it, the worker | holds |
| Redelivery | Does redelivery keep rows, acknowledgements and dead letters consistent, also with two holders of one message? | 2 consumers, 2 messages with one key, 3 deliveries, symmetric consumers | holds |
| Refusal | Does each message leave the queue, and not without a trace? | 1 consumer, a wager before its wallet and a message that cannot be parsed, in one group | holds |
| OvertakenReferences | Is every pending reversal decided, once, and not too early, with two instances of the worker? | 2 instances, one of which is also shut down and restarted, batches of 2, 2 attempts, a bet and its refund in any order, a rollback of what never comes, also failed by the consumer | holds |
| TwoPublishers | Is the outbox an at-least-once relay, and does it forget nothing if the driver returns dates? | 2 publishers, one of which is also shut down, 3 events of 2 use cases, batches of 2, 2 copies of each event, dates or strings | holds |
| ReadingWhileWritten | Do the readers tell the truth while the ledger grows? | 1 wallet, up to 4 entries, each may sort before two others, pages of 1 and 2 that may change during a walk | holds |
| ForeignCurrency | Is every processed wager in its wallet's currency? | as WagerContexts | violated |
| ZeroAmount | Does every entry move money? | as WagerContexts | violated |
| DeadLetterLoss | Is every message without a decision a dead letter? | 1 consumer, 1 message | violated |

Why the bounds are enough for these questions: an effect on a wallet depends on
the wallet, the wager, its reference and an earlier reversal of that, so five
wagers on one wallet give every chain of length three (bet, refund, rollback of
the refund) with two competitors for the same reference, and a balance of 2 with
amounts of 1 and 2 meets the boundaries "just covered", "not covered" and
(`MaxBalance`) "just too much". A conflict between sessions involves two
sessions and a reference: the two sets of sessions include every pair of two kinds
of session on a shared wallet, key, external id or reference, two reprocessings of
one row among them. The consumer's steps depend
on one message and one other holder of its key or inbox row.

The worker compares attempts with the maximum only, so 2 has all cases: before
the last claim, the last, and claims after it. Two instances and batches of two
out of two pending rows let one row be held by both, in different positions, one
of the claims being the last. For the publisher, three events and batches of two
leave a row outside a full batch, let the second publisher overtake the first,
and split the events of one use case; `MaxCopies` stops the count of copies, not
the sends (the queue may always drop a copy it knows). Four entries and pages of
one and two give walks of several pages, pages exactly full, a last page that is
shorter, and a growing ledger between any two of them. `LoopRecomputes` takes every
ledger, balanced or not, of up to two entries with amounts up to 2 and of three
with amounts up to 1. The proofs of section 5 remove the bounds from all safety
properties; the runs remain what finds a mistake in a model cheaply, and they
carry the liveness properties.

`CHECK_DEADLOCK FALSE` is in every configuration: the instances really stop when
all wagers are decided, all sessions are done, or all messages have left. That
sessions do not wait for each other for ever is the property `SessionsEnd`.

A reconciliation can report a difference for a correct wallet, and can fail with
`LedgerBalanceMismatchError` for a correct ledger when two instances' clocks
disagree: `ReportTellsTheLedger` says exactly when, its condition
`InCommitOrder` excludes the second case. It is not listed as a finding because
no document promises more.

### What the violations say

- **DeadLetterLoss.** The inbox row becomes PROCESSED in a transaction of its own
  and the message is sent to the dead-letter queue afterwards
  (`messaging/wager-transactions-consumer.service.ts:218-219` and `223-224`). If
  the process dies in between, the redelivery is a duplicate (line 187) and is
  acknowledged. `ARCHITECTURE.md:154-155` says such messages go to the queue.
- **ForeignCurrency.** Only `Wallet.credit` and `Wallet.debit` compare
  currencies; a LOSS calls neither. `README.md:334` states it for every operation.
- **ZeroAmount.** `Money.isPositive` is true for zero (`src/domain/money.ts:54`,
  decimal.js looks at the sign), so "Amount must be greater than zero" lets zero
  pass: the trace is a bet of zero. `README.md:335` and `ARCHITECTURE.md:128` say
  otherwise. By the same method a wallet of 0.00 gets an OPENING, against
  `README.md:575`; the run opens its wallets with 1 and does not exercise that.

## 4. Fairness

- `DatabaseSessions`: weak fairness of each session's statements. The database
  executes what it is sent and grants a lock that is free; a session may abort
  at any time, and starting is included only because a session that never starts
  is of no interest. Nothing is assumed about who gets a lock first.
- `WagerConsumer`: weak fairness of what a consumer does with a message, of its
  restart (the process is supervised, the loop of `runConsumeLoop` never ends by
  itself), of visibility timeouts and of the redrive; strong fairness of the
  reception of each message, because it is deliverable only while no other
  message of its group is in flight, which comes and goes. Success is not
  assumed: a consumer may fail or crash on every delivery.
- `PendingReferenceWorker`: weak fairness of the end of a backoff, of the early
  return for a decided row and of a restart (the loop of `runLoop` and its
  250 ms timer); strong fairness of some claim, and for each row of beginning and
  finishing its reprocessing. Strong, because an instance may fail or crash each
  time in between; what is assumed is that one and the same row does not fail
  every time. A row that does (a credit that overflows the column throws at each
  attempt) is outside this assumption: it is never decided, and rows that share
  its batches may wait behind it.
- `OutboxPublisher`: weak fairness of the end of a backoff, of the commit of a
  batch that is done and of a restart; strong fairness of some selection and, for
  each event, of a send that is answered and of a commit of a transaction that
  holds it as published. Sends, updates and commits may fail any number of times,
  but not every time for one event. When the driver returns strings no send is
  ever enabled and this says nothing. Fairness is stated with the variables an
  action changes as subscript (`batch`, `running`, `waiting`), which every such
  step does change, so it is the same as with all of them.
- `WageringTransactions` and `LedgerReaders` have no fairness: all their
  properties are safety.

## 5. What is proved

From the assumptions on the constants only (requests are well typed, keys,
external ids and wallets do not overlap, `None` is none of them, limits are
positive, a session submits a wager, records a failed one or reprocesses a row),
for any number of wallets, players, wagers, sessions, workers, consumers,
messages, publishers and events, and any size of a batch or a page. Every
invariant and action property the passing runs check is among these theorems.

| Theorem | Module | Says |
|---|---|---|
| `TypeCorrect` | `WageringTransactionsProofs` | `TypeOK`: balances are never negative and fit the column |
| `LedgerCorrect` | | `LedgerExplainsBalance` |
| `VersionCorrect` | | `VersionCountsEntries` |
| `ReversalsCorrect` | | `ReversedOncePerKind`: the partial unique index never has to refuse |
| `ReferencesCorrect` | | `ReversalMatchesReference` |
| `HistoryCorrect` | | `HistoryIsImmutable` |
| `EffectsCorrect` | `EffectOnceProofs` | `EffectOnce` |
| `EventsFollowLedger` | `EventsProofs` | `EventsMirrorLedger`: the balance events are the ledger, in order and without a gap |
| `EventsFollowRows` | | `OutcomesTellStatus` |
| `SessionsAreTyped` | `DatabaseSessionsProofs` | `SessionsTypeOK` |
| `NoLostUpdates` | | `NoConcurrentWriters` |
| `SessionsImplement` | | `ImplementsTransactions`: interleaved READ COMMITTED transactions commit what atomic use cases could |
| `AnswersHold` | | `AnswersAreStored` |
| `NewOnce` | | `OneNewAnswerPerKey` |
| `SessionsKeepTheBooks` | | the theorems about the use cases hold under the sessions |
| `WorkersAreTyped` | `PendingReferenceWorkerProofs` | `WorkerTypeOK` |
| `LocksOfRowsCorrect` | | `OneReprocessingPerRow` |
| `RejectionsCorrect` | | `NoEarlyRejection` |
| `FoundReferencesCorrect` | | `FoundIsNotMissed`: a reference that is there before the last claim is found |
| `WorkerImplementsTransactions` | | `WorkerSafeSpec => Spec`: the theorems about the use cases hold under the worker |
| `ConsumerIsTyped` | `WagerConsumerProofs` | `TypeOK` of the consumer |
| `DeadLettersArePersisted` | | `DeadLettersAfterPersistence` |
| `RowsAreWrittenOnce` | | `RowsAreFinal` |
| `AcknowledgementsLeaveTrace` | | `AcknowledgedLeavesTrace`, whatever ids producers use |
| `LocksCorrect` | `OutboxPublisherProofs` | `TypeOK` with the locks of the polls |
| `PublishersImplementRelay` | | `ImplementsRelay`: the safety part of the refinement of `EventRelay` |
| `ReadersAreTyped` | `LedgerReadersProofs` | `ReadersTypeOK` |
| `ReportsTellTheLedger` | | `ReportTellsTheLedger` |
| `WalksCoverTheLedger` | | `PagesCoverTheLedger` |

**The core.** The first three rest on `LedgerInv`: `TypeOK`, the two ledger
properties, that a row names an existing wallet (so that a failed or reprocessed
row can be saved), and that the row of a reprocessing under way is pending (its
row lock). The argument is `SoundDecision` (a decision debits only what is there
and credits only what fits), `ChainExtends` (appending an entry that starts at
the balance keeps the chain) and `SaveKeepsTables` (what `Save` does with a sound
decision); each action is then a use of these lemmas.

`ReversalsCorrect` and `ReferencesCorrect` need `ReversalInv` in addition: an
opening is the wallet's own, pending rows are reversals, and what a reprocessing
has read is a row with the external id it asked for whose status, if it was read
as PROCESSED, still is. The last part is the reason why a stale read is harmless:
PROCESSED is final, and any other reading rejects.

`EffectsCorrect` uses both. A row moves money only when it becomes PROCESSED,
the step that makes it so appends its entry, and a row that already took effect
keeps its direction (`DirectionStays`), because a processed reversal's reference
is processed and its request never changes.

**The events.** `EventsInv` is the two properties and `EventsHaveRows`: every
event in the outbox of a wallet is of a row of that wallet, so the outbox says
nothing of a row before it is written. Each use case enqueues either the outcome
of the row it writes, or that and the balance event of the entry it appends, or
nothing (`FailTransaction`); `OutcomeKeepsEvents`, `ChangeKeepsEvents` and
`SilenceKeepsEvents` are these three cases, and they rest on what one more event
does to one outbox (`MirrorsOutcome`, `MirrorsChange`, `TellsStill`,
`TellsNext`). That the new balance event has the next version is
`VersionCountsEntries` of the core.

**The sessions.** `SessionsInv` says what each session may rely on at its next
statement, given the locks it holds (`SessionOK`), that the locks exclude each
other (`LocksExclude`), and the invariants of the use cases. The wallet that was
loaded under its lock is still the wallet; the key that was found free, and the
external id after the flush, are still free. Nothing of the kind holds of the
reference, which is read without a lock and may change before the commit. What
holds is `ReadOK`: a reference that was missing has not appeared in the
session's own wallet, because whoever inserts it needs the lock of that wallet;
one that was pending may have moved on meanwhile, but was not processed if it is
of that wallet, because processing it needs the lock too (rejecting it as not
found does not). A reference of another wallet may do anything, but is refused
for its context whatever its status. So what the session decides with what it
read (`SameDecision`, `ReadingAtCommit`) is what the atomic use case decides with
one of its readings, `WriteIsSave` makes its writes those of `Save`, and a commit
is one step of `WageringTransactions`. Reading the reference of a reprocessing is
`BeginReprocess`, a rollback after it `AbortReprocess` (`WorkerIsFree`: there is
room for one more reprocessing because there are at most `Workers` sessions that
reprocess), every other
statement a stutter. `LocksExclude` and `LoadedOK` give `NoConcurrentWriters`;
the answers follow from the row that was read or written when they were given,
and from rows never changing once they are terminal.

**The worker.** `WorkerInv` is `LedgerInv`, the types of the batches,
`OneReprocessingPerRow` and `NoEarlyRejection`. The two last are inductive only
together with the first: that a reading of a row is in the hands of the instance
whose first row it is carries over a step because `BeginReprocess` needs the row
unlocked, and `NoEarlyRejection` speaks of the claims in every batch and of every
reading because a rejection may come from a claim made long before.
`FoundReferencesCorrect` follows a row whose reference is there: rows are never
deleted, so each later reading finds it, and readings made before it came are
not the last.

**The consumer.** `ConsumerInv` follows a message through the steps of the
consumer that has it in hand: it was parsed if it was handed to the use case, and
its inbox row is terminal, or it has none because it was not parsed, when it is
sent to the dead-letter queue. It is not enough to speak of the message in hand:
another consumer may hold an older receipt of the same message, so the invariant
is about what the database holds, which no step takes back (`StepKeepsInv`).
`TraceInv` adds what the inbox row stands for (`InboxTells`): the body it holds
was parsed, and its message is `Accounted`: its key has a row with its own
payload, or the use case refused it, or it met a permanent SQL error while its
key belonged to another wager (`persistFailedTransaction` then keeps the row that
is there). The property promises no more, because the code does not: in the two
last cases the inbox row is all the database knows, and a message whose way to
the dead-letter queue was cut off after it is acknowledged with nothing else
(`DeadLetterLoss`). Everything else that is acknowledged has a DECIDED or FAILED
row. The inbox knows a delivery by `(consumerName, messageId)` only
(`README.md:699`), so a message that comes under the id of another one is
acknowledged as its duplicate; the property therefore speaks of the body under
that id, and needs no assumption on ids. The messages of the runs have ids of
their own: shared ids are covered by the theorem and not by a run.

**The publisher.** Both theorems hold for dates and for strings. `TypeOK` is
inductive as it stands. For the refinement it is
strengthened by `SentBeforeDone`: what a transaction has marked PUBLISHED was
taken by the queue. `Commit` then maps to `Settle(done[p])`, `Publish` and
`SendFails` to `Deliver(e)` or a stutter (a copy the queue drops, a send that
never arrived), every other action but `Store` to a stutter; a send of a
PUBLISHED row is impossible because a locked row is not PUBLISHED.

**The readers.** Two facts carry both properties: a use case leaves the ledger of
a wallet or appends one entry to it (`LedgerGrows`), and the order of its entries
changes by one insertion, which keeps the relative places of the others
(`InsertedAt`, `InsertionKeepsPlaces`). For a report, `ReadersInv` has that the
wallet read first was the wallet after as many entries as its version says
(`VersionCountsEntries`), and `RecomputedIsBalance` that entries in commit order
lead to the balance after the last of them. For a walk, `WalkHolds` says that
what the client has is ordered by places and contains, of what was there when the
walk began, all that is not after the cursor; an insertion keeps that
(`InsertionKeepsWalk`), and so does a page, whether it is the last or ends at the
row the next one starts after (`PageKeepsWalk`).

Only model-checked:

- liveness (`SessionsEnd`, `EveryMessageLeaves`, `PendingIsDecided`,
  `EveryEventIsPublished`): liveness under fairness and ENABLED are out of the
  prover's reach. The last is conditional: it promises nothing if the driver
  returns strings, and then nothing is published, because no send is enabled;
- that the loop of the reconciliation computes `Recomputed` (`LoopRecomputes`):
  the loop is a fold, and induction over data is out of the prover's reach. The
  run compares the two on every small ledger;
- the three violations of section 3, which are about single behaviours.

No module uses RECURSIVE.

## 6. What is left

1. The composition of the consumer with the sessions: `WagerConsumer` has the
   transaction of a message as one step with the outcomes the use case can have.
   A proof that each of them is one of a session, with `rows` as a view of `txs`,
   would join the two halves of the argument.
2. The same for the worker: `PendingReferenceWorker` extends the atomic use
   cases; that the claim, with its own transaction and its SKIP LOCKED, may run
   beside the statements of the sessions is argued in section 2 and not proved.
3. The events of one wallet on the queue: the publisher's model shows that a
   backoff, or a second publisher, lets a later event overtake an earlier one
   (`ARCHITECTURE.md:169` counts on the group to keep them in order). Stating it
   needs an order of the copies in the queue.

## 7. Not modelled

- HTTP status codes and the validation of fields, among it the limit of a page,
  which has no upper bound;
- parsing and formatting of money and of messages (a message parses or not);
- the queries of one wallet or one transaction, which read a single row;
- health, metrics and logging: counters that no component reads;
- start-up and the migrations of existing data. Nest starts the migrations and
  the loops in the same round of hooks, so the loops may meet a table that is
  being altered; what they see is an SQL error, which `Interrupt`, `Rollback` and
  `Fails` cover;
- the identity map of MikroORM. That a transaction decides on what its own
  statements read from the database is an assumption, neither modelled nor
  proved: `transactional` is taken to work on an entity manager of its own with
  its own copies of rows. `mikro-orm.config.ts` sets `allowGlobalContext: true`
  and the services call the global `orm.em`, so a row that is served from a
  shared identity map, and is older than the lock it is used under, is outside
  the models;
- the clock, except as nondeterminism (a backoff ends at any time, an entry may
  sort before earlier ones);
- the order of events on the events queue, and its consumers.

# Verification of the account-balance service

TLA+ models of the account-balance service (Python, FastAPI, SQLAlchemy,
PostgreSQL), the TLC instances that check them and the TLAPS proofs of their main
properties. Paths are relative to the repository root; `AB` stands for
`src/modules/account_balance`.

## 1. Inventory of the system

| Part | State it keeps | Operations | Talks to |
| --- | --- | --- | --- |
| Domain (`AB/domain`) | immutable accounts, transfers, entries | `open`, `credit`, `debit`, `debit_for_reversal`, `close`; `posting.transfer`, `posting.revert` | nothing |
| Transfer, deposit, withdrawal (`transfer_money.py`, `deposit.py`, `withdraw.py`) | none beyond one request | `execute` | unit of work, resolver of SYSTEM accounts |
| Reversal (`revert_transfer.py`) | none | `execute` | authorization gateway, unit of work |
| Closure (`close_account.py`) | none | `execute` | account unit of work |
| Opening (`account_register.py`) | none | `execute` | account repository, one session per call |
| Reads (`get_account`, `list_accounts`, `list_movements`, `get_collections_report`) | none | one query each, pages by cursor | read repositories |
| SQL adapters (`AB/adapters/outbound`) | one session per unit of work | statements, commit, rollback | PostgreSQL |
| PostgreSQL | `accounts`, `transfers`, `entries`, `idempotency_records`, row locks, unique indexes | READ COMMITTED transactions | |
| Pool (`settings.py`, `engine.py`) | ten connections per process | check-out with a 5 s limit | PostgreSQL |
| HTTP API (`AB/adapters/inbound/api`) | none | one route per use case, error to status | use cases |
| Web client (`web/src`) | one pending operation with its key in `localStorage`; per screen what it shows | submit, retry, resume, discard; list movements page by page | HTTP API |
| Infrastructure (`infra`, `docker`, `alembic`) | tasks, connection budget, schema version | deploy, migrate | PostgreSQL |

Of the service's memory two requests share the connection pool and nothing else.
Otherwise they meet in PostgreSQL, in four places: the primary key of `idempotency_records`, the
row locks of `accounts`, the partial unique index on `transfers.reverses`, and the
unique constraint on an account's natural key.

Behaviours that are hard to test, with the properties that cover them (the whole
list, line by line, is under `hazards` in `PROJECT.json`):

* rows are read without a lock and read again under one before deciding;
* `update` writes absolute values and no statement tests `version`;
* transfers in opposite directions, reversals and closures lock the same rows;
* a key is carried by several requests at once, or again after a lost answer;
* a transaction may stop at any statement, or right after its commit;
* two requests open one account; the loser is told to retry;
* the browser sends one intent several times: automatic retries, a Retry button, a
  resume after a reload, while earlier requests may still arrive;
* the browser keeps one pending operation for all that it has in flight;
* a reversal meets a recipient who has spent the money or closed the account;
* pages and reports order entries by a time stamped before the locks, by several
  tasks' clocks, so a posting may commit below a page already shown;
* the movement screen has calls for several accounts on their way at once;
* requests that wait for a row keep their connection, and the one that would
  release the row may be queued for a connection behind them;
* a failover severs connections that look alive in the pool;
* a migration is started twice, hangs, is stopped and goes on, is given up without
  being stopped, or commits while another one waits for the lock; each way out of a
  failed deployment calls the same handler.

What makes each part correct: a balance is the sum of its entries; one posting
per key; one full reversal per transfer; only a reversal overdraws; a closed
account is empty and final; decisions rest on current rows; no lock cycle,
inside PostgreSQL or through the pool; every request is answered; a page skips and
repeats nothing; a debt is reported once and rightly dated; no task runs ahead of
its schema; every deployment ends.

## 2. Modules

```
Posting                  domain rules, pure operators
  Movements              requests, drafts, authorization, opening state
    Ledger               abstract specification: requests are atomic
      LedgerHistory      the entries the ledger leaves behind, with their stamps
        CollectionsReport       the report of debts
        MovementHistory         the pages of movements and the screen that asks for them
          ReadsInvariant        the inductive invariant of both readers
            ReadsProofs         the theorems
            MCReads             both readers over one history, instances for TLC
    AccountService       the transactions, statement by statement
      AccountServiceInvariant   the inductive invariant
        AccountServiceProofs    the theorems
          LockOrderProofs       no deadlock, from the order of the locks
        MCAccountService        instances for TLC

AccountOpening           the race for a natural key
  AccountOpeningProofs   the theorems
  MCAccountOpening       instances for TLC

WebClient                the browser's pending operation, its key and its retries
  WebClientProofs        the theorems
  MCWebClient            instances for TLC

ConnectionPool           one process's connections and the sessions that want them
  ConnectionPoolProofs   the theorems
  MCConnectionPool       instances for TLC

Migrations               migration tasks against one database
  Deployment             CloudFormation, the ECS service and the fleet around them
    DeploymentProofs     the theorems
    MCDeployment         instances for TLC

FiniteSetFacts           lemmas the proofs share: greatest members, ranks, sums
```

**Posting** translates `domain/account.py` and `domain/posting.py`. A row is
`[balance, status, version]`; `Credit`, `Debit` and `Close` are the methods of
`UserAccount`; `TransferRefusal`, `RevertRefusal` and `CloseRefusal` give the
first exception raised, in the order of the code. `debit_for_reversal` has no
operator of its own: it is `Debit` without the test for funds. `PostingFits` is
the range of a `BIGINT`: a statement carrying anything wider fails. SYSTEM
accounts have an id and a currency and no row. The `version` column is a 32-bit
`INTEGER`; its overflow after 2^31 writes of one account is not modelled.

**Movements** holds what the two state machines share: the three kinds of
request, the hash of a request (the tuple of the fields it covers: SHA-256 is
taken to have no collisions), the authorization rule, and the movement (`draft`)
a request stands for. A transfer stands for its row in `transfers` and its two
`entries` (`Net` is their signed sum on an account), since they are written by
one transaction and never changed. Transfer ids are minted by attempts (UUIDv7 in
the code), so an attempt is named like the only transfer it can post. Runs start
with opening deposits already posted, each with its idempotency record.

**Ledger** is the promise: `Move`, `Reverse` and `Retire` take effect in one step
or not at all. It has no locks, reads, retries or failures.

**AccountService** is `TransferMoney`, `RevertTransfer` and `CloseAccount`. State:

| Variable | In the code |
| --- | --- |
| `account`, `transfers`, `records` | the committed tables |
| `pc`, `request`, `draft`, `answer` | one request: its place in `execute`, its input, its posting, its answer |
| `pending` | the idempotency row inserted and not yet committed |
| `lock` | who holds `SELECT ... FOR UPDATE` on a row |
| `rows` | the account instances the request holds in memory |

Actions, in the order of the code: `Arrive`/`TurnAway` (the gateway's
authorization of a reversal comes first), `FindNothing`/`Replay`
(`find_by_key`, `_replay_or_conflict`), `ReserveKey`/`LoseKeyRace`
(`idempotency.add`; the loser rolls back and looks again), `Read`/`RefuseRead`
(unlocked reads and the refusals that rest on what never changes), `Lock` (one
row at a time in id order, waiting at each), `Post`/`RefusePost` (domain
decision, inserts and updates, invisible until the commit), `Commit`,
`CommitUnheard` (durable, and the answer lost) and `Abort` (any statement fails,
the request is cancelled, the task stops). A retry is another attempt with the
same request.

PostgreSQL is modelled by what the code relies on: inserts wait for an
uncommitted row of the same key and fail on a committed one; `FOR UPDATE` returns
the row as last committed; commit is atomic; a rollback or a lost session frees
everything. `FOR KEY SHARE` locks taken by foreign keys never conflict here: the
USER rows they touch are already locked by the same transaction, and SYSTEM rows
are never locked `FOR UPDATE`.

One assumption deserves its own paragraph. `get_for_update` and
`get_many_for_update` do not ask for `populate_existing`, and the same session
has read the same rows before. The locked read is fresh only because `find`
returns a converted copy, drops its last reference to the mapped instance, and
the session's identity map is weak. The model takes the committed row
(`LockedRow`); its mutant `LockedRowAsReadBefore` returns the earlier instance,
and TLC then loses an update. Code that kept mapped instances alive would be that
mutant.

**AccountOpening** is `AccountRegister` over `SqlAccountRepository`. It stands
alone: opening shares the `accounts` table with the movements of money but writes
only rows that no movement knows yet, and it reads neither balance nor status (the
natural key of a closed account leads to that closed account). `accounts` is the
committed rows, `pending` the uncommitted insert of each attempt, `asked` the
natural key it opens. `FindExisting`, `RefusePurpose` and `FindNothing` are the
three ways out of the look-up, in the order of the code; `Insert` and `LoseRace`
are `add` before its commit: the insert waits while another attempt's row of the
same key is uncommitted. An account id is minted by the attempt (UUIDv7), so it is
named like it. `Seeded` are the natural keys of the SYSTEM rows that migration
`5bf582a92358` inserts.

**WebClient** is `web/src/screens/MoveMoneyScreen.tsx` with `api/client.ts`,
`api/idempotency.ts` and the two things it takes from `api/errors.ts`: which
answers there are, and whether their banner has a Retry button. State:

| Variable | In the code |
| --- | --- |
| `stored` | `localStorage`'s `scf.pendingOperation`, shared by all tabs |
| `page` | one screen per tab: `step`, `pending`, `interrupted`, `submitting` (as the call it awaits), `error`, `receipt` |
| `call` | one execution of `confirm` or `resumeInterrupted`, which goes on after its screen is left and ends with its tab |
| `wire` | requests on their way |
| `posted` | what the service has posted |
| `minted` | the keys `crypto.randomUUID()` has returned |

`Visit`, `Leave`, `Reload`, `Review`, `Edit`, `Reset`, `Discard`, `Confirm`,
`Retry` (of the error banner) and `Resume` are what a user may do. `Serve` is the
service with what `Ledger` promises: a key posts once, the same key and payload is
answered with the original, another payload with a conflict; an answer finds its
call only if that call still waits for that attempt. `LoseRequest` loses a request
and `Unreachable` makes `fetch` reject, with the request arriving later, earlier
or never. `CutShort` is an answer whose body breaks off: `response.text()` rejects
outside the `try` that knows of network failures. `Settle` takes an answer as far
as the code does before it next awaits: success clears the storage and shows the
receipt, a failure sleeps (`Wake` sends the next attempt) or sets the banner. An
operation is its key and its body; caller, kind and time are part of the body. A
banner remembers in the model which operation it is about; the page does not.

**LedgerHistory** puts the `entries` table beside `Ledger`: `Post` is a `Move` or a
`Reverse` and appends the two entries of its transfer, under one stamp. `entries`
is kept in the order of the commits, which no query of the code sees. The stamp is
any day of `Time`: it is taken before the posting waits for its key and its rows,
by the clock of the task that serves it, so it need not agree with the order of
the commits. Entry ids follow the order of the commits of one account: they are
minted under the locks of its rows.
That the service's commits are the steps of `Ledger` is the refinement proved for
`AccountService`, which is why the readers need not be composed with its locks.

**CollectionsReport** is `sql/queries/negative_balances.py` (`RunningBalance` and
`PreviousBalance` are its window functions, `EpisodeStarts` and `NegativeSince` its
joins) and `GetCollectionsReport` (order, exposures per currency, age buckets,
counts). It has no state: one statement reads one snapshot, so the report is an
operator of the committed state, checked in every state. When stamps do not follow
the commits, `negative_since` may name another day than the one on which the row
fell below zero; what can be promised then, and what when they do, are the two
halves of `DebtIsDated`. The report's unexplained rows, accounts in debt without an
entry that crosses zero, cannot arise where balances are the sums of their entries,
so no run lists one.

**MovementHistory** is `ListMovements`, its keyset query and cursor (`Page`,
`Below`, `CursorAfter`), `ListAccounts`, and `web/src/screens/MovementHistoryScreen.tsx`:

| Variable | In the code |
| --- | --- |
| `selected`, `rows`, `cursor`, `loading`, `error` | `accountId`, `movements`, `nextCursor`, `loading`, `error` of the screen |
| `calls` | the requests it has on their way, with the page once the service has read it |
| `loads` | a bound: the first pages asked for |
| `statement` | nothing: which account's statement the rows are, and how long the table was when its first page was read |

`Pick`, `Retry`, `LoadMore` and `Leave` are the user's; `Serve` reads a page,
`Deliver` shows it whatever has been asked for since, `Fail` is an error, with a
banner or, for an answer broken off, without one. `statement` is there for the
properties: the rows are a statement only as long as they are what one selection
asked for, each page read after the first. (A "Load more" read before a reload's
first page, and shown below it, may miss an entry in between; the screen cannot
tell, and no document promises otherwise.)

**ConnectionPool** is `settings.py`, `engine.py` and what the use cases do with
sessions. `Sessions` lists them for each kind of request, by the step each starts
with: a deposit resolves its SYSTEM account in one session and moves money in
another, a movement list looks up its account first, an opening uses one session
per repository call.

| Variable | In the code |
| --- | --- |
| `at`, `todo`, `answer` | one request: its step, the sessions it has yet to open, how it ended |
| `conn`, `since` | the connections it has checked out, and how often the database had failed over by then |
| `opened`, `era`, `up` | when each pooled connection was opened; how often the database failed over; whether it is reachable |
| `wants`, `lock` | the key and the rows a unit of work locks, and who has them |
| `posted` | units of work that have committed |

`Checkout`, `CannotConnect` and `TimeOut` are the three ways out of the queue
(`db_pool_timeout_seconds` is a step that may be taken while every connection is in
use); `EndStatement`, `Find`, `Lock`, `LoseRace`, `Recover`, `Commit` and `Abort` are
the sessions, with what `AccountService` says of a unit of work reduced to what
makes it wait; `Failover`, `ComesUp` and `Break` the database. `pool_pre_ping` is
`HandedOut`. A saturated pool refuses `/ready` like any other request. In
`AccountService`, which has no pool, an attempt that never gets a connection ends in
`Abort`, as far as the ledger can tell.

**Migrations** is `docker/migrate.py` and `alembic/env.py`. Revisions form a line,
so `revision` is a number and an image is known by its last one (`Head`).
`Launch` is `run_task`, whose task is pending until ECS runs its container (`Begin`).
`ReadRevision` is the look-up outside any lock, `TakeLock` and
`CannotLocateRevision` what alembic finds once it has `pg_advisory_xact_lock`,
`Apply` the one transaction of all pending revisions, `Fail` any other end, `Kill`
ECS ending a task that `stop_task` was called on, some time later.

**Deployment** is `infra/stacks/service_stack.py`, `migration_runner.py` and
`infra/runtime/migration_handler.py`. `stack` is where CloudFormation is; `physical`
is the run the custom resource stands for; `goal`, `tasks` and `desired` are the ECS
service. `Deploy` and `Revert` send the resource an event (`on_event` starts a task,
or raises), `Poll` is `is_complete` of a task that ECS describes, `PollUnanswered`
its other outcome: no task is described, or a call to ECS fails, and it raises
without stopping anything (`migration_handler.py:98-100`). `Tick` passes time on two
clocks: `waited` is the provider's, which gives up at `total_timeout`
(`ProviderTimesOut`); `running` is the `running_for` that the handler compares with
`DEADLINE_SECONDS`, counted from `createdAt` and from `startedAt` once there is one
(`MigrationProceeds` resets it). `DeleteStack` and `DeleteReplaced` are the events
`on_event` ignores. `StartTask`,
`StopTask`, `Rolled` and `BreakerTrips` are the rolling deployment and its circuit
breaker, `Scale` autoscaling between `min_capacity` and `MAX_TASKS`, `ExtraRun` a
migration that CloudFormation does not wait for: a human's, or the second task of a
`run_task` sent twice, for it carries no client token.

## 3. Runs

Twelve runs, eight that must hold and four in which TLC must find a statement of
the documents violated.

| Run | Instance | Checks |
| --- | --- | --- |
| `crossing` | `MCAccountService`, 4 attempts; A to B under two keys (one with two payloads), B to A, close A | `ClosedIsEmpty`, `NoDeadlock`, `OnePostingPerKey`, `KeySpentIffPosted`, `CreatedMeansPosted`, `RecordNeverVanishes`, `OnlyReversalsOverdraw` |
| `reversing` | 4 attempts; a transfer, reversals of a deposit, of it, of a reversal, a closure | `BalanceIsSumOfEntries`, `ReversedOnceInFull`, `Inductive`, `ClosedIsFinal` |
| `live` | 3 attempts; transfers both ways, a deposit reversed under two keys, a closure, and requests refused for their amount, its width, their caller, their source or their account | `TypeOK`, `ImplementsLedger`, `EveryAttemptAnswered` |
| `opening` | `MCAccountOpening`, 4 attempts; two USER natural keys, a seeded and an unseeded SYSTEM one | `TypeOK`, `OneAccountPerKey`, `AnswersAgree`, `RetryFindsIt` |
| `client` | `MCWebClient`, one tab, 2 keys, 2 bodies, 2 calls of 2 attempts | `TypeOK`, `OneCallPerPage`, `OncePerIntent`, `NeverAConflict`, `ReceiptIsTrue`, `EverySubmissionEnds` |
| `pool` | `MCConnectionPool`, 3 requests (a transfer, a deposit, a closure, an opening, a page of movements), 2 connections, 2 accounts, one failover | `TypeOK`, `NoHoldAndWait`, `SaturatedPoolMoves`, `TimedOutPostedNothing`, `NoStaleCheckout`, `EveryRequestEnds` |
| `deploy` | `MCDeployment`, 2 images, 2 deployments, one further migration, one scaling, 2 tasks at most; a deadline of 1 tick, a provider's patience of 3, one unanswered poll | `TypeOK`, `NoTaskAheadOfSchema`, `PlanIsCurrent`, `StoppedBeforeGivenUp`, `DeploymentSettles` |
| `reads` | `MCReads`, 2 accounts of one owner in two currencies, 4 transfers, stamps on 2 days, pages of 2 rows, 2 calls at once | `ReadsInductive`, `DebtIsDated`, `ReportAddsUp`, `NewestFirstOnce`, `NothingSkipped` |
| `client_retry` | as `client`, one body | `RetryCarriesTheSameKey`, violated |
| `deploy_wedge` | as `deploy`, no further migration, every poll answered | `AheadWedgesNoRollback`, violated |
| `deploy_budget` | as `deploy` | `FleetFitsBudget`, violated |
| `reads_overlap` | as `reads` | `StatementOfSelected`, violated |

What the passing runs show is the sentence each has in `PROJECT.json`; why a
property is there is the comment above its definition. Each property of a passing
run has a mutant in `PROJECT.json`: a plausible bug in the code it depends on,
defined next to the definition it changes, under which TLC finds the property
violated in the same run.

**Bounds of the service.** A commit touches two rows at most, so two USER accounts
give every conflict between two commits and every lock cycle of two; longer cycles
are excluded by proof. Four attempts allow a winner, a waiter, a retry after an
abort and a fourth party. Opening balances of 3 and 1 let account A pay both
payloads of one key, so that only the key keeps the second from posting. Amounts of
1, 2 and the limit `MaxStored = 7` are equal to, below and above a balance and
overflow a column. A second reversal is refused in `live` and `reversing`, the
reversal of a transfer that does not exist in `reversing`; no run asks for a transfer
to the same account or in another currency, which only the proofs cover. For opening, four
attempts allow a winner, a waiter, a loser and a retry, and the keys are one of each
kind the code tells apart, plus one to keep apart from. Attempts are compared for
equality only, hence the symmetry of `crossing` and `reversing`; runs that check
liveness use none.

**Bounds of the client.** Two calls and two keys allow a retry or a resume of an
operation whose first request is still on its way, or two operations at once; two
attempts allow an automatic retry, which the code does twice (`RETRY_DELAYS_MS`).
The safety of several tabs and of more calls and attempts is proved (section 4);
their liveness is not checked.

**Bounds of the pool.** Two connections and three requests: the pool is full with
one request queued, and one of the two that fill it may wait for a key or a row the
other has locked, while the queued one wants either. The ten connections of the
code are covered by proof. One failover separates connections of two eras.
`MaxFailovers` bounds `era`.

**Bounds of the deployment.** Two images are an old and a new one. Two deployments
make a first one, an update, and a rollback of either; five runs are two for each
deployment and a further one. `MAX_TASKS` is two here ((6 - 2) / 2), so a rolling
deployment at the ceiling has old and new tasks at once. `Deadline` and
`TotalTimeout` are 45 and 60 minutes in the code; ticks of 1 and 3 keep the order
and leave room both for a migration that is stopped in time and for one that is
pending until it is too late. A tick passes only while the handler answers
"incomplete": it is polled every 15 seconds (`query_interval`), so nothing it would
act upon is a tick old, and `running` ends at most one tick past the deadline.
`MaxUnanswered` bounds the polls that ECS does not answer. `used` counts what the
bounds have been used up.

**Bounds of the readers.** Five or six transfers, two of them the opening deposits,
on two days: a debt that begins, is paid and begins again, stamped in and out of
order, in either currency; ages of 0, 1, 6, 7, 30 and 31 days are on both sides of
each ceiling (`AsOf`). Pages of two rows with up to five transfers in use make a
history of three pages. A screen asks for two first pages (`MaxLoads`) with two
calls on their way, so that answers overlap and arrive in any order; `MaxListed`
bounds what is posted while it does. Such a run may come to its end, so `reads` and
`reads_overlap` do not check deadlock; the other runs do, and find any state in
which something is stuck (a finished run stutters: `AllServed`, `AtRest`).

**Fairness.** `WF_vars(Advance(p))`: the event loop runs every ready coroutine and
PostgreSQL hands a freed row or key to a waiter. It is weak: a step that is enabled
for ever is taken. Arrivals, aborts and lost answers are not fair. In the client
`WF_vars(Progress(c))` says that `fetch` settles, one way or the other, and that
timers fire; users and the network owe nothing. In the pool `WF_vars(Proceed(r))`
is the same event loop and the same locks, and the time-out of a check-out; nothing
makes the database come up again, and requests end all the same. In the deployment
CloudFormation, its provider and ECS go on and time passes (`Poll`, `Tick`,
`ProviderTimesOut`, `Revert`, `DeleteStack`, `DeleteReplaced`, `Rolled`, starting and stopping of
tasks, the end of a stopped task); a migration is not fair, so it may hang.

**What the violated runs show.** None of the four moves money twice by itself.

* `client_retry`: `editForm` and `review` leave the error banner of an earlier
  operation standing, and its Retry button is `confirm`, which sends what the page
  holds now; `errors.ts:189` promises "the same retry code", and the new operation
  has a new one.
* `deploy_wedge`: `docker/migrate.py` finds its revision known before it waits for
  the lock. A migration that was stopped at the deadline and commits in its grace
  period moves the database ahead of the rollback's image in between; alembic then
  fails, and so does the rollback, which `infra/README.md:74` promises not to.
* `deploy_budget`: `service_stack.py:35-37` calls `MAX_TASKS` a real bound on the
  fleet's connections. `max_healthy_percent=200` lets a deployment at the ceiling
  run twice as many tasks.
* `reads_overlap`: the movement screen writes whatever page it awaited, and the
  picker stays usable meanwhile: select A, then B, and A's answer coming last is
  listed under B.

Five more disagreements of documents and code were met and are not checked by a
run, since the modules state what the code does:

* `openspec/specs/revert/spec.md:142` and `docs/prd.md:368` want a reversal to post
  in full whatever the recipient has done with the money, `docs/prd.md:359` wants a
  closed account never debited; the code refuses the reversal of a recipient who
  has closed (`AB/domain/account.py:214`).
* `openspec/specs/account-opening/spec.md:153` wants a SYSTEM purpose answered 422;
  the look-up comes first (`account_register.py:43`), so whoever names the platform
  owner, a SYSTEM purpose and its currency is given the seeded row, on which
  `dtos.py:49` fails an assertion. Nothing is stored.
* `docs/web-ui-plan.md:247` wants an operation in flight to survive a refresh;
  `clearPendingOperation` (`MoveMoneyScreen.tsx:198`) removes whatever is stored,
  so Discard of an older operation, or its late success, forgets the one being sent.
* `migration_handler.py:42-48` and `migration_runner.py:17-23` want a migration
  stopped before CloudFormation gives it up, which "leaving it to finish [...] is
  worse than" (`migration_runner.py:102-104`). The deadline is counted from
  `startedAt` (`migration_handler.py:104`): a task pending for more than the 15
  minutes between deadline and `total_timeout` is not overdue when the provider's
  hour ends, and nobody stops it. Nor does anybody when `describe_tasks` returns no
  task or a call to ECS fails: `is_complete` raises (98-100), and the resource has
  failed. `StoppedBeforeGivenUp` names both and claims the rest. Such a migration
  goes on beside the rollback's; the advisory lock keeps the schema sound
  (`PlanIsCurrent`, `NoTaskAheadOfSchema`), and the deployment settles.
* An answer broken off after its headers is neither retried nor shown
  (`client.ts:117`, promise at `client.ts:99`); on the movement screen the same
  leaves "No movements on this account yet" standing (`client.ts:196-219`,
  `docs/web-ui-plan.md:541-542`).

## 4. Proofs

`AccountServiceProofs` proves, for any accounts (finitely many USER ones),
currencies, callers, keys, attempts and requests that satisfy `AccountAssumption`
and `MovementsAssumption` (which say no more than that ids are numbers, that the
kinds of names do not collide, that opening balances fit, and that requests are
requests):

* `TypeCorrect`, `KeyPostsOnce`, `KeyAndTransferCommitTogether`,
  `OneFullReversal`, `ClosedStaysEmpty`, `DecisionsAreCurrent`,
  `CreatedIsPosted`, `DefensiveBranchesAreDead`, `BalancesAreAccounted` (invariants);
* `ClosureIsFinal`, `OverdraftsAreReversals` (action properties);
* `ServiceImplementsLedger` (refinement): `Commit` and `CommitUnheard` are a
  `Move`, a `Reverse` or a `Retire`, and every other step is a stutter.

None of the properties is inductive: they speak of committed tables, and what a
commit does to these depends on what its transaction has read and holds.
`Inductive` adds that: `FlowOK` (the draft is the one its request stands for, and
an attempt that is not done has not posted), `KeyOK` (who holds a key has the
uncommitted record, and no committed one exists; who lost the race finds one),
`LockOK` (a locked row is needed, and in memory as committed; from `post` on all
legs are locked), `ReadyOK` (what was accepted when posted still is at the
commit), `AnswerOK`, and that no two attempts hold one key or are ready to
reverse one transfer. There is one lemma per action; those of the commit rest on
`CommitFacts` (the rows written are those committed, plus the draft's amounts)
and `CommitStoreInv`. `ReadyOK` is where the locks pay: another commit cannot
write a row the attempt holds, so the refusals evaluated at `post` still do not
apply. The action properties and the refinement are then one-step consequences.

`LockOrderProofs` proves `NeverDeadlocks`. `LocksInOrder`, inductive beside
`Inductive`, says that what an attempt has locked comes before every row it has yet
to lock: it gets to its locks from its reads, holding none, and each lock is of the
least row it lacks. In a circle of waits nobody is at its post, for commits wait for
nobody; somebody waits for a row, for the holder of a key that waits does so for a
row; and the holder of the greatest row the circle waits for would have to wait for
a greater one (`GreatestOf`, which is why the USER accounts must be finite).

`AccountOpeningProofs` proves, for any attempts and natural keys, `OpeningTypes`,
`OneAccount`, `SameAnswer` and `ConflictIsFinal`. `OpeningInductive` adds what an
attempt knows at each step (`AttemptsConsistent`), that who is about to commit has
the one uncommitted row of its key and no committed row has it
(`InsertsExclusive`), and that an account named by an answer is stored
(`AnswersStored`). Every action ends in one of two ways, so two lemmas
(`FinishKeeps`, `CommitKeeps`) carry most of the step.

`WebClientProofs` proves, for any number of tabs, keys, bodies, calls and attempts,
`ClientTypes`, `OneCall`, `MovesMoneyOnce`, `NoConflict` and `TrueReceipts`.
`ClientInductive` adds that every operation found anywhere, in the storage, on a
page, in a call, on the wire or posted, has a minted key (`KeysMinted`) that no
other one has (`OneIntentPerKey`); that requests and transfers carry their
operation's key (`RequestsOK`); and that a page awaits a running call exactly while
that call is mounted there, and shows no error then (`CallOK`, `PageOK`), which is
why a Retry button that is never disabled starts no second submission. Steps that
bring in no operation share `SameOperations`; `Review` is the only one that does.

`ConnectionPoolProofs` proves, for any pool size, requests, failovers and finitely
many accounts, `PoolTypes` (no more connections than the fleet's budget counts),
`QueueHoldsNothing`, `TimeOutIsSafe`, `PingedFirst` and `PoolEmptiesItself`.
`PoolInductive` adds that what a request has yet to do starts with the right
session, its unit of work the last but for recovery (`PlanFits`), that locks and
connections belong to running sessions (`SessionOwns`), that an answer given up
comes before any commit (`AnswerFits`), and that connections are disjoint. That a
full pool moves is then the argument of the greatest lock again: whoever holds it
is in the pool, for the queue holds nothing, and waits for nothing above it.

`DeploymentProofs` proves, for any images, revisions, numbers of runs and fleet
sizes, `DeploymentTypes`, `TasksFindTheirSchema`, `AppliedOnce`,
`GivenUpIsStopped` and `NeverDowngraded`. `MigrationsInductive` says of each run
what it knows at its step (`RunFits`): who applies holds the advisory lock and
started from the committed revision, and who ended well leaves the schema at least
at its image's head. `DeploymentInductive` adds that the images that are deployed,
restored or have tasks are `Reached` by the schema, that CloudFormation waits
for a run of the image it is deploying (`WaitsForItsRun`), and that a migration it
waits for has not run for longer than a tick past the deadline (`ClockFits`).
`GivenUpIsStopped` proves `StoppedBeforeGivenUp` from that: when the provider's time
is up on a migration that goes on, all but the deadline of it was spent pending.

`ReadsProofs` proves, for any accounts, stamps, opening balances, page size, viewer
and number of calls that satisfy the assumptions above and `HistoryAssumption`,
`ReportAssumption` and `ScreenAssumption` (stamps and report days are numbers, `None`
is neither a number nor a cursor, a page has 1 to 100 rows, as the route demands),
every safety property of the readers: `MovementHistoryTypeCorrect`,
`StatementsAreOrdered`, `StatementsAreComplete`, `DebtsAreDated` and `ReportsAddUp`.
They follow from
`ReadsAreFaithful`, whose `ReadsInductive` has two halves:

* of the tables, `HistoryInv`: the transfers are well formed and have names of their
  own (`PostedOK`); an entry's id is its place in the table and it is one leg of a
  transfer whose other leg is there too (`EntriesOK`); what the entries of an account
  add up to is its balance (`BalancesOK`). A `Post` appends two legs and moves two
  balances by as much. (`ReadersReadTheLedger`: a `Post` is a step of
  `Ledger`, and nothing else the readers do touches it.)
* of the screen, `ScreenInv`: `Lists(list, a, after, next, n)` says that a list shows
  entries of account `a`, newest first, all of them below `after` and none past
  `next`, and leaves out none of the first `n` that is not below `next`. Each page on
  its way `Lists` what there was when it was read (`CallOK`); so do the rows while
  they are a statement (`StatementOK`). New entries have higher places, so `Lists`
  survives every posting, whatever its stamp (`ListsStay`), and a page asked for below
  the cursor continues the list (`ListsJoin`). That a page is such a list is
  `PageLists`: `NewestFirst` gives each entry the place of its rank among the others.

`DebtsAreDated`: the running balance of the newest entry is the balance
(`RunningBalances`), hence negative; take the oldest entry since which every running
balance has been negative, and it starts an episode, the last one (`LastStart`). Where
stamps follow the commits, the running balance of an entry is the committed balance
after it (`CommittedBalances`), so the episodes start where the committed balance
crosses zero (`CrossingsAreStarts`). `ReportsAddUp`: the report is a list by rank
(`ReportIsSorted`); its buckets share out the accounts and so do its currencies, and
the sum over a union of disjoint sets is the sum of the sums (`BucketsAddUp`,
`OwedByEntries`).

**Sums.** `BalancesAreAccounted` in `AccountServiceProofs`, `BalancesOK` and the
report add over finite sets with the community modules' `MapThenSumSet`, a fold
that chooses a member at each turn. The library's induction theorems take an operator and cannot be
instantiated here, so `FiniteSetFacts` states induction for sets: a set of numbers
that has 0 and each successor is `Nat` (`NumberInduction`), a set of subsets that has
the empty one and grows by any member has the whole (`SubsetInduction`). From these
come that a sum exists, does not depend on the order of the choices (`SumsUpUnique`) and
grows by what is added (`SumAdd`), that disjoint parts add up (`SumOfParts`), that ranks number the members of a
strict order (`RanksNumber`), and that a finite set of numbers has a greatest one
(`GreatestOf`). With `SumAdd` the step of `BalancesAreAccounted` is `CommitFacts`
again: the rows a commit writes are those committed plus the draft's amounts, and the
draft is what the set of transfers grows by.

Only model-checked: `EveryAttemptAnswered`, `RetryFindsIt`, `EverySubmissionEnds`,
`EveryRequestEnds` and `DeploymentSettles`. They are liveness under fairness, which
is out of the provers' reach. Every other property of a passing run is proved. What
the four violated runs refute is refuted by TLC's counterexample.

The theorems say nothing of parameters that break an assumption, and take the models
as they are: PostgreSQL, the event loop and CloudFormation as described in section 2.

## 5. Plan

What further work would add, in this order:

1. The composition of the readers with the service: that the commits of
   `AccountService`, stamped and with their entries beside them, are the `Post` steps
   of `LedgerHistory`. The refinement of `Ledger` carries the postings; the order of
   entry ids under the locks is argued in section 2 and not proved.
2. The collections screen and the list of accounts, whose single calls race with a
   change of identity while the screen is open.
3. Money parsing (`web/src/money`) as an operator over short strings of digits and
   separators, against the decimal number they denote.

## 6. Not modelled

Status codes and DTO shapes (the error a request ends in is modelled, its
rendering is not); logging; `/health` and shutdown, which keep no state; the
composition of the database URL from its parts, `pool_recycle`;
`CurrencyNotOperationalError`, raised before any write; the balance `GetAccount`
returns, which is the committed row; internal guards of the domain that no caller
can trip; the 32-bit `version`, which would overflow after 2^31 writes of one
account; the content of a single migration beyond the tables it creates; the UI's
rendering, a browser storage that refuses writes, a change of identity while a
screen is open, and the screens that make single calls; the network, the database
instance, the registry, roles and logs, which are declarations without behaviour
here; developer scripts. A banner of an interrupted operation says that it was in
flight also for one that was reviewed and never sent (`MoveMoneyScreen.tsx:212`);
wording is not modelled. `PROJECT.json` lists every part with its status.

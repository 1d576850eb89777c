# Formal models of the bank transaction system

TLA+ models, TLC configurations and TLAPS proofs for the Transaction Service in
`src/backend` (FastAPI, SQLAlchemy, PostgreSQL, SQS). Paths below are relative to
`src/backend/app` unless they start with `src/`. "DESIGN" is
`src/documents/DESIGN_DOCUMENT.md`; the models are written from the code, never
from it.

```
tlc -workers 2 -config PaymentsRace.cfg PaymentsMC.tla    # a run
tlapm PaymentsProofs.tla                                  # the proofs of a module
```

## 1. The system and its parts

| Part | State it keeps | Operations that change it | Interacts with |
|---|---|---|---|
| Payments (`services/transaction_service.py`, `endpoints/accounts.py`, CRUD) | `accounts`, `cards`, `transactions`; the identity map of each request's `AsyncSession`; row locks | `create_transaction`, `process_scheduled_transaction`, `add_balance` | SQS (`services/sqs_service.py`) inside the transaction; scheduled execution |
| Scheduled execution (`endpoints/internal.py`) | one `AsyncSession` for a cron task, or for one call | `process_scheduled_transactions` (background task), `process_scheduled` | calls Payments; driven by an external Lambda |
| Archive (`services/archive_service.py`) | `transaction_history` | `copy_transactions_to_history` in a background task | reads `transactions` while Payments writes it |
| Sessions (`services/auth_service.py`, `deps.py`, `crud/audit_log.py`) | `sessions`, `session_history`, `audit_logs` | `login`, `logout`, `get_current_user` | guards every other endpoint |
| Onboarding (`services/user_service.py`, `endpoints/accounts.py`) | `users`, `accounts` rows, unique indexes | `register_customer`, `create_admin`, `admin_create_account` | creates the users and accounts of the other parts |
| Daily backup (`services/backup_service.py`) | none (a file or a snapshot outside) | `pg_dump` or an RDS snapshot | - |
| Back office and read endpoints (`endpoints/admin_backoffice.py`, `endpoints/transactions.py`, CRUD) | none of their own; a client keeps its offset | none; they list and open `transactions` | read what Payments writes, page by page |
| Validation, schemas, security helpers | none | - | decide which inputs the handlers see |
| Rate limiting, configuration, logging, migrations, seed script | counters of slowapi | - | wiring |
| Preprocessing worker, payment processor callback, Lambda | outside the repository | - | call the internal endpoints |

What is hard here, and what makes each part correct:

- **Payments.** Two requests overlap on one account, one card number or one
  scheduled row; each statement sees what is committed at that moment (READ
  COMMITTED); the `Account` instance in the identity map may be older than the
  row lock; `send_message` happens before the commit; a foreign key locks the
  account row as well. Correct means: the balance never leaves its range; a
  completed debit is deducted exactly once; no money is lost; rows are written
  once and executed at most once; a pending payment is in the queue; nobody pays
  with another customer's card; lock waits form no circle, and nothing but foreign keys
  that overtake it keeps a request from its end.
- **Scheduled execution.** One session is shared by a SELECT and many explicit
  transactions, and its tasks die with the process. Correct means: a due payment
  is executed at last.
- **Archive.** A copy is made of a snapshot while payments go on and other jobs
  run, and a restart may come between its statement and its commit. Correct means:
  a copy is true, is made at last, and is repeated only by jobs that overlap.
- **Sessions.** One row per user is upserted, selected and deleted by different
  keys. Correct means: logout is final, only the last login counts, and what a
  logout ends is on record.
- **Onboarding.** Identifiers are checked and inserted later. Correct means:
  identifiers stay unique, a customer appears together with an account, nobody has
  two accounts, and INSERTs do not wait for each other in a circle.
- **Reads.** Every page is a SELECT of its own, and OFFSET counts the rows of that
  moment. Correct means: a walk through the pages misses nothing that was there when
  it began, repeats a row only because a newer one came in, and lists only what its
  reader may open.

Every hazard is listed with its line and its properties in `PROJECT.json`.

## 2. Modules

| Module | Models |
|---|---|
| `Payments` | the payment core over PostgreSQL and SQS |
| `TransactionLifecycle` | abstract: what readers of `transactions` may see |
| `Ledger` | abstract: what a customer expects of balances; composes the lifecycle |
| `Scheduler` | the cron task and the endpoint for one transaction; composes the lifecycle |
| `Archive` | the archive job; composes the lifecycle |
| `Operations` | composes `Scheduler` and `Archive` over one table, adds restarts of the process |
| `Listing` | the endpoints that list and open transactions; composes the lifecycle |
| `Sessions` | login, logout, the bearer token dependency |
| `TokenLife` | abstract: what a client can rely on about its tokens |
| `Onboarding` | registration and account creation over unique indexes |
| `Registry` | abstract: what onboarding promises |
| `PaymentsMC`, `SchedulerMC`, `ArchiveMC`, `OperationsMC`, `ListingMC`, `SessionsMC`, `OnboardingMC` | small instances for TLC |
| `PaymentsTypes`, `PaymentsProofs`, `LedgerProofs`, `ArchiveProofs`, `OperationsProofs`, `ListingProofs`, `SessionsProofs`, `OnboardingProofs` | proofs |

`TransactionLifecycle` is the hinge: `Payments` implements it (checked and
proved), and `Archive`, `Scheduler` and `Listing` use its steps as the bank they
run beside.
A property of theirs is therefore about any bank that keeps that contract.

### Payments

A worker is one request with its own `AsyncSession`. An action is one stretch of
a handler between two points at which another request can be observed: a
statement that reads committed rows, one that takes a row lock, the call to SQS,
or a commit.

| State | Code |
|---|---|
| `balance` | `accounts.balance` (`models/account.py`), committed |
| `status`, `columns` | the `transactions` row (`models/transaction.py`) |
| `cardOwner`, `cardType` | the `cards` row, unique by `number_hmac` |
| `sent` | messages for a transaction in the queue; 2 stands for two or more |
| `accountLock`, `keyShare`, `rowLock`, `cardLock` | `FOR UPDATE`, `FOR KEY SHARE` of the foreign keys, updated rows, inserted cards |
| `orm`, `cached` | the `Account` instance of the identity map and its balance attribute |
| `draft` | the status a request has written and not committed |
| `job`, `pc` | the request and its next statement |
| `book`, `charged` | history variables for `Conservation` and `ChargedOnceIffCompleted` |

| Actions | Code |
|---|---|
| `Submit`; `CardFound`, `CardForeign`, `CardMissing`, `InsertCard`, `ReferenceCard`, `CommitCard`, `CardRaceLost` | `create_transaction` up to the end of `_resolve_card`, the first of its two transactions |
| `ReversalKnown`, `ReversalMissing`, `Route*`, `InsertRow` | the decision tree (`transaction_service.py:150-207`) |
| `Process`, `Claim`, `ClaimLost` | `process_scheduled_transaction`; the conditional UPDATE is the claim |
| `ProcessNational` | lock, balance check, deduction and status of `_process_national` |
| `Publish`, `Commit`, `Abort` | `send_message`, the commit, and every failure before it |
| `Deposit`, `AddBalance`, `AddBalanceOverflow` | `add_balance`; a sum that does not fit NUMERIC(19, 4) fails in the flush |

The INSERT of a card is two actions because PostgreSQL waits twice in it: `InsertCard`
makes the entry in the unique index and may wait for another request that is inserting
the same number; at the end of the statement the foreign key check, `ReferenceCard`,
waits for the account row while the entry is held.

`LoadAccount` is the rule the code trips over: a query that returns an account
whose instance is already in the identity map gives back that instance with its
old attributes, and `with_for_update()` without `populate_existing` is such a
query.

Abstractions: a customer is identified with the one account they own; card data,
descriptions and time stamps are left out; amounts are small natural numbers (the
columns are exact decimals, so only order and sums matter); a date is the boolean
`later`, and whether it has passed when the decision tree looks at the clock is a
choice. PostgreSQL is READ COMMITTED with row locks; its deadlock detector is not
modelled because `NoCircularWait` shows that it has nothing to detect. A lost
connection, a killed process or an SQS error is `Abort`, possible at any time
before the commit.

### Scheduler, Archive, Operations, Listing, Sessions, Onboarding

`Scheduler`: `begun` is whether the `AsyncSession` is inside a transaction, which
decides whether `db.begin()` is refused. `due` replaces the clock. `ListDue` is
`get_due_ids`, `Call` the endpoint for one id, `Execute`, `Conflict`,
`RolledBack` and `BeginRefused` the four results of one
`process_scheduled_transaction`, `Finish` the end of the session.

`Archive`: `Copy` is the INSERT ... SELECT with its snapshot, `Commit` and `Fail`
the end of the job's transaction. `history` keeps a sequence for each transaction,
so that a second copy is seen; `transaction_id` is not unique in the code.

`Operations`: EXTENDS `Archive` and takes `Scheduler` as an INSTANCE over the same
`status` and `columns`. `TaskStep` is a step of the bank or of a task and leaves the
warehouse alone, `JobStep` one of an archive job. `Restart` is the end of the
process: every task, call and job is gone at once, with what its session had not
committed, and what was committed stays. Nothing but the next trigger resumes them.

`Listing`: a reader's `walk` is what the client knows (filter, limit, offset) and
three history fields: what matched when the walk began, what was listed since, and
which rows were listed twice. `Page` is the SELECT: B are the rows that OFFSET skips,
P those it returns, and nothing orders rows with equal `created_at`. `Record` inserts a
row with any stamp, since `created_at` is taken before the commit and a younger
payment may commit first. Of the columns of a row only account, type and method are
told apart, and a filter is a set of admitted values for each of them, which stands
for any combination of query parameters; the account of `user_id` is looked up in the
query, so a user without an account matches no row. `processing` is no status here:
it is never committed. What is external is the client's part, `Advance` and `Leave`.

`Sessions`: the two SELECTs and the DELETE of a logout are three actions; the
second transaction of a login is one, because its only conflict is the upsert,
which waits for the row. `expired` is the set of tokens whose `expires_at` has
passed and replaces the clock. An expired token changes nothing: see section 6.
`TokenLife` is implemented with `active <- [u \in Users |-> Token(u)]`,
`issued <- loginEvents` and `ended <- logoutEvents \ {None}`: the second transaction of
a login is `Login`, the DELETE of a logout is `Logout`, all else is a stutter. A logout
may record another token of the user than the one it revokes; the abstract step says
so, because the code does (section 5).

`Onboarding`: the three checks are three actions, and so is every entry that the
INSERT makes in a unique index, because that is where it may wait for another
transaction (`Contested`). Entries are made in the order in which the constraints
were created (national id, email, phone:
`src/backend/alembic/versions/20260505_1545_initial_schema.py:40-42`). The
identifiers are numbers, since they are only compared. The state starts as
`src/backend/scripts/seed_admin.py` leaves it. Whether the loser of a race is
answered with 409 or with 500 is not told apart: either way nothing is written.

## 3. Runs

| Run | States | Shows |
|---|---|---|
| `payments_race` | 170 690 | Three overlapping requests on one account, with deferred payments, a reversal and a deposit that can overflow: the balance stays in range, charges match statuses, no circle of waits, only lifecycle steps; one message for a payment while no commit fails after `send_message`; a request that never ends is overtaken by foreign keys without a pause |
| `payments_routing` | 28 243 | Every branch of the decision tree and two customers who race for one card number with different types: pending payments are in the queue, no message for a payment that is already committed, cards keep owner and type |
| `payments_ledger` | 218 364 | Three overlapping requests on two accounts, as long as no copy of a balance is stale: no money is lost and the service implements `Ledger` |
| `operations_jobs` | 4 196 | Cron task, two calls, two archive jobs and restarts over one table: copies are true and at most one for each job that can overlap, a due payment is executed and archived at last |
| `listing_walks` | 315 464 | Walks through the pages beside payments: no gaps, repeats only for newer rows, what is listed can be opened |
| `sessions_race` | 63 868 | Three overlapping logins and logouts of one user: logout is final, the last login is the only one, `TokenLife` implemented; what a logout deletes is on record while no login is open inside a logout of its user |
| `onboarding_race` | 86 104 | Three overlapping registrations and account creations, identifiers shared crosswise: unique identifiers, no circle of waits, `Registry` implemented |
| `payments_lost_update` | violation | Two debits of the whole balance both complete |
| `payments_republish` | violation | A payment is published twice |
| `archive_overlap` | violation | Two overlapping jobs copy a transaction twice |
| `sessions_gap` | violation | A session ends without a record |
| `scheduler_cron` | violation | The cron task alone executes nothing |

**Bounds.** The bounds are the sizes of the constant sets, and the counters
`MaxDeposits` (deposits posted), `MaxAudits` (no login is blocked once the user has
this many audit entries), `MaxLimit` (the longest page), `Stamps` (the values of
`created_at`), and 2 as "two or more" messages in `sent`. They are enough for these reasons.

- A conflict over data in `Payments` is between two requests on one account, card or
  row. A third worker is there for the waits: a circle of three, and two requests that
  between them keep a third from a row. Two or three
  transactions let a row be created, executed and reversed. Balances of 2 with
  debits of 1 and 2 give a covered, an exactly covered and an uncovered debit; a
  deposit of 2 under a capacity of 3 fits or overflows.
- `payments_ledger` runs `FreshSpec`: requests on one account overlap and wait for each
  other as they do in `Spec`, and steps after which a copy would go stale are left out. It is
  what remains true once the stale read of `payments_lost_update` is excluded, and no
  more: the code does not exclude it.
- In `Sessions` an upsert, a logout's first SELECT and its second one involve three
  requests; three tokens and three row ids let a row be replaced and recreated.
- In `Onboarding` three forms that share three identifiers pairwise can form a
  circle of three, and a fourth meets the seeded administrator.
- `Archive` needs two jobs for an overlap, which `operations_jobs` has: one job, or its
  retried trigger, runs while another is open. `Operations` has one transaction and two
  calls that race for it, beside the task that fetches it: each
  step of a task, of a call or of NOT EXISTS is about one row. With two rows and two jobs
  the liveness check does not end in reasonable time; the safety properties are proved for
  any number of rows, jobs, tasks and calls. Restarts come between any two steps.
- In `Listing` three transactions with three stamps are one that was listed, one still
  to come, and one that is recorded above, between or below them; pages of one and two
  rows end full and not full. The four filters are everything, scheduled payments,
  completed ones since a date, and those of a user without an account.

**Conditional properties.** `PublishedOnceIfCommitted` and `LogoutsRecordedIfClear` have
the form `[]P => []Q`, and `FreshSpec` admits only steps to states with P: P names the one
thing that the violation runs `payments_republish`, `sessions_gap` and
`payments_lost_update` show to go wrong, and the property says that nothing else does. They
do not cover the hazard in P itself, which the violation runs show. P is a
condition on the behaviour and not on the instance, so requests overlap freely in these
runs, and P excludes only the states it names:

- `FreshCopies`: nobody is about to commit a balance of which another request holds a
  copy that it will check or change. Two payments on one account where one only
  records a row, a debit that waits with no copy in its session, failures and retries all
  satisfy it.
- `NoMessageOrphaned`: a message belongs to a row that is pending or is about to be
  committed as pending. Any number of workers may race for that row.
- `LoginsStayClear`: no login of a user is between its two transactions while a
  logout of that user is between its read of the token and its commit. Logouts may
  overlap each other, find the row gone or be aborted.

`sessions_race` uses symmetry. It is sound for `LogoutsRecordedIfClear`: both of its
predicates treat all workers, tokens and row ids alike, and no fairness is involved.

**Deadlock checking** is off where the instance runs out of transaction ids or
tokens, which is an end of the instance and not of the system: in the Payments and
Sessions runs. In Payments circular waits are checked by `NoCircularWait` instead. It is on
in the other runs.

**Fairness.** `Payments`: strong fairness of each worker's own step: the event
loop resumes a request whose awaited result is there, and PostgreSQL queues those who
want to lock or update the same row, so a request that is offered the row again and again
gets it. No fairness on new requests, nor on failures. That is not enough for every
request to end: those who wait for FOR UPDATE form a queue, but a foreign key that asks
for FOR KEY SHARE does not join it while only key shares are held. Two requests whose
inserts overlap again and again therefore keep a third from its debit, and the row is never
offered to it. With three workers TLC finds that behaviour against `Busy(w) ~> ~Busy(w)`.
`StarvedOnlyByReferences` is what the code gives: a request that never ends implies one
(`Overtaken`) that is kept from an account by foreign keys without a pause. `Archive`: the job is triggered
every night, and neither its statement nor its commit fails every night (strong
fairness on `Copy` and `Commit`). `Scheduler`: the Lambda triggers the task and
the calls again and again; a session is closed at last; a payment that is tried
again and again does not fail every time. `Operations` assumes both and no more:
there is no fairness on `Restart`, and what it cuts off is triggered again; the
conditions exclude only a process that dies each time before a payment or a job is
through. `scheduler_cron` is violated under the fairness of `Scheduler`, so it is not
for want of a trigger. `Sessions`, `Onboarding` and `Listing` state no liveness.

## 4. Proofs

All theorems hold for every value of the constants that satisfies the `ASSUME` of
the module, which TLC evaluates in the runs: the inputs have the types that
validation guarantees, and `None` is none of the ids.

| Theorem | Module | States |
|---|---|---|
| `TypeCorrect`, `NeverOverdrawn` | `PaymentsTypes` | `TypeOK`, `BalanceInRange` |
| `ChargedExactlyOnce`, `PendingPublished`, `DeadlockFree`, `CardsRespected` | `PaymentsProofs` | `ChargedOnceIffCompleted`, `PendingWasPublished`, `NoCircularWait`, `PaymentsMatchCards` |
| `ImplementsLifecycle` | `PaymentsProofs` | `Payments` implements `TransactionLifecycle` |
| `NeverPublishedAgain`, `PublishedOnce` | `PaymentsProofs` | `NoPublishAfterCommit`, `PublishedOnceIfCommitted` |
| `ConservedWhileFresh`, `LedgerWhileFresh` | `LedgerProofs` | `Conservation`, and `Payments` implements `Ledger` (`LedgerSpec`), for `FreshSpec` |
| `ArchiveTypes`, `WarehouseFaithful`, `CopiesNeverPileUp`, `ArchiveIdempotent` | `ArchiveProofs` | `TypeOK`, `HistoryFaithful`, `CopiesBounded`; `CopiedOnce` while open jobs hold disjoint batches |
| `SystemTypes`, `SystemWarehouseFaithful`, `SystemCopiesBounded`, `SystemIdempotent` | `OperationsProofs` | the same with tasks, calls and restarts beside the jobs |
| `ListingTypes`, `WalksLeaveNoGaps`, `WalksRepeatForNewRows`, `ListedRowsOpen` | `ListingProofs` | `TypeOK`, `NoGaps`, `RepeatsAreExplained`, `ListedCanBeOpened` |
| `SessionTypes`, `LoggedOutForGood`, `OneActiveSession` | `SessionsProofs` | `TypeOK`, `LogoutIsFinal`, `LatestLoginOnly` |
| `LogoutsRecorded` | `SessionsProofs` | `LogoutsRecordedIfClear` |
| `ImplementsTokenLife` | `SessionsProofs` | `Sessions` implements `TokenLife` |
| `OnboardingTypes`, `NoSharedIdentifiers`, `RegistrationsDoNotDeadlock`, `ImplementsRegistry` | `OnboardingProofs` | `TypeOK`, `IdentifiersUnique`, `SomeRequestRuns`; `Onboarding` implements `Registry` |

How the arguments go:

- **Payments.** `TypeInv` adds to the types what a session holds at each label
  (`SessionOK`). Nothing ties a stale `cached` balance to the row, so
  `BalanceInRange` rests on the range of `cached` itself: it was read from a
  balance in range and lowered only after the check, or raised to a sum that fits (`CachedInRange`). `RowInv` (who may write which
  row: `JobsOK`, `TxUnique`) is why two workers cannot execute one row. From it
  and what a draft status stands for, `ChargedExactlyOnce` and
  `PendingPublished` follow, and each commit is a step of the lifecycle. For `DeadlockFree`, `HoldersOK` says where a
  request stands when it holds a lock: whoever holds an account is about to commit,
  whoever holds a claimed row or a card entry waits for an account at most, and whoever
  waits for a row or an entry holds nothing. So in any set of requests (`LocksOrdered`) the
  one that is furthest in this order waits for none of the set. `CardInv` follows a card from resolution to the row.
- **Messages.** `PublisherOwnsRow`: a request that is about to publish holds the row
  lock of a row that is absent or still scheduled, so nobody publishes for a row that
  another request has committed (`NeverPublishedAgain`). For `PublishedOnce`, a message
  that is there already would, by `NoMessageOrphaned`, belong to a pending row, which
  `PublisherOwnsRow` excludes, or to another request about to commit the same row, which
  the row lock and the fresh id of a new row exclude.
- **Ledger.** `Current`: whoever is going to check or change a balance holds a copy that
  is the row's balance, less or plus what the request has done to it. It is inductive
  as long as `FreshCopies` holds: only a commit of another request on the account can
  break it, and the condition says that there is none. From it each commit changes
  `balance` as it changes `book`, and is a step of `Ledger`. Without
  the condition `Current` fails, which is what `payments_lost_update` shows.
- **Archive.** `Prepared`: a batch holds images of final transactions, as they
  still are; final rows never change (`PaymentsKeepOutcomes`, from the lifecycle).
  For `ArchiveIdempotent`, what a job has inserted is not in the warehouse: it was not
  when its statement ran, and a job that commits meanwhile holds other transactions, by
  `DisjointBatches`. Since a statement takes everything that is eligible, the condition
  means that jobs take turns, or overlap only when the earlier one found nothing to copy.
  Nothing in the code makes them; what holds without it is `CopiesBounded`. `Bounded`: the
  committed copies of a transaction and the open jobs that hold one are together no more than
  the jobs, since a statement takes only rows without a copy and a commit turns an open
  copy into a committed one.
- **Sessions.** `Aimed`: when the token a logout will record is still the live
  one, its row is the row the logout will delete. Upserts keep the primary key, so
  a replaced token only makes the logout record an old token, never keep a recorded
  one alive. For `LogoutsRecorded`, `ReadStillLive`: the session that a logout
  is about to delete, if there still is one, is the session whose token it has read.
  Only the commit of a login can break that, and `LoginsStayClear` excludes the ones
  that would; other logouts only remove the row. For `ImplementsTokenLife`, `LogoutIsFinal` after the step says that the
  token a logout records is not accepted any more, and `Known` that a fresh one is on
  no record.
- **Operations.** `TaskStepIsPayment`: a step of the cron task, of a call or of the
  clock does to the table what one step of `Archive`'s own bank does, or nothing, so
  the invariant of `Archive` carries over; a restart only forgets batches.
- **Listing.** `Unlisted`: a row that is still to come has at least `offset` younger
  matching rows, so OFFSET cannot skip it, whatever comes in: rows that match a stable
  filter go on matching it (`MatchingGrows`), so that number never falls, and an ordered
  page that skips B is followed by rows older than B (`PageSkips`). Rows with one stamp
  are told apart by nothing, so the argument is made for a row that is `Untied`; ties
  among the others do it no harm. For `RepeatsAreExplained`, `Seen`: a row that was listed
  is among the first `offset` rows, or newer rows that did not match at the beginning
  have come in above it (`Explained`), since rows that leave the filter only move it up
  (`Gone`); this needs no stable filter. For `ListedRowsOpen`, the filter of a customer's
  walk admits one account, and a row's account never changes.
- **Onboarding.** `EntriesFree`: an index entry stands for an identifier that no
  user has and nobody else inserts; so at commit all three are free. `JobOK` says
  that entries are made in order and which request has an account to commit;
  `IdsDiffer`, `OpenedFree` and `AccountsOwned` do for user ids and accounts what
  `EntriesFree` does for identifiers. For `RegistrationsDoNotDeadlock`: the holder
  of a phone entry has all its entries and does not wait; so the holder of an email
  entry, which waits only for a phone, does not; so neither does the holder of a
  national id.

Only model-checked: what needs fairness, which TLAPS does not prove
(`StarvedOnlyByReferences`, `OutcomesAreArchived`, `DueReachesWarehouse`). Every other property
that a passing run checks has a theorem.

## 5. Findings that a run shows

- `payments_lost_update`: `FOR UPDATE` locks the row and does not refresh the
  instance that an earlier query loaded. Overlapping debits overwrite each other,
  and a customer spends the balance twice
  (`services/transaction_service.py:328`; the same in `endpoints/accounts.py:64`).
  The stale copy is the only cause (`ConservedWhileFresh`).
  The balance never leaves its range all the same (`NeverOverdrawn`).
- `payments_republish`: the message goes out before the claim commits; "at-most-once
  processing" (`transaction_service.py:229-230`) holds for rows, not for messages.
  A failed commit is the only cause: workers that race do not publish twice (`PublishedOnce`).
- `archive_overlap`: NOT EXISTS does not see the uncommitted rows of another job,
  and `transaction_id` is not unique; "idempotent" holds for jobs that
  are not open at the same time with a transaction in common (`ArchiveIdempotent`), and jobs
  that are leave a copy each at most (`CopiesNeverPileUp`).
- `sessions_gap`: a login that commits between the two SELECTs of a logout: its new
  session is deleted and the old token is recorded. Such a login is the only way in which a
  logout deletes a session and does not record it (`LogoutsRecorded`).
- `scheduler_cron`: the SELECT of `get_due_ids` leaves the session inside a
  transaction, so each `db.begin()` that follows is refused and counted as an error;
  nothing is executed. `src/backend/tests/unit/services/test_internal_cron.py`
  replaces the session by a mock.

## 6. Divergences met that have no run

They show in a single sequential step, or nothing in the code contradicts them.

- `_cleanup_expired_session` (`deps.py:109`) is added to the background tasks of a
  request that then raises: the framework never runs it. Expired rows stay until
  the next login, although DESIGN:203 says that they are deleted on expiry and an
  `expired` event is described at `deps.py:36-37`.
- `models/audit_log.py:97-98` promises a `session_history` row on expiry: none is ever
  written. A session that a login replaces leaves no row of its end either, since the
  upsert overwrites it.
- The loser of a race for a new card number is answered with 500 (`CardRaceLost`): the
  rollback expires `current_user`, and the comparison after the re-fetch needs I/O where
  none is possible. `transaction_service.py:57-58` says that the race is "handled by catching
  IntegrityError, rolling back, and re-fetching".
- Requests on one account have no bound on their wait: foreign keys overtake a waiting
  FOR UPDATE (section 3). No document promises one.
- A message can name a payment whose commit failed: it is sent before the commit,
  where DESIGN:105-108 has it after.
- A login rejected with 401 writes no audit entry, where DESIGN:167 has every
  attempt audited; one rejected with 403 writes one.
- `process_scheduled` executes a row whose date has not come; DESIGN:145-150
  describes due rows only.
- A pending payment becomes final by a webhook (DESIGN:111) that is not in the
  repository.
- The loser of a registration race is answered with 409 only when the driver's error
  carries a constraint name; the loser in `admin_create_account` always with 500.
- Sessions live 15 minutes (`services/auth_service.py:23`), not the hour of DESIGN:200.
- There is no idempotency key: a client that repeats a POST pays twice.
- `ORDER BY created_at` has no tie-breaker (`crud/transaction.py:191`, `:236`). Two rows
  with one stamp may change places between two pages: without `Untied` in its premise
  `NoGaps` is violated in the same instance. No document promises stable pages.
- A walk with `status=scheduled` can skip rows, because executed payments leave the
  filter: without `Stable` in its premise `NoGaps` is violated as well.
- `get_due_ids` compares the naive UTC `scheduled_for` with `now()`
  (`crud/transaction.py:160`), which PostgreSQL does in the time zone of the session.
- `list_transactions` converts `status` and `type` by hand
  (`endpoints/admin_backoffice.py:65-66`): an unknown value is an uncaught error, not
  the 422 of the other parameters.
- A development backup that is repeated on the same day overwrites the earlier file
  before it is known to succeed (`services/backup_service.py:52-63`).

## 7. Not modelled

- Backup: one external call. Its state, the day's file or snapshot, is outside the
  program and never read by it, so there is nothing a second component could see go
  wrong; its two hazards are listed without a property.
- Input validation and schemas: pure functions; the models take valid inputs only.
- Security helpers: digests are model values that do not collide.
- Rate limits, configuration, logging, start-up, migrations: wiring; the models let
  a client call as often as it likes.
- The preprocessing worker, the processor's callback and the Lambda are not in the
  repository; the models let the internal endpoints be called at any time.

## 8. Plan

Order, the most important behaviour first. Done:

1. `Payments` with `TransactionLifecycle`, the races on one account; types, range,
   charges, lifecycle; proofs.
2. `Ledger` and conservation while no copy is stale; proofs.
3. `Archive` and `Sessions` with proofs; `Scheduler`.
4. `Onboarding` and `Registry` with proofs.
5. `Operations`: `Scheduler`, `Archive` and restarts over one table; a payment that comes
   due is executed and its outcome reaches the warehouse; proofs.
6. `TokenLife`, the refinement of `Sessions`; proof.
7. `Listing`, pages that are read beside payments; proofs.
8. What the violated promises are worth when the one cause of each violation is absent:
   balances, messages, session history, archive; proofs for overlapping requests.

What remains, and why it is not here:

- A session history in which every session has one beginning and one end: the code has
  no end for expired and for replaced sessions (section 6), so the abstract log would
  be one the code does not promise.
- Validators as operators: each is one comparison or one regular expression on one
  input, which unit tests cover and no interleaving reaches.

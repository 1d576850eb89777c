------------------------------- MODULE Payments -------------------------------
(***************************************************************************)
(* The payment core of the Transaction Service: POST /transactions,        *)
(* POST /internal/transactions/{id}/process and POST /accounts/add-balance *)
(* (services/transaction_service.py, endpoints/accounts.py) over the CRUD  *)
(* layer, PostgreSQL and the SQS queue.                                    *)
(*                                                                         *)
(* A worker is one request with its own AsyncSession.  An action is one    *)
(* stretch of a handler between two points at which other requests can be  *)
(* observed: a SQL statement that reads committed rows, takes a row lock   *)
(* or commits, or the call to SQS.  Rows that a request wrote and has not  *)
(* committed live in its own draft; only Commit and CommitCard change the  *)
(* tables.                                                                 *)
(***************************************************************************)
EXTENDS Integers

CONSTANTS
  Workers,      \* requests that can be in progress at the same time
  Accounts,     \* accounts; a customer is identified with the one account owned
  Cards,        \* card numbers (their HMAC digests)
  Txns,         \* transaction ids
  Requests,     \* the bodies customers post to /transactions
  Deposits,     \* the amounts posted to /accounts/add-balance
  Opening,      \* balance of each account at the start
  Capacity,     \* largest value of the NUMERIC(19, 4) balance column
  MaxDeposits,  \* bound: how many deposits are posted
  None          \* no worker, card, transaction, row or job

Methods == {"debit", "credit"}
Types == {"national", "international"}
Statuses == {"pending", "completed", "failed", "scheduled", "processing"}

\* A validated TransactionCreate payload with its authenticated customer.  The
\* schema admits only positive amounts; later says that scheduled_for is set.
Payloads ==
  [user: Accounts, card: Cards, card_type: Methods, amount: Nat \ {0},
   type: Types, later: BOOLEAN, reversal_of: Txns \cup {None}]

ASSUME PaymentsAssumption ==
  /\ Requests \subseteq Payloads
  /\ Deposits \subseteq Nat \ {0}
  /\ Capacity \in Nat
  /\ Opening \in [Accounts -> 0..Capacity]
  /\ MaxDeposits \in Nat
  /\ None \notin Workers /\ None \notin Accounts /\ None \notin Cards /\ None \notin Txns

VARIABLES
  balance,      \* accounts.balance, committed
  status,       \* transactions.status, committed; "absent" while there is no row
  columns,      \* the other columns of a transactions row, None while absent
  cardOwner,    \* cards.account_id, None while the card is unknown
  cardType,     \* cards.card_type, "none" while the card is unknown
  sent,         \* messages in the SQS queue for a transaction; 2 means two or more
  accountLock,  \* which worker holds SELECT ... FOR UPDATE on an accounts row
  keyShare,     \* which workers' foreign keys hold FOR KEY SHARE on an accounts row
  rowLock,      \* which worker has updated a transactions row and not committed
  cardLock,     \* which worker has inserted a cards row and not committed
  pc,           \* what each worker does next
  job,          \* what each worker is working on, None when idle
  orm,          \* the Account instance in the worker's identity map
  cached,       \* the balance attribute of that instance
  draft,        \* the status the worker has written and not committed
  deposits,     \* deposits posted so far
  book,         \* history: what the committed deposits and debits leave
  charged       \* history: committed deductions made for a transaction

tables == <<balance, status, columns>>
cardTable == <<cardOwner, cardType>>
locks == <<accountLock, keyShare, rowLock, cardLock>>
session == <<pc, job, orm, cached, draft>>
history == <<book, charged>>
vars == <<tables, cardTable, sent, locks, session, deposits, history>>

-----------------------------------------------------------------------------
(***************************************************************************)
(* Rows and jobs                                                           *)
(***************************************************************************)
Columns ==
  [origin: Accounts, card: Cards, amount: Nat \ {0}, type: Types,
   method: Methods, later: BOOLEAN, reversal_of: Txns \cup {None}]

\* A deposit is a job without a transaction and a card.
Jobs ==
  [tx: Txns \cup {None}, origin: Accounts, card: Cards \cup {None},
   amount: Nat \ {0}, type: Types \cup {"deposit"}, method: Methods \cup {"none"},
   later: BOOLEAN, reversal_of: Txns \cup {None}]

\* Mutant: crud_transaction.create without the card.
RowWithoutCard(j) ==
  [origin |-> j.origin, card |-> None, amount |-> j.amount, type |-> j.type,
   method |-> j.method, later |-> j.later, reversal_of |-> j.reversal_of]

Row(j) ==
  [origin |-> j.origin, card |-> j.card, amount |-> j.amount, type |-> j.type,
   method |-> j.method, later |-> j.later, reversal_of |-> j.reversal_of]

Busy(w) == pc[w] # "idle"

\* A uuid4 that no committed row, no message and no running request carries.
Fresh(t) ==
  /\ status[t] = "absent" /\ sent[t] = 0
  /\ \A w \in Workers : Busy(w) => job[w].tx # t

Init ==
  /\ balance = Opening
  /\ status = [t \in Txns |-> "absent"]
  /\ columns = [t \in Txns |-> None]
  /\ cardOwner = [c \in Cards |-> None]
  /\ cardType = [c \in Cards |-> "none"]
  /\ sent = [t \in Txns |-> 0]
  /\ accountLock = [a \in Accounts |-> None]
  /\ keyShare = [a \in Accounts |-> {}]
  /\ rowLock = [t \in Txns |-> None]
  /\ cardLock = [c \in Cards |-> None]
  /\ pc = [w \in Workers |-> "idle"]
  /\ job = [w \in Workers |-> None]
  /\ orm = [w \in Workers |-> "absent"]
  /\ cached = [w \in Workers |-> 0]
  /\ draft = [w \in Workers |-> "none"]
  /\ deposits = 0
  /\ book = Opening
  /\ charged = [t \in Txns |-> 0]

-----------------------------------------------------------------------------
(***************************************************************************)
(* The session: identity map, row locks, end of the request                *)
(***************************************************************************)

\* A SELECT that joins the account puts it into the identity map.  An instance
\* that is there already keeps its attributes, whatever the row holds now.
LoadAccount(w, a) ==
  /\ orm' = [orm EXCEPT ![w] = "clean"]
  /\ cached' = [cached EXCEPT ![w] = IF orm[w] = "absent" THEN balance[a] ELSE @]

\* SELECT ... FOR UPDATE waits for the other holders, foreign keys included.
AccountFree(w, a) == accountLock[a] = None /\ keyShare[a] \subseteq {w}

\* The INSERT of a row that references the account waits for FOR UPDATE.
ReferenceFree(w, a) == accountLock[a] \in {None, w}

Reference(w, a) == keyShare' = [keyShare EXCEPT ![a] = @ \cup {w}]

\* COMMIT and ROLLBACK release the row locks of the transaction.
ReleaseLocks(w) ==
  /\ accountLock' = [a \in Accounts |-> IF accountLock[a] = w THEN None ELSE accountLock[a]]
  /\ keyShare' = [a \in Accounts |-> keyShare[a] \ {w}]
  /\ rowLock' = [t \in Txns |-> IF rowLock[t] = w THEN None ELSE rowLock[t]]
  /\ cardLock' = [c \in Cards |-> IF cardLock[c] = w THEN None ELSE cardLock[c]]

EndRequest(w) ==
  /\ pc' = [pc EXCEPT ![w] = "idle"]
  /\ job' = [job EXCEPT ![w] = None]
  /\ orm' = [orm EXCEPT ![w] = "absent"]
  /\ cached' = [cached EXCEPT ![w] = 0]
  /\ draft' = [draft EXCEPT ![w] = "none"]

Goto(w, label) == pc' = [pc EXCEPT ![w] = label]

\* An exception that leaves "async with db.begin()": everything is rolled back.
Fail(w) == ReleaseLocks(w) /\ EndRequest(w)

-----------------------------------------------------------------------------
(***************************************************************************)
(* POST /transactions                                                      *)
(***************************************************************************)
Submit(w, r) ==
  /\ ~Busy(w)
  /\ \E t \in Txns :
       /\ Fresh(t)
       /\ job' = [job EXCEPT ![w] =
            [tx |-> t, origin |-> r.user, card |-> r.card, amount |-> r.amount,
             type |-> r.type, method |-> r.card_type, later |-> r.later,
             reversal_of |-> r.reversal_of]]
  /\ Goto(w, "resolve")
  /\ UNCHANGED <<tables, cardTable, sent, locks, orm, cached, draft, deposits, history>>

\* Mutant: a known card is charged the way the payload says.
CardFoundKeepsPayload(w) ==
  /\ pc[w] = "resolve" /\ cardOwner[job[w].card] = job[w].origin
  /\ LoadAccount(w, job[w].origin)
  /\ Goto(w, "route")
  /\ UNCHANGED <<tables, cardTable, sent, locks, job, draft, deposits, history>>

\* The card is known: its stored type decides the method, and the account that
\* get_by_hmac joins stays in the identity map after the read-only commit.
CardFound(w) ==
  /\ pc[w] = "resolve" /\ cardOwner[job[w].card] = job[w].origin
  /\ job' = [job EXCEPT ![w].method = cardType[job[w].card]]
  /\ LoadAccount(w, job[w].origin)
  /\ Goto(w, "route")
  /\ UNCHANGED <<tables, cardTable, sent, locks, draft, deposits, history>>

\* 403: the card belongs to another customer.
CardForeign(w) ==
  /\ pc[w] = "resolve" /\ cardOwner[job[w].card] \notin {None, job[w].origin}
  /\ Fail(w)
  /\ UNCHANGED <<tables, cardTable, sent, deposits, history>>

\* The card is unknown.  The account get_by_user loads is not referenced after
\* _resolve_card, so the weak identity map drops it.
CardMissing(w) ==
  /\ pc[w] = "resolve" /\ cardOwner[job[w].card] = None
  /\ Goto(w, "insert_card")
  /\ UNCHANGED <<tables, cardTable, sent, locks, job, orm, cached, draft, deposits, history>>

\* The INSERT makes its entry in the unique index of number_hmac, and waits for an
\* uncommitted INSERT of the same number.
InsertCard(w) ==
  LET c == job[w].card IN
  /\ pc[w] = "insert_card" /\ cardLock[c] = None /\ cardOwner[c] = None
  /\ cardLock' = [cardLock EXCEPT ![c] = w]
  /\ Goto(w, "reference_card")
  /\ UNCHANGED <<tables, cardTable, sent, accountLock, keyShare, rowLock, job, orm, cached,
                 draft, deposits, history>>

\* The end of the same INSERT checks the foreign key: holding the entry, it waits
\* for the account.
ReferenceCard(w) ==
  /\ pc[w] = "reference_card"
  /\ ReferenceFree(w, job[w].origin)
  /\ Reference(w, job[w].origin)
  /\ Goto(w, "commit_card")
  /\ UNCHANGED <<tables, cardTable, sent, accountLock, rowLock, cardLock, job, orm, cached,
                 draft, deposits, history>>

\* UNIQUE(number_hmac) fails.  The rollback expires current_user, and reading
\* current_user.id after the re-fetch needs I/O outside a greenlet: 500.
CardRaceLost(w) ==
  /\ pc[w] = "insert_card" /\ cardOwner[job[w].card] # None
  /\ Fail(w)
  /\ UNCHANGED <<tables, cardTable, sent, deposits, history>>

CommitCard(w) ==
  LET c == job[w].card IN
  /\ pc[w] = "commit_card"
  /\ cardOwner' = [cardOwner EXCEPT ![c] = job[w].origin]
  /\ cardType' = [cardType EXCEPT ![c] = job[w].method]
  /\ ReleaseLocks(w)
  /\ Goto(w, "route")
  /\ UNCHANGED <<tables, sent, job, orm, cached, draft, deposits, history>>

ReversalKnown(w) ==
  job[w].reversal_of \in {None} \cup {t \in Txns : status[t] # "absent"}

\* 404: the transaction to reverse does not exist.
ReversalMissing(w) ==
  /\ pc[w] = "route" /\ ~ReversalKnown(w)
  /\ Fail(w)
  /\ UNCHANGED <<tables, cardTable, sent, deposits, history>>

\* crud_transaction.create of a row that is not a national debit.
InsertRow(w, s, next) ==
  /\ ReferenceFree(w, job[w].origin)
  /\ Reference(w, job[w].origin)
  /\ draft' = [draft EXCEPT ![w] = s]
  /\ Goto(w, next)
  /\ UNCHANGED <<accountLock, rowLock, cardLock, orm, cached>>

\* Branch A: scheduled_for is still ahead of the clock read after the card.
RouteScheduled(w) ==
  /\ pc[w] = "route" /\ ReversalKnown(w) /\ job[w].later
  /\ InsertRow(w, "scheduled", "commit")
  /\ UNCHANGED <<tables, cardTable, sent, job, deposits, history>>

\* The other branches do not store scheduled_for: it was not posted, or it has
\* passed since the payload was validated.
Immediate(w) == job' = [job EXCEPT ![w].later = FALSE]

\* Mutant: the row is pending and nothing is published.
RouteInternationalUnpublished(w) ==
  /\ pc[w] = "route" /\ ReversalKnown(w) /\ job[w].type = "international"
  /\ InsertRow(w, "pending", "commit")
  /\ Immediate(w)
  /\ UNCHANGED <<tables, cardTable, sent, deposits, history>>

\* Mutant: an immediate payment stores the date it was posted with.
RouteInternationalKeepsDate(w) ==
  /\ pc[w] = "route" /\ ReversalKnown(w) /\ job[w].type = "international"
  /\ InsertRow(w, "pending", "publish")
  /\ UNCHANGED <<tables, cardTable, sent, job, deposits, history>>

\* Branch B: international, the message is published before the commit.
RouteInternational(w) ==
  /\ pc[w] = "route" /\ ReversalKnown(w) /\ job[w].type = "international"
  /\ InsertRow(w, "pending", "publish")
  /\ Immediate(w)
  /\ UNCHANGED <<tables, cardTable, sent, deposits, history>>

\* Mutant: every national payment is completed at once.
RouteCreditAnyMethod(w) ==
  /\ pc[w] = "route" /\ ReversalKnown(w) /\ job[w].type = "national"
  /\ InsertRow(w, "completed", "commit")
  /\ Immediate(w)
  /\ UNCHANGED <<tables, cardTable, sent, deposits, history>>

\* Branch C with a credit card: completed without a balance check.
RouteCredit(w) ==
  /\ pc[w] = "route" /\ ReversalKnown(w)
  /\ job[w].type = "national" /\ job[w].method = "credit"
  /\ InsertRow(w, "completed", "commit")
  /\ Immediate(w)
  /\ UNCHANGED <<tables, cardTable, sent, deposits, history>>

\* Mutant: the row is inserted before the account is locked.
RouteDebitInsertsFirst(w) ==
  /\ pc[w] = "route" /\ ReversalKnown(w)
  /\ job[w].type = "national" /\ job[w].method = "debit"
  /\ InsertRow(w, "processing", "lock")
  /\ Immediate(w)
  /\ UNCHANGED <<tables, cardTable, sent, deposits, history>>

\* Branch C with a debit card.  Reading the transaction to reverse joins its
\* account, which is the origin account when a customer reverses an own payment.
RouteDebit(w) ==
  LET r == job[w].reversal_of IN
  /\ pc[w] = "route" /\ ReversalKnown(w)
  /\ job[w].type = "national" /\ job[w].method = "debit"
  /\ IF r # None /\ columns[r].origin = job[w].origin
     THEN LoadAccount(w, job[w].origin)
     ELSE UNCHANGED <<orm, cached>>
  /\ Immediate(w)
  /\ Goto(w, "lock")
  /\ UNCHANGED <<tables, cardTable, sent, locks, draft, deposits, history>>

-----------------------------------------------------------------------------
(***************************************************************************)
(* POST /internal/transactions/{id}/process                                *)
(***************************************************************************)

\* crud_transaction.get joins the account: its balance is read before the claim.
Process(w, t) ==
  /\ ~Busy(w) /\ status[t] # "absent"
  /\ job' = [job EXCEPT ![w] =
       [tx |-> t, origin |-> columns[t].origin, card |-> columns[t].card,
        amount |-> columns[t].amount, type |-> columns[t].type,
        method |-> columns[t].method, later |-> columns[t].later,
        reversal_of |-> columns[t].reversal_of]]
  /\ LoadAccount(w, columns[t].origin)
  /\ Goto(w, "claim")
  /\ UNCHANGED <<tables, cardTable, sent, locks, draft, deposits, history>>

\* update_status writes the row once nobody else has it, and the branch follows.
ClaimRow(w) ==
  LET j == job[w] IN
  /\ rowLock[j.tx] = None
  /\ rowLock' = [rowLock EXCEPT ![j.tx] = w]
  /\ \/ /\ j.type = "international"
        /\ draft' = [draft EXCEPT ![w] = "pending"]
        /\ Goto(w, "publish")
     \/ /\ j.type = "national" /\ j.method = "credit"
        /\ draft' = [draft EXCEPT ![w] = "completed"]
        /\ Goto(w, "commit")
     \/ /\ j.type = "national" /\ j.method = "debit"
        /\ draft' = [draft EXCEPT ![w] = "processing"]
        /\ Goto(w, "lock")
  /\ UNCHANGED <<tables, cardTable, sent, accountLock, keyShare, cardLock, job, orm, cached,
                 deposits, history>>

\* Mutant: UPDATE without the condition on the status.
ClaimAnyStatus(w) == pc[w] = "claim" /\ ClaimRow(w)

\* UPDATE ... SET status = 'processing' WHERE status = 'scheduled': it waits for
\* the row and looks at the status again before it writes.
Claim(w) == pc[w] = "claim" /\ status[job[w].tx] = "scheduled" /\ ClaimRow(w)

\* Mutant: a claim that matched no row is tried again instead of answered.
ClaimLostRetries(w) ==
  /\ pc[w] = "claim" /\ rowLock[job[w].tx] = None /\ status[job[w].tx] # "scheduled"
  /\ UNCHANGED vars

\* 409: no row matched.
ClaimLost(w) ==
  /\ pc[w] = "claim" /\ rowLock[job[w].tx] = None /\ status[job[w].tx] # "scheduled"
  /\ Fail(w)
  /\ UNCHANGED <<tables, cardTable, sent, deposits, history>>

-----------------------------------------------------------------------------
(***************************************************************************)
(* The steps the handlers share                                            *)
(***************************************************************************)

\* Mutant: no comparison with the balance.
ProcessNationalUnchecked(w) ==
  LET a == job[w].origin
      seen == IF orm[w] = "absent" THEN balance[a] ELSE cached[w]
      covered == TRUE
  IN
  /\ pc[w] = "lock" /\ AccountFree(w, a)
  /\ accountLock' = [accountLock EXCEPT ![a] = w]
  /\ orm' = [orm EXCEPT ![w] = IF covered THEN "dirty" ELSE "clean"]
  /\ cached' = [cached EXCEPT ![w] = IF covered THEN seen - job[w].amount ELSE seen]
  /\ draft' = [draft EXCEPT ![w] = IF covered THEN "completed" ELSE "failed"]
  /\ Goto(w, "commit")
  /\ UNCHANGED <<tables, cardTable, sent, keyShare, rowLock, cardLock, job, deposits, history>>

\* Mutant: the whole balance cannot be spent.
ProcessNationalStrict(w) ==
  LET a == job[w].origin
      seen == IF orm[w] = "absent" THEN balance[a] ELSE cached[w]
      covered == seen > job[w].amount
  IN
  /\ pc[w] = "lock" /\ AccountFree(w, a)
  /\ accountLock' = [accountLock EXCEPT ![a] = w]
  /\ orm' = [orm EXCEPT ![w] = IF covered THEN "dirty" ELSE "clean"]
  /\ cached' = [cached EXCEPT ![w] = IF covered THEN seen - job[w].amount ELSE seen]
  /\ draft' = [draft EXCEPT ![w] = IF covered THEN "completed" ELSE "failed"]
  /\ Goto(w, "commit")
  /\ UNCHANGED <<tables, cardTable, sent, keyShare, rowLock, cardLock, job, deposits, history>>

\* Mutant: deduct_balance is not called.
ProcessNationalUndeducted(w) ==
  LET a == job[w].origin
      seen == IF orm[w] = "absent" THEN balance[a] ELSE cached[w]
      covered == seen >= job[w].amount
  IN
  /\ pc[w] = "lock" /\ AccountFree(w, a)
  /\ accountLock' = [accountLock EXCEPT ![a] = w]
  /\ orm' = [orm EXCEPT ![w] = IF covered THEN "dirty" ELSE "clean"]
  /\ cached' = [cached EXCEPT ![w] = IF covered THEN seen ELSE seen]
  /\ draft' = [draft EXCEPT ![w] = IF covered THEN "completed" ELSE "failed"]
  /\ Goto(w, "commit")
  /\ UNCHANGED <<tables, cardTable, sent, keyShare, rowLock, cardLock, job, deposits, history>>

\* _process_national for a debit card: get_with_lock, check, deduct.  The lock
\* is new, the instance in the identity map is not.
ProcessNational(w) ==
  LET a == job[w].origin
      seen == IF orm[w] = "absent" THEN balance[a] ELSE cached[w]
      covered == seen >= job[w].amount
  IN
  /\ pc[w] = "lock" /\ AccountFree(w, a)
  /\ accountLock' = [accountLock EXCEPT ![a] = w]
  /\ orm' = [orm EXCEPT ![w] = IF covered THEN "dirty" ELSE "clean"]
  /\ cached' = [cached EXCEPT ![w] = IF covered THEN seen - job[w].amount ELSE seen]
  /\ draft' = [draft EXCEPT ![w] = IF covered THEN "completed" ELSE "failed"]
  /\ Goto(w, "commit")
  /\ UNCHANGED <<tables, cardTable, sent, keyShare, rowLock, cardLock, job, deposits, history>>

\* send_message delivers the message.  The call may still raise (a lost answer),
\* and then the transaction is rolled back.
Publish(w) ==
  LET t == job[w].tx IN
  /\ pc[w] = "publish"
  /\ sent' = [sent EXCEPT ![t] = IF @ < 2 THEN @ + 1 ELSE @]
  /\ \/ Goto(w, "commit") /\ UNCHANGED <<locks, job, orm, cached, draft>>
     \/ Fail(w)
  /\ UNCHANGED <<tables, cardTable, deposits, history>>

\* The end of "async with db.begin()": flush the dirty account, write the row,
\* commit, release the locks; the answer (200, 201 or 402) follows.
Commit(w) ==
  LET j == job[w]
      dirty == orm[w] = "dirty"
      change == IF j.type = "deposit" THEN j.amount ELSE -j.amount
  IN
  /\ pc[w] = "commit"
  /\ balance' = IF dirty THEN [balance EXCEPT ![j.origin] = cached[w]] ELSE balance
  /\ book' = IF dirty THEN [book EXCEPT ![j.origin] = @ + change] ELSE book
  /\ IF draft[w] = "none"
     THEN UNCHANGED <<status, columns, charged>>
     ELSE /\ status' = [status EXCEPT ![j.tx] = draft[w]]
          /\ columns' = IF status[j.tx] = "absent"
                        THEN [columns EXCEPT ![j.tx] = Row(j)] ELSE columns
          /\ charged' = IF dirty THEN [charged EXCEPT ![j.tx] = @ + 1] ELSE charged
  /\ ReleaseLocks(w)
  /\ EndRequest(w)
  /\ UNCHANGED <<cardTable, sent, deposits>>

\* SQS refuses the message, the connection breaks, or the process dies: what
\* was not committed is gone.
Abort(w) ==
  /\ Busy(w)
  /\ Fail(w)
  /\ UNCHANGED <<tables, cardTable, sent, deposits, history>>

-----------------------------------------------------------------------------
(***************************************************************************)
(* POST /accounts/add-balance                                              *)
(***************************************************************************)

\* get_by_user reads the account; it is still referenced when the lock is taken.
Deposit(w, a, n) ==
  /\ ~Busy(w) /\ deposits < MaxDeposits
  /\ deposits' = deposits + 1
  /\ job' = [job EXCEPT ![w] =
       [tx |-> None, origin |-> a, card |-> None, amount |-> n, type |-> "deposit",
        method |-> "none", later |-> FALSE, reversal_of |-> None]]
  /\ LoadAccount(w, a)
  /\ Goto(w, "credit")
  /\ UNCHANGED <<tables, cardTable, sent, locks, draft, history>>

AddBalance(w) ==
  LET a == job[w].origin IN
  /\ pc[w] = "credit" /\ AccountFree(w, a)
  /\ cached[w] + job[w].amount <= Capacity
  /\ accountLock' = [accountLock EXCEPT ![a] = w]
  /\ orm' = [orm EXCEPT ![w] = "dirty"]
  /\ cached' = [cached EXCEPT ![w] = @ + job[w].amount]
  /\ Goto(w, "commit")
  /\ UNCHANGED <<tables, cardTable, sent, keyShare, rowLock, cardLock, job, draft, deposits,
                 history>>

\* 500: the sum does not fit the column, the flush fails.
AddBalanceOverflow(w) ==
  /\ pc[w] = "credit" /\ AccountFree(w, job[w].origin)
  /\ cached[w] + job[w].amount > Capacity
  /\ Fail(w)
  /\ UNCHANGED <<tables, cardTable, sent, deposits, history>>

-----------------------------------------------------------------------------
Start(w) ==
  \/ \E r \in Requests : Submit(w, r)
  \/ \E t \in Txns : Process(w, t)
  \/ \E a \in Accounts, n \in Deposits : Deposit(w, a, n)

ResolveCard(w) ==
  CardFound(w) \/ CardForeign(w) \/ CardMissing(w) \/ InsertCard(w) \/ ReferenceCard(w)
    \/ CardRaceLost(w) \/ CommitCard(w)

Route(w) ==
  ReversalMissing(w) \/ RouteScheduled(w) \/ RouteInternational(w) \/ RouteCredit(w)
    \/ RouteDebit(w)

\* The steps of a request that has started, without faults.
Step(w) ==
  \/ ResolveCard(w)
  \/ Route(w)
  \/ Claim(w) \/ ClaimLost(w)
  \/ ProcessNational(w) \/ AddBalance(w) \/ AddBalanceOverflow(w)
  \/ Publish(w)
  \/ Commit(w)

Next == \E w \in Workers : Start(w) \/ Step(w) \/ Abort(w)

Spec == Init /\ [][Next]_vars

\* w is going to check or to change a balance of which it holds a copy.
HoldsCopy(w) ==
  /\ orm[w] # "absent"
  /\ \/ job[w].type = "deposit"
     \/ job[w].type = "national" /\ job[w].method = "debit" /\ draft[w] # "scheduled"

\* Nobody changes the balance of which another request holds such a copy.
FreshCopies ==
  \A v, w \in Workers :
    v # w /\ orm[v] = "dirty" /\ HoldsCopy(w) => job[v].origin # job[w].origin

\* The behaviours in which nobody changes a balance of which another request holds a
\* copy: requests on one account overlap, wait and fail, but no copy is stale.
FreshSpec == Init /\ [][Next /\ FreshCopies']_vars

\* The event loop resumes every request.  PostgreSQL queues those who wait for the
\* same row or index entry, so one that becomes free again and again is obtained.
Fairness == \A w \in Workers : SF_vars(Step(w))

FairSpec == Spec /\ Fairness

-----------------------------------------------------------------------------
(***************************************************************************)
(* Properties                                                              *)
(***************************************************************************)
Labels ==
  {"idle", "resolve", "insert_card", "reference_card", "commit_card", "route", "claim", "lock",
   "credit", "publish", "commit"}

TablesType ==
  /\ balance \in [Accounts -> Int]
  /\ status \in [Txns -> Statuses \cup {"absent"}]
  /\ columns \in [Txns -> Columns \cup {None}]
  /\ cardOwner \in [Cards -> Accounts \cup {None}]
  /\ cardType \in [Cards -> Methods \cup {"none"}]
  /\ sent \in [Txns -> 0..2]

LocksType ==
  /\ accountLock \in [Accounts -> Workers \cup {None}]
  /\ keyShare \in [Accounts -> SUBSET Workers]
  /\ rowLock \in [Txns -> Workers \cup {None}]
  /\ cardLock \in [Cards -> Workers \cup {None}]

SessionType ==
  /\ pc \in [Workers -> Labels]
  /\ job \in [Workers -> Jobs \cup {None}]
  /\ orm \in [Workers -> {"absent", "clean", "dirty"}]
  /\ cached \in [Workers -> Int]
  /\ draft \in [Workers -> Statuses \cup {"none"}]

HistoryType ==
  /\ deposits \in 0..MaxDeposits
  /\ book \in [Accounts -> Int]
  /\ charged \in [Txns -> Nat]

\* Every variable has the type the tables, the session and the history give it.
TypeOK == TablesType /\ LocksType /\ SessionType /\ HistoryType

\* No account is ever overdrawn or overflows its column, although the balance
\* that _process_national checks and writes back can be older than its lock.
BalanceInRange == \A a \in Accounts : balance[a] \in 0..Capacity

\* A committed pending payment has been handed to the queue, whatever fails
\* between the INSERT, send_message and the commit.
PendingWasPublished == \A t \in Txns : status[t] = "pending" => sent[t] > 0

\* The deduction and the status are committed together and once: a row is
\* completed by a national debit exactly when one deduction was made for it,
\* also when several workers process the same scheduled row.
ChargedOnceIffCompleted ==
  \A t \in Txns :
    charged[t] = IF /\ status[t] = "completed"
                    /\ columns[t].type = "national" /\ columns[t].method = "debit"
                 THEN 1 ELSE 0

\* A payment leaves the account that owns its card and follows the card's
\* stored type, whoever registered the card and whatever the payload said.
PaymentsMatchCards ==
  \A t \in Txns :
    status[t] # "absent" =>
      /\ cardOwner[columns[t].card] = columns[t].origin
      /\ cardType[columns[t].card] = columns[t].method

\* The next statement of w needs a row or an index entry that v holds.
WaitsFor(w, v) ==
  LET j == job[w] IN
  /\ v # w
  /\ \/ pc[w] \in {"lock", "credit"} /\ (accountLock[j.origin] = v \/ v \in keyShare[j.origin])
     \/ pc[w] = "claim" /\ rowLock[j.tx] = v
     \/ pc[w] = "insert_card" /\ cardOwner[j.card] = None /\ cardLock[j.card] = v
     \/ pc[w] = "reference_card" /\ accountLock[j.origin] = v
     \/ pc[w] = "route" /\ ReversalKnown(w) /\ accountLock[j.origin] = v
          /\ ~(j.type = "national" /\ j.method = "debit")

\* No requests wait for each other in a circle, over the rows of accounts and
\* transactions and the entries of cards together: in every set of requests one
\* waits for none of the set.
NoCircularWait ==
  \A S \in (SUBSET Workers) \ {{}} : \E w \in S : \A v \in S : ~WaitsFor(w, v)

\* The balance is what the committed deposits and completed debits leave.
Conservation == balance = book

\* At-most-once processing: a transaction is handed to the queue once.
PublishedAtMostOnce == \A t \in Txns : sent[t] <= 1

\* A message belongs to a pending payment, or to one that is about to be committed
\* as pending: no commit has failed after send_message.
NoMessageOrphaned ==
  \A t \in Txns :
    sent[t] > 0 => \/ status[t] = "pending"
                   \/ \E w \in Workers :
                        pc[w] = "commit" /\ draft[w] = "pending" /\ job[w].tx = t

\* A commit that fails after send_message is the only way to a second message:
\* overlapping calls for one transaction cannot make one.
PublishedOnceIfCommitted == []NoMessageOrphaned => []PublishedAtMostOnce

\* Once a payment has been executed nobody puts it into the queue any more, not
\* even a request that looked at the row while it was scheduled.
NoPublishAfterCommit ==
  [][\A t \in Txns : status[t] \notin {"absent", "scheduled"} => sent'[t] = sent[t]]_vars

Lifecycle == INSTANCE TransactionLifecycle
LedgerView == INSTANCE Ledger

\* The table changes only as TransactionLifecycle allows.
LifecycleSpec == Lifecycle!Spec

\* The balances and the table together behave as Ledger.
LedgerSpec == LedgerView!Spec

\* Others hold the account of w by foreign keys alone.  They let each other pass a
\* waiting FOR UPDATE, so together they can keep w from the row without a pause.
Overtaken(w) ==
  pc[w] \in {"lock", "credit"} /\ keyShare[job[w].origin] \ {w} # {}

\* Every request comes to an end unless, from some time on, INSERTs that reference an
\* account overtake a FOR UPDATE of it without a pause: nobody waits for ever for
\* a claimed row, a card entry, the lock of another debit or a request that waits.
StarvedOnlyByReferences ==
  \A w \in Workers : <>[]Busy(w) => \E v \in Workers : <>[]Overtaken(v)

=============================================================================

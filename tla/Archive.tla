-------------------------------- MODULE Archive --------------------------------
(***************************************************************************)
(* POST /internal/jobs/archive-transactions: a background job copies the   *)
(* completed and failed transactions to transaction_history with one       *)
(* INSERT ... SELECT ... WHERE NOT EXISTS.  The transactions themselves    *)
(* are those of TransactionLifecycle, which Payments implements.           *)
(***************************************************************************)
EXTENDS Integers, Sequences, FiniteSets

CONSTANTS
  Txns,     \* transaction ids
  Columns,  \* what a transactions row records besides its status
  Jobs,     \* archive jobs that can run at the same time
  None      \* no columns, no batch

ASSUME ArchiveAssumption == None \notin Columns /\ IsFiniteSet(Jobs)

VARIABLES
  status, columns,  \* the transactions table
  history,          \* transaction_history: the committed copies of each transaction
  batch             \* the rows each job has inserted and not committed, None when idle

vars == <<status, columns, history, batch>>

Bank == INSTANCE TransactionLifecycle

Final == {"completed", "failed"}

\* What a copy holds of its transaction.  type, method and status are stored as
\* text, the date also as year, month, day and hour: no two values are confused.
Image(t) == [status |-> status[t], columns |-> columns[t]]

Init ==
  /\ Bank!Init
  /\ columns = [t \in Txns |-> None]
  /\ history = [t \in Txns |-> <<>>]
  /\ batch = [j \in Jobs |-> None]

\* A payment is recorded or executed.
Transact(t) ==
  /\ Bank!Execute(t) \/ \E c \in Columns : Bank!Insert(t, c)
  /\ UNCHANGED <<history, batch>>

\* Mutant: every transaction is copied, whatever its status.
EligibleAnyStatus == {t \in Txns : status[t] # "absent" /\ history[t] = <<>>}

\* Mutant: no NOT EXISTS.
EligibleAgain == {t \in Txns : status[t] \in Final}

\* Mutant: declined payments are not copied.
EligibleCompleted == {t \in Txns : status[t] = "completed" /\ history[t] = <<>>}

\* Final transactions of which the job sees no committed copy.
Eligible == {t \in Txns : status[t] \in Final /\ history[t] = <<>>}

\* The statement reads one snapshot and inserts the copies.
Copy(j) ==
  /\ batch[j] = None
  /\ batch' = [batch EXCEPT ![j] = [t \in Eligible |-> Image(t)]]
  /\ UNCHANGED <<status, columns, history>>

\* transaction_id is not unique: the copies of another job do not matter.
Commit(j) ==
  /\ batch[j] # None
  /\ history' = [t \in Txns |-> IF t \in DOMAIN batch[j] THEN Append(history[t], batch[j][t])
                                ELSE history[t]]
  /\ batch' = [batch EXCEPT ![j] = None]
  /\ UNCHANGED <<status, columns>>

\* A database error or the end of the process: the job only logs it.
Fail(j) ==
  /\ batch[j] # None
  /\ batch' = [batch EXCEPT ![j] = None]
  /\ UNCHANGED <<status, columns, history>>

Next == (\E t \in Txns : Transact(t)) \/ (\E j \in Jobs : Copy(j) \/ Commit(j) \/ Fail(j))

Spec == Init /\ [][Next]_vars

\* The job is triggered every night and does not fail every night.
Fairness == SF_vars(\E j \in Jobs : Copy(j)) /\ SF_vars(\E j \in Jobs : Commit(j))

-----------------------------------------------------------------------------
Images == [status : Final, columns : Columns]

\* A batch is what one statement inserted: an image for some of the transactions.
Batches == UNION {[S -> Images] : S \in SUBSET Txns}

TypeOK ==
  /\ status \in [Txns -> Final \cup {"absent", "scheduled", "pending"}]
  /\ columns \in [Txns -> Columns \cup {None}]
  /\ history \in [Txns -> Seq(Images)]
  /\ batch \in [Jobs -> Batches \cup {None}]

\* The warehouse never contradicts the bank: each copy still equals its
\* transaction, although it was read before payments that committed later.
HistoryFaithful == \A t \in Txns : \A i \in 1..Len(history[t]) : history[t][i] = Image(t)

\* Idempotency: a transaction is copied once, however often the job runs.
CopiedOnce == \A t \in Txns : Len(history[t]) <= 1

\* NOT EXISTS fails only for jobs that overlap: a transaction has at most one copy for
\* each job that can run at the same time, however often jobs are triggered, fail and
\* run again.
CopiesBounded == \A t \in Txns : Len(history[t]) <= Cardinality(Jobs)

\* No two open jobs have inserted a copy of the same transaction.  A statement takes
\* all that is eligible, so jobs take turns, or the earlier one found nothing.
DisjointBatches ==
  \A i, j \in Jobs :
    i # j /\ batch[i] # None /\ batch[j] # None => DOMAIN batch[i] \cap DOMAIN batch[j] = {}

\* Every payment that was completed or declined reaches the warehouse, whatever
\* fails in between.
OutcomesAreArchived == \A t \in Txns : status[t] \in Final ~> history[t] # <<>>
=============================================================================

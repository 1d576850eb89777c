------------------------------- MODULE Scheduler -------------------------------
(***************************************************************************)
(* Who executes a deferred payment when its date has come:                 *)
(* POST /internal/cron/process-scheduled, whose background task goes over  *)
(* the due rows with one AsyncSession, and POST                            *)
(* /internal/transactions/{id}/process, one row with a session of its own. *)
(* The payments themselves are those of TransactionLifecycle, which        *)
(* Payments implements.                                                    *)
(***************************************************************************)
CONSTANTS
  Txns,     \* transaction ids
  Columns,  \* what a transactions row records besides its status
  Crons,    \* cron tasks that can run at the same time
  Calls,    \* calls for one transaction that can be in progress at the same time
  None      \* no columns

VARIABLES
  status, columns,  \* the transactions table
  due,              \* transactions whose scheduled_for has passed
  running,          \* tasks and calls that are in progress
  todo,             \* the ids a task or a call still has to process
  begun             \* whether its AsyncSession is inside a transaction

vars == <<status, columns, due, running, todo, begun>>

Bank == INSTANCE TransactionLifecycle

Sessions == Crons \cup Calls

Init ==
  /\ Bank!Init
  /\ columns = [t \in Txns |-> None]
  /\ due = {}
  /\ running = {}
  /\ todo = [s \in Sessions |-> {}]
  /\ begun = [s \in Sessions |-> FALSE]

\* A customer posts a payment.
Post(t) ==
  /\ \E c \in Columns : Bank!Insert(t, c)
  /\ UNCHANGED <<due, running, todo, begun>>

\* The date of a deferred payment passes.
ComeDue(t) ==
  /\ status[t] = "scheduled" /\ t \notin due
  /\ due' = due \cup {t}
  /\ UNCHANGED <<status, columns, running, todo, begun>>

\* get_due_ids.  Its SELECT begins the transaction that the session stays in.
ListDue(s) ==
  /\ s \notin running
  /\ running' = running \cup {s}
  /\ todo' = [todo EXCEPT ![s] = {t \in due : status[t] = "scheduled"}]
  /\ begun' = [begun EXCEPT ![s] = TRUE]
  /\ UNCHANGED <<status, columns, due>>

\* Mutant: the row is read before db.begin().
CallReadsFirst(s, t) ==
  /\ s \notin running /\ status[t] # "absent"
  /\ running' = running \cup {s}
  /\ todo' = [todo EXCEPT ![s] = {t}]
  /\ begun' = [begun EXCEPT ![s] = TRUE]
  /\ UNCHANGED <<status, columns, due>>

\* The internal endpoint takes any id; the claim does not look at scheduled_for.
Call(s, t) ==
  /\ s \notin running /\ status[t] # "absent"
  /\ running' = running \cup {s}
  /\ todo' = [todo EXCEPT ![s] = {t}]
  /\ begun' = [begun EXCEPT ![s] = FALSE]
  /\ UNCHANGED <<status, columns, due>>

\* One id is done with, and its transaction is open or not.
Done(s, t, open) ==
  /\ todo' = [todo EXCEPT ![s] = @ \ {t}]
  /\ begun' = [begun EXCEPT ![s] = open]
  /\ UNCHANGED <<columns, due, running>>

\* process_scheduled_transaction commits the payment.  The refresh that follows
\* begins another transaction.
Execute(s, t) ==
  /\ t \in todo[s] /\ ~begun[s]
  /\ Bank!Execute(t)
  /\ Done(s, t, TRUE)

\* 409: somebody else executed it.
Conflict(s, t) ==
  /\ t \in todo[s] /\ ~begun[s] /\ status[t] # "scheduled"
  /\ Done(s, t, FALSE)
  /\ UNCHANGED status

\* The payment fails and is rolled back: SQS or the database refuses it.
RolledBack(s, t) ==
  /\ t \in todo[s] /\ ~begun[s] /\ status[t] = "scheduled"
  /\ Done(s, t, FALSE)
  /\ UNCHANGED status

\* db.begin() refuses a session that is inside a transaction.  The task counts
\* an error and goes on with the next id.
BeginRefused(s, t) ==
  /\ t \in todo[s] /\ begun[s]
  /\ Done(s, t, TRUE)
  /\ UNCHANGED status

\* The session is closed: the task or call is over, or its process died.
Finish(s) ==
  /\ s \in running
  /\ running' = running \ {s}
  /\ todo' = [todo EXCEPT ![s] = {}]
  /\ begun' = [begun EXCEPT ![s] = FALSE]
  /\ UNCHANGED <<status, columns, due>>

Process(s, t) == Execute(s, t) \/ Conflict(s, t) \/ RolledBack(s, t) \/ BeginRefused(s, t)

Next ==
  \/ \E t \in Txns : Post(t) \/ ComeDue(t)
  \/ \E s \in Crons : ListDue(s)
  \/ \E s \in Calls, t \in Txns : Call(s, t)
  \/ \E s \in Sessions, t \in Txns : Process(s, t)
  \/ \E s \in Sessions : Finish(s)

Spec == Init /\ [][Next]_vars

\* The Lambda triggers the cron task and calls for each transaction again and
\* again, every session is closed at last, and a payment does not always fail.
Fairness ==
  /\ \A s \in Crons : SF_vars(ListDue(s))
  /\ \A s \in Calls, t \in Txns : SF_vars(Call(s, t))
  /\ \A s \in Sessions : WF_vars(Finish(s))
  /\ \A s \in Sessions, t \in Txns : SF_vars(Execute(s, t))

FairSpec == Spec /\ Fairness

-----------------------------------------------------------------------------
\* Every due payment is executed: it does not stay scheduled for ever.
DueIsExecuted == \A t \in Txns : t \in due ~> status[t] # "scheduled"
=============================================================================

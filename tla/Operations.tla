------------------------------ MODULE Operations ------------------------------
(***************************************************************************)
(* The background work of the API process over one transactions table: the *)
(* cron task and the calls that execute deferred payments (Scheduler)      *)
(* beside the jobs that archive their outcomes (Archive), and the restart  *)
(* of the process, which cuts all of it off at once.                       *)
(***************************************************************************)
EXTENDS Archive

CONSTANTS
  Crons,    \* cron tasks that can run at the same time
  Calls     \* calls for one transaction that can be in progress at the same time

ASSUME OperationsAssumption == Crons \cap Calls = {}

VARIABLES
  due,      \* transactions whose scheduled_for has passed
  running,  \* tasks and calls that are in progress
  todo,     \* the ids a task or a call still has to process
  begun     \* whether its AsyncSession is inside a transaction

taskVars == <<due, running, todo, begun>>
systemVars == <<vars, taskVars>>

Tasks == INSTANCE Scheduler

SystemInit == Init /\ Tasks!Init

\* A payment is posted, comes due or is executed, or a task makes a step.
TaskStep == Tasks!Next /\ UNCHANGED <<history, batch>>

JobStep(j) == (Copy(j) \/ Commit(j) \/ Fail(j)) /\ UNCHANGED taskVars

\* BackgroundTasks live in the process: it dies or is redeployed, PostgreSQL rolls
\* back what its sessions had not committed, and nothing resumes the tasks.
Restart ==
  /\ running' = {}
  /\ todo' = [s \in Tasks!Sessions |-> {}]
  /\ begun' = [s \in Tasks!Sessions |-> FALSE]
  /\ batch' = [j \in Jobs |-> None]
  /\ UNCHANGED <<status, columns, history, due>>

SystemNext == TaskStep \/ (\E j \in Jobs : JobStep(j)) \/ Restart

SystemSpec == SystemInit /\ [][SystemNext]_systemVars

\* What each part assumes of its triggers; in particular the process does not
\* die every time before a payment or an archive job is through.
FairSystem == SystemSpec /\ Tasks!Fairness /\ Fairness

-----------------------------------------------------------------------------
\* A payment that comes due is executed, and unless it then waits for the
\* processor, its outcome reaches the warehouse, whatever fails on the way.
DueReachesWarehouse ==
  \A t \in Txns : t \in due ~> (status[t] = "pending" \/ history[t] # <<>>)
=============================================================================

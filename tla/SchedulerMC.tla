----------------------------- MODULE SchedulerMC -----------------------------
EXTENDS Scheduler

CONSTANTS c1, l1, l2, t1, t2

\* A deferred debit, a deferred international payment and an immediate one.
SomeColumns ==
  { [type |-> "national", method |-> "debit", later |-> TRUE],
    [type |-> "international", method |-> "debit", later |-> TRUE],
    [type |-> "national", method |-> "credit", later |-> FALSE] }
=============================================================================

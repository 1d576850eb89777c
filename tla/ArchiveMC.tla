------------------------------- MODULE ArchiveMC -------------------------------
EXTENDS Archive

CONSTANTS j1, j2, t1, t2, t3

\* An immediate debit, a deferred credit payment and a deferred international one.
SomeColumns ==
  { [type |-> "national", method |-> "debit", later |-> FALSE],
    [type |-> "national", method |-> "credit", later |-> TRUE],
    [type |-> "international", method |-> "debit", later |-> TRUE] }
=============================================================================

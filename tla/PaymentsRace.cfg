\* Three overlapping requests on one account: debits, deferred payments, a reversal, a deposit.
CONSTANTS
  w1 = w1
  w2 = w2
  w3 = w3
  a1 = a1
  a2 = a2
  visa = visa
  amex = amex
  t1 = t1
  t2 = t2
  t3 = t3
  None = None
  Workers = {w1, w2, w3}
  Accounts = {a1}
  Cards = {visa}
  Txns = {t1, t2}
  Requests <- RaceRequests
  Deposits = {2}
  Opening <- OneAccount
  Capacity = 3
  MaxDeposits = 1
SPECIFICATION FairSpec
INVARIANTS
  TypeOK
  BalanceInRange
  ChargedOnceIffCompleted
  NoCircularWait
PROPERTIES
  StarvedOnlyByReferences
  LifecycleSpec
  PublishedOnceIfCommitted
CHECK_DEADLOCK FALSE

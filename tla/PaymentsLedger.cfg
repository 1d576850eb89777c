\* Overlapping requests on two accounts that use no stale copy of a balance.
CONSTANTS
  w1 = w1
  w2 = w2
  w3 = w3
  a1 = a1
  a2 = a2
  visa = visa
  amex = amex
  t1 = t1
  t2 = t2
  t3 = t3
  None = None
  Workers = {w1, w2, w3}
  Accounts = {a1, a2}
  Cards = {visa, amex}
  Txns = {t1, t2, t3}
  Requests <- LedgerRequests
  Deposits = {1}
  Opening <- OneAccount
  Capacity = 3
  MaxDeposits = 2
SPECIFICATION FreshSpec
SYMMETRY RoutingSymmetry
INVARIANTS
  Conservation
PROPERTIES
  LedgerSpec
CHECK_DEADLOCK FALSE

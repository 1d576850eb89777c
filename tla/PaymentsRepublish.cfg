\* A scheduled international payment whose commit fails after the message was sent.
CONSTANTS
  w1 = w1
  w2 = w2
  w3 = w3
  a1 = a1
  a2 = a2
  visa = visa
  amex = amex
  t1 = t1
  t2 = t2
  t3 = t3
  None = None
  Workers = {w1}
  Accounts = {a1}
  Cards = {visa}
  Txns = {t1, t2}
  Requests <- DeferredInternational
  Deposits = {}
  Opening <- OneAccount
  Capacity = 2
  MaxDeposits = 0
SPECIFICATION Spec
INVARIANTS
  PublishedAtMostOnce
CHECK_DEADLOCK FALSE

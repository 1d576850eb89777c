\* The cron task and two calls for one transaction, two archive jobs, with restarts.
CONSTANTS
  c1 = c1
  l1 = l1
  l2 = l2
  j1 = j1
  j2 = j2
  t1 = t1
  None = None
  Txns = {t1}
  Columns <- SomeColumns
  Jobs = {j1, j2}
  Crons = {c1}
  Calls = {l1, l2}
SPECIFICATION FairSystem
INVARIANTS
  TypeOK
  HistoryFaithful
  CopiesBounded
PROPERTIES
  OutcomesAreArchived
  DueReachesWarehouse

\* Only the cron task.
CONSTANTS
  c1 = c1
  l1 = l1
  l2 = l2
  t1 = t1
  t2 = t2
  None = None
  Txns = {t1, t2}
  Columns <- SomeColumns
  Crons = {c1}
  Calls = {}
SPECIFICATION FairSpec
PROPERTIES
  DueIsExecuted

\* Two archive jobs copy the same transaction.
CONSTANTS
  j1 = j1
  j2 = j2
  t1 = t1
  t2 = t2
  t3 = t3
  None = None
  Txns = {t1, t2}
  Columns <- SomeColumns
  Jobs = {j1, j2}
SPECIFICATION Spec
INVARIANTS
  CopiedOnce

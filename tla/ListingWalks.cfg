\* Walks through the pages while payments are recorded and executed.
CONSTANTS
  a1 = a1
  a2 = a2
  r1 = r1
  t1 = t1
  t2 = t2
  t3 = t3
  None = None
  Txns = {t1, t2, t3}
  Accounts = {a1, a2}
  Columns <- SomeColumns
  Stamps = {1, 2, 3}
  Readers = {r1}
  Filters <- SomeFilters
  MaxLimit = 2
SPECIFICATION Spec
SYMMETRY TxnSymmetry
INVARIANTS
  TypeOK
  NoGaps
  RepeatsAreExplained
  ListedCanBeOpened

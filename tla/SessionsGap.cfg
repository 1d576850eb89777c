\* A login between the two SELECTs of a logout.
CONSTANTS
  u1 = u1
  u2 = u2
  w1 = w1
  w2 = w2
  w3 = w3
  k1 = k1
  k2 = k2
  k3 = k3
  i1 = i1
  i2 = i2
  i3 = i3
  None = None
  Users = {u1}
  Workers = {w1, w2}
  Tokens = {k1, k2}
  RowIds = {i1, i2, i3}
  MaxAudits = 0
SPECIFICATION Spec
INVARIANTS
  SessionEndIsRecorded
CHECK_DEADLOCK FALSE

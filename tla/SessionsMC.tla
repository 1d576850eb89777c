------------------------------ MODULE SessionsMC ------------------------------
EXTENDS Sessions, TLC

CONSTANTS u1, u2, w1, w2, w3, k1, k2, k3, i1, i2, i3

SessionSymmetry ==
  Permutations(Workers) \cup Permutations(Tokens) \cup Permutations(RowIds)
=============================================================================

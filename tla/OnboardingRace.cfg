\* Registrations with common identifiers and accounts for admins.
CONSTANTS
  w1 = w1
  w2 = w2
  w3 = w3
  u1 = u1
  u2 = u2
  u3 = u3
  u4 = u4
  None = None
  Workers = {w1, w2, w3}
  UserIds = {u1, u2, u3, u4}
  Forms <- CrossedForms
  Seeded <- SeedAdmin
SPECIFICATION Spec
SYMMETRY RequestSymmetry
INVARIANTS
  TypeOK
  IdentifiersUnique
  SomeRequestRuns
PROPERTIES
  RegistrySpec

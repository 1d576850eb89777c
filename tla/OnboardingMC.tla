----------------------------- MODULE OnboardingMC -----------------------------
EXTENDS Onboarding, TLC

CONSTANTS w1, w2, w3, u1, u2, u3, u4

Person(e, n, p, r) == [email |-> e, national_id |-> n, phone |-> p, role |-> r]

\* The administrator whom the seed script inserts.
SeedAdmin == [u \in UserIds |-> IF u = u1 THEN Person(0, 0, 0, "admin") ELSE None]

\* Two customers and an admin who share identifiers pairwise, and a customer who
\* has the administrator's phone.
CrossedForms ==
  { Person(1, 1, 1, "customer"), Person(1, 2, 2, "customer"),
    Person(3, 1, 2, "admin"), Person(3, 3, 0, "customer") }

RequestSymmetry == Permutations(Workers)
=============================================================================

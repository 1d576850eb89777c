------------------------------- MODULE Registry -------------------------------
(***************************************************************************)
(* What onboarding promises: a user appears in one step, with identifiers  *)
(* that nobody else has and, for a customer, with a bank account; anybody  *)
(* else is given one account at most.                                      *)
(***************************************************************************)
EXTENDS Naturals

CONSTANTS
  UserIds,  \* primary keys of the users table
  Forms,    \* registrations: identifiers and role
  Fields,   \* the identifiers of a form that must be unique
  None      \* no user

VARIABLES
  users,    \* the users table: a form for each user, None when there is none
  accounts  \* the number of accounts rows of each user

\* Some user has the identifier already.
Taken(f, value) == \E u \in UserIds : users[u] # None /\ users[u][f] = value

\* The users that the seed script leaves, none of whom has an account.
Init == accounts = [u \in UserIds |-> 0]

Enrol(u, form) ==
  /\ users[u] = None /\ accounts[u] = 0
  /\ \A f \in Fields : ~Taken(f, form[f])
  /\ users' = [users EXCEPT ![u] = form]
  /\ accounts' = [accounts EXCEPT ![u] = IF form.role = "customer" THEN 1 ELSE 0]

OpenAccount(u) ==
  /\ users[u] # None /\ accounts[u] = 0
  /\ accounts' = [accounts EXCEPT ![u] = 1]
  /\ UNCHANGED users

Next == \E u \in UserIds : OpenAccount(u) \/ \E form \in Forms : Enrol(u, form)

Spec == Init /\ [][Next]_<<users, accounts>>
=============================================================================

------------------------------- MODULE ListingMC -------------------------------
EXTENDS Listing, TLC

CONSTANTS a1, a2, r1, t1, t2, t3

\* A deferred debit and an immediate credit payment of one account, and an
\* international payment of another.
SomeColumns ==
  { [account |-> a1, type |-> "national", method |-> "debit", later |-> TRUE],
    [account |-> a1, type |-> "national", method |-> "credit", later |-> FALSE],
    [account |-> a2, type |-> "international", method |-> "debit", later |-> FALSE] }

\* Everything; scheduled payments; completed ones since a date; those of a user
\* without an account.
SomeFilters ==
  LET All == [accounts |-> Accounts, statuses |-> Statuses, types |-> Types, dates |-> Stamps]
  IN { All,
       [All EXCEPT !.statuses = {"scheduled"}],
       [All EXCEPT !.statuses = {"completed"}, !.dates = {2, 3}],
       [All EXCEPT !.accounts = {}] }

TxnSymmetry == Permutations(Txns)
=============================================================================

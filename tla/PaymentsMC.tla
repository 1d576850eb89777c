------------------------------ MODULE PaymentsMC ------------------------------
EXTENDS Payments, TLC

CONSTANTS w1, w2, w3, a1, a2, visa, amex, t1, t2, t3

\* A request for an immediate national debit.
Pay(a, c, n) ==
  [user |-> a, card |-> c, card_type |-> "debit", amount |-> n, type |-> "national",
   later |-> FALSE, reversal_of |-> None]

\* One account that holds 2 and a customer who spends it in debits of 1 and 2.
OneAccount == [a \in Accounts |-> 2]

DebitRequests == {Pay(a1, visa, 2)}

\* Debits: at once, deferred, and as the reversal of t1; a deferred
\* international payment.
RaceRequests ==
  { Pay(a1, visa, 2),
    [Pay(a1, visa, 1) EXCEPT !.later = TRUE],
    [Pay(a1, visa, 1) EXCEPT !.reversal_of = t1],
    [Pay(a1, visa, 1) EXCEPT !.type = "international", !.later = TRUE] }

\* Every branch of the decision tree for one card number per method, and a second
\* customer who posts the same card number, once with the other type.
RoutingRequests ==
  { Pay(a1, visa, 2),
    [Pay(a1, visa, 1) EXCEPT !.type = "international"],
    [Pay(a1, amex, 1) EXCEPT !.card_type = "credit"],
    [Pay(a1, visa, 1) EXCEPT !.type = "international", !.later = TRUE],
    Pay(a2, visa, 1),
    [Pay(a2, visa, 1) EXCEPT !.card_type = "credit"] }

\* Both customers pay with their own debit card, at once or deferred.
LedgerRequests ==
  { Pay(a1, visa, 2),
    [Pay(a1, visa, 1) EXCEPT !.later = TRUE],
    Pay(a2, amex, 2) }

DeferredInternational ==
  { [Pay(a1, visa, 1) EXCEPT !.type = "international", !.later = TRUE] }

RoutingSymmetry == Permutations(Workers) \cup Permutations(Txns)
=============================================================================

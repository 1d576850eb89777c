-------------------------------- MODULE Ledger --------------------------------
(***************************************************************************)
(* What a customer expects of the bank: the lifecycle of the transactions, *)
(* and a balance that moves exactly when a debit completes or a deposit    *)
(* arrives.  A payment is declined only when the balance does not cover it.*)
(***************************************************************************)
EXTENDS Integers

CONSTANTS Accounts, Txns, Columns

VARIABLES balance, status, columns

Lifecycle == INSTANCE TransactionLifecycle

IsDebit(c) == c.type = "national" /\ c.method = "debit"

Init == Lifecycle!Init /\ balance \in [Accounts -> Nat]

\* The balance moves with the status, in one step.
Settle(t) ==
  LET c == columns'[t] IN
  \/ /\ IsDebit(c) /\ status'[t] = "completed"
     /\ balance[c.origin] >= c.amount
     /\ balance' = [balance EXCEPT ![c.origin] = @ - c.amount]
  \/ /\ IsDebit(c) /\ status'[t] = "failed"
     /\ balance[c.origin] < c.amount
     /\ UNCHANGED balance
  \/ /\ ~IsDebit(c) \/ status'[t] = "scheduled"
     /\ UNCHANGED balance

Pay(t) == (Lifecycle!Record(t) \/ Lifecycle!Execute(t)) /\ Settle(t)

Deposit(a) ==
  /\ balance'[a] > balance[a]
  /\ balance' = [balance EXCEPT ![a] = balance'[a]]
  /\ UNCHANGED <<status, columns>>

Next == (\E t \in Txns : Pay(t)) \/ (\E a \in Accounts : Deposit(a))

Spec == Init /\ [][Next]_<<balance, status, columns>>
=============================================================================

------------------------- MODULE TransactionLifecycle -------------------------
(***************************************************************************)
(* What the transactions table promises its readers: a row is written once *)
(* with its final routing, a scheduled row is executed at most once, and   *)
(* nothing else about a row ever changes.  "processing" is never seen.     *)
(***************************************************************************)
CONSTANTS
  Txns,     \* transaction ids
  Columns   \* what a row records besides its status

VARIABLES
  status,   \* "absent" while there is no row
  columns

\* The statuses in which the routing rules leave a payment that is not deferred.
Outcomes(c) ==
  IF c.type = "international" THEN {"pending"}
  ELSE IF c.method = "credit" THEN {"completed"}
  ELSE {"completed", "failed"}

\* No rows, whatever stands for the columns of a row that does not exist.
Init == status = [t \in Txns |-> "absent"]

\* A new row: deferred when it carries a date, routed at once otherwise.
Insert(t, c) ==
  /\ status[t] = "absent"
  /\ c \in Columns
  /\ columns' = [columns EXCEPT ![t] = c]
  /\ \E s \in (IF c.later THEN {"scheduled"} ELSE Outcomes(c)) :
       status' = [status EXCEPT ![t] = s]

Record(t) == Insert(t, columns'[t])

\* A deferred row is routed.
Execute(t) ==
  /\ status[t] = "scheduled"
  /\ \E s \in Outcomes(columns[t]) : status' = [status EXCEPT ![t] = s]
  /\ UNCHANGED columns

Next == \E t \in Txns : Record(t) \/ Execute(t)

Spec == Init /\ [][Next]_<<status, columns>>
=============================================================================

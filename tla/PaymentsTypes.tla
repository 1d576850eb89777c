--------------------------- MODULE PaymentsTypes ----------------------------
(***************************************************************************)
(* Payments for every choice of its constants: types and sessions, and what *)
(* the balance check guarantees however old the balance is.                *)
(*                                                                         *)
(* TypeInv is inductive on its own.  FailFrame says what the end of a      *)
(* request leaves to the others.  The invariants of PaymentsProofs and     *)
(* LedgerProofs rest on both.                                              *)
(***************************************************************************)
EXTENDS Payments, TLAPS

(***************************************************************************)
(* Types                                                                   *)
(***************************************************************************)
\* Labels at which a request works on a payment, whatever it has written.
PaymentLabels ==
  {"resolve", "insert_card", "reference_card", "commit_card", "route", "claim", "lock",
   "publish"}

\* Labels of a payment whose card has not been settled, and before the row.
CreateLabels == {"resolve", "insert_card", "reference_card", "commit_card", "route"}

OnPayment(w) == pc[w] \in PaymentLabels \/ (pc[w] = "commit" /\ draft[w] # "none")

\* An idle worker has a fresh session; a busy one has a job of the right kind.
SessionOK ==
  \A w \in Workers :
    /\ pc[w] = "idle" => orm[w] = "absent" /\ draft[w] = "none"
    /\ pc[w] \in CreateLabels \cup {"claim"} => draft[w] = "none"
    /\ orm[w] = "dirty" => pc[w] = "commit"
    /\ pc[w] # "idle" => job[w] \in Jobs
    /\ OnPayment(w) => /\ job[w].tx \in Txns /\ job[w].card \in Cards
                       /\ job[w].type \in Types /\ job[w].method \in Methods
    /\ pc[w] = "lock" => /\ job[w].type = "national" /\ job[w].method = "debit"
                         /\ draft[w] \in {"none", "processing"}
    /\ pc[w] = "publish" => job[w].type = "international" /\ draft[w] = "pending"
    /\ pc[w] = "credit" => job[w].type = "deposit" /\ orm[w] # "absent" /\ draft[w] = "none"
    /\ pc[w] = "commit" /\ draft[w] = "none" => job[w].type = "deposit"

\* A card and its type are written together, and so are the columns of a row.
CardsTyped == \A c \in Cards : cardOwner[c] # None => cardType[c] \in Methods

RowsOK == \A t \in Txns : status[t] # "absent" => columns[t] \in Columns

TypeInv == TypeOK /\ SessionOK /\ CardsTyped /\ RowsOK

\* The steps that end a request without a trace in the tables.
Failing(w) ==
  \/ CardForeign(w) \/ CardRaceLost(w) \/ ReversalMissing(w) \/ ClaimLost(w)
  \/ AddBalanceOverflow(w) \/ Abort(w)

\* They roll back, end the request and change nothing else.
LEMMA FailingStep ==
  ASSUME NEW w \in Workers, Failing(w)
  PROVE  Fail(w) /\ UNCHANGED <<tables, cardTable, sent, deposits, history>>
BY DEF Failing, CardForeign, CardRaceLost, ReversalMissing, ClaimLost, AddBalanceOverflow, Abort

\* Releasing locks leaves every lock with a worker or with nobody.
LEMMA ReleaseLocksType ==
  ASSUME LocksType, NEW w \in Workers, ReleaseLocks(w)
  PROVE  LocksType'
BY DEF LocksType, ReleaseLocks

\* A worker whose request has ended has a session of the right type again.
LEMMA EndRequestType ==
  ASSUME SessionType, SessionOK, NEW w \in Workers, EndRequest(w)
  PROVE  SessionType' /\ SessionOK'
<1> USE DEF SessionType, EndRequest, Labels, Statuses
<1>1. SessionType'
  OBVIOUS
<1>2. ASSUME NEW v \in Workers \ {w}
      PROVE  /\ pc'[v] = pc[v] /\ job'[v] = job[v] /\ orm'[v] = orm[v]
             /\ cached'[v] = cached[v] /\ draft'[v] = draft[v]
  OBVIOUS
<1>3. pc'[w] = "idle" /\ orm'[w] = "absent" /\ draft'[w] = "none"
  OBVIOUS
<1>4. SessionOK'
  BY <1>2, <1>3 DEF SessionOK, OnPayment, PaymentLabels, CreateLabels
<1> QED
  BY <1>1, <1>4

\* What CardFound and Immediate change in a job leaves a job.
LEMMA JobUpdate ==
  ASSUME NEW j \in Jobs, NEW m \in Methods
  PROVE  [j EXCEPT !.later = FALSE] \in Jobs /\ [j EXCEPT !.method = m] \in Jobs
BY DEF Jobs, Methods

\* The row written for a payment has all its columns.
LEMMA RowType ==
  ASSUME NEW j \in Jobs, j.card \in Cards, j.type \in Types, j.method \in Methods
  PROVE  Row(j) \in Columns
BY DEF Row, Jobs, Columns

\* Types and sessions survive every step.
LEMMA TypeStep ==
  ASSUME TypeInv, [Next]_vars
  PROVE  TypeInv'
<1> USE PaymentsAssumption DEF TypeInv, TypeOK, TablesType, LocksType, SessionType, HistoryType,
      SessionOK, CardsTyped, RowsOK, OnPayment, PaymentLabels, CreateLabels, Methods, Types,
      Statuses, Labels, Busy, Goto, tables, cardTable, locks, session, history
<1>1. CASE UNCHANGED vars
  BY <1>1 DEF vars
<1>2. ASSUME NEW w \in Workers, NEW r \in Requests, Submit(w, r) PROVE TypeInv'
  <2>1. r \in Payloads
    OBVIOUS
  <2>2. job'[w] \in Jobs
    BY <1>2, <2>1 DEF Submit, Payloads, Jobs
  <2>3. /\ job'[w].tx \in Txns /\ job'[w].card \in Cards
        /\ job'[w].type \in Types /\ job'[w].method \in Methods
    BY <1>2, <2>1 DEF Submit, Payloads
  <2>4. SessionType' /\ SessionOK'
    BY <1>2, <2>2, <2>3 DEF Submit
  <2> QED
    BY <1>2, <2>4 DEF Submit
<1>3. ASSUME NEW w \in Workers, NEW t \in Txns, Process(w, t) PROVE TypeInv'
  <2>1. columns[t] \in Columns
    BY <1>3 DEF Process
  <2>2. job'[w] \in Jobs
    BY <1>3, <2>1 DEF Process, Columns, Jobs
  <2>3. /\ job'[w].tx \in Txns /\ job'[w].card \in Cards
        /\ job'[w].type \in Types /\ job'[w].method \in Methods
    BY <1>3, <2>1 DEF Process, Columns
  <2>4. orm'[w] = "clean" /\ cached'[w] \in Int
    BY <1>3, <2>1 DEF Process, LoadAccount, Columns
  <2>5. SessionType' /\ SessionOK'
    BY <1>3, <2>2, <2>3, <2>4 DEF Process, LoadAccount
  <2> QED
    BY <1>3, <2>5 DEF Process
<1>4. ASSUME NEW w \in Workers, NEW a \in Accounts, NEW n \in Deposits, Deposit(w, a, n)
      PROVE  TypeInv'
  <2>0. deposits \in 0..MaxDeposits /\ deposits < MaxDeposits /\ deposits' = deposits + 1
    BY <1>4 DEF Deposit
  <2>1. n \in Nat \ {0} /\ deposits' \in 0..MaxDeposits
    BY <2>0
  <2>2. job' = [job EXCEPT ![w] = job'[w]] /\ job'[w] \in Jobs /\ job'[w].type = "deposit"
    BY <1>4, <2>1 DEF Deposit, Jobs
  <2>3. /\ orm' = [orm EXCEPT ![w] = "clean"]
        /\ cached' = [cached EXCEPT ![w] = cached'[w]] /\ cached'[w] \in Int
    BY <1>4 DEF Deposit, LoadAccount
  <2>4. SessionType'
    BY <1>4, <2>2, <2>3 DEF Deposit
  <2>5. SessionOK'
    BY <1>4, <2>2, <2>3 DEF Deposit
  <2> QED
    BY <1>4, <2>1, <2>4, <2>5 DEF Deposit
<1>5. ASSUME NEW w \in Workers, CardFound(w) PROVE TypeInv'
  <2>1. job[w] \in Jobs /\ cardType[job[w].card] \in Methods
    BY <1>5 DEF CardFound, Jobs
  <2>2. job' = [job EXCEPT ![w] = [job[w] EXCEPT !.method = cardType[job[w].card]]]
    BY <1>5 DEF CardFound
  <2>3. job'[w] \in Jobs
    BY <2>1, <2>2, JobUpdate, ZenonT(30)
  <2>4. /\ job'[w].tx = job[w].tx /\ job'[w].card = job[w].card /\ job'[w].type = job[w].type
        /\ job'[w].method \in Methods
    BY <2>1, <2>2 DEF Jobs
  <2>5. orm'[w] = "clean" /\ cached'[w] \in Int
    BY <1>5, <2>1 DEF CardFound, LoadAccount, Jobs
  <2>6. SessionType' /\ SessionOK'
    BY <1>5, <2>2, <2>3, <2>4, <2>5 DEF CardFound, LoadAccount
  <2> QED
    BY <1>5, <2>6 DEF CardFound
<1>6. ASSUME NEW w \in Workers, CardMissing(w) PROVE TypeInv'
  BY <1>6 DEF CardMissing
<1>7. ASSUME NEW w \in Workers, InsertCard(w) \/ ReferenceCard(w) PROVE TypeInv'
  <2>1. LocksType'
    <3>1. CASE InsertCard(w)
      BY <3>1 DEF InsertCard
    <3>2. CASE ReferenceCard(w)
      BY <3>2 DEF ReferenceCard, Reference, Jobs
    <3> QED
      BY <1>7, <3>1, <3>2
  <2>2. SessionType' /\ SessionOK'
    BY <1>7 DEF InsertCard, ReferenceCard
  <2> QED
    BY <1>7, <2>1, <2>2 DEF InsertCard, ReferenceCard
<1>8. ASSUME NEW w \in Workers, CommitCard(w) PROVE TypeInv'
  <2>1. LocksType'
    BY <1>8, ReleaseLocksType DEF CommitCard
  <2>2. job[w] \in Jobs /\ job[w].method \in Methods
    BY <1>8 DEF CommitCard
  <2>3. TablesType' /\ CardsTyped' /\ RowsOK'
    BY <1>8, <2>2 DEF CommitCard, Jobs
  <2>4. SessionType' /\ SessionOK' /\ HistoryType'
    BY <1>8 DEF CommitCard
  <2> QED
    BY <2>1, <2>3, <2>4
<1>9. ASSUME NEW w \in Workers, RouteScheduled(w) PROVE TypeInv'
  <2>1. LocksType'
    BY <1>9 DEF RouteScheduled, InsertRow, Reference, Jobs
  <2>2. SessionType' /\ SessionOK'
    BY <1>9 DEF RouteScheduled, InsertRow
  <2> QED
    BY <1>9, <2>1, <2>2 DEF RouteScheduled
<1>10. ASSUME NEW w \in Workers,
              RouteInternational(w) \/ RouteCredit(w) \/ RouteDebit(w)
       PROVE  TypeInv'
  <2>1. job[w] \in Jobs
    BY <1>10 DEF RouteInternational, RouteCredit, RouteDebit
  <2>2. job' = [job EXCEPT ![w] = [job[w] EXCEPT !.later = FALSE]]
    BY <1>10 DEF RouteInternational, RouteCredit, RouteDebit, Immediate
  <2>3. job'[w] \in Jobs
    BY <2>1, <2>2, JobUpdate
  <2>4. /\ job'[w].tx = job[w].tx /\ job'[w].card = job[w].card /\ job'[w].type = job[w].type
        /\ job'[w].method = job[w].method
    BY <2>1, <2>2 DEF Jobs
  <2>5. ASSUME RouteInternational(w) \/ RouteCredit(w)
        PROVE  SessionType' /\ SessionOK' /\ LocksType'
    <3>1. LocksType'
      BY <2>1, <2>5 DEF RouteInternational, RouteCredit, InsertRow, Reference, Jobs
    <3>2. /\ pc' = [pc EXCEPT ![w] = pc'[w]] /\ draft' = [draft EXCEPT ![w] = draft'[w]]
          /\ \/ pc'[w] = "publish" /\ draft'[w] = "pending" /\ job[w].type = "international"
             \/ pc'[w] = "commit" /\ draft'[w] = "completed"
          /\ pc[w] = "route" /\ UNCHANGED <<orm, cached>>
      BY <2>5 DEF RouteInternational, RouteCredit, InsertRow
    <3>3. SessionType'
      BY <2>2, <2>3, <3>2
    <3>4. SessionOK'
      BY <2>2, <2>3, <2>4, <3>2
    <3> QED
      BY <3>1, <3>3, <3>4
  <2>6. ASSUME RouteDebit(w) PROVE SessionType' /\ SessionOK' /\ LocksType'
    <3>1. orm'[w] \in {"absent", "clean"} /\ cached'[w] \in Int
      BY <2>1, <2>6 DEF RouteDebit, LoadAccount, Jobs
    <3>2. orm' = [orm EXCEPT ![w] = orm'[w]] /\ cached' = [cached EXCEPT ![w] = cached'[w]]
      BY <2>6 DEF RouteDebit, LoadAccount
    <3>3. SessionType' /\ LocksType'
      BY <2>2, <2>3, <2>6, <3>1, <3>2 DEF RouteDebit
    <3>4. SessionOK'
      BY <2>2, <2>3, <2>4, <2>6, <3>1, <3>2 DEF RouteDebit
    <3> QED
      BY <3>3, <3>4
  <2> QED
    BY <1>10, <2>5, <2>6 DEF RouteInternational, RouteCredit, RouteDebit
<1>11. ASSUME NEW w \in Workers, Claim(w) PROVE TypeInv'
  <2>1. LocksType'
    BY <1>11 DEF Claim, ClaimRow
  <2>2. SessionType' /\ SessionOK'
    BY <1>11 DEF Claim, ClaimRow
  <2> QED
    BY <1>11, <2>1, <2>2 DEF Claim, ClaimRow
<1>12. ASSUME NEW w \in Workers, ProcessNational(w) PROVE TypeInv'
  <2>1. job[w] \in Jobs
    BY <1>12 DEF ProcessNational
  <2> QED
    BY <1>12, <2>1 DEF ProcessNational, Jobs
<1>13. ASSUME NEW w \in Workers, AddBalance(w) PROVE TypeInv'
  <2>1. job[w] \in Jobs
    BY <1>13 DEF AddBalance
  <2> QED
    BY <1>13, <2>1 DEF AddBalance, Jobs
<1>14. ASSUME NEW w \in Workers, Publish(w) PROVE TypeInv'
  <2>1. sent' \in [Txns -> 0..2] /\ TablesType' /\ HistoryType' /\ CardsTyped' /\ RowsOK'
    BY <1>14 DEF Publish
  <2>2. CASE Fail(w)
    BY <1>14, <2>1, <2>2, ReleaseLocksType, EndRequestType DEF Fail
  <2>3. CASE ~Fail(w)
    BY <1>14, <2>1, <2>3 DEF Publish
  <2> QED
    BY <2>2, <2>3
<1>15. ASSUME NEW w \in Workers, Commit(w) PROVE TypeInv'
  <2>1. LocksType' /\ SessionType' /\ SessionOK'
    BY <1>15, ReleaseLocksType, EndRequestType DEF Commit
  <2>2. job[w] \in Jobs
    BY <1>15 DEF Commit
  <2>3. draft[w] # "none" => job[w].tx \in Txns /\ Row(job[w]) \in Columns
    BY <1>15, <2>2, RowType DEF Commit
  <2>4. balance' \in [Accounts -> Int] /\ HistoryType'
    BY <1>15, <2>2 DEF Commit, Jobs
  <2>5. status' \in [Txns -> Statuses \cup {"absent"}] /\ columns' \in [Txns -> Columns \cup {None}]
    BY <1>15, <2>3, SMTT(30) DEF Commit
  <2>6. CardsTyped' /\ RowsOK'
    BY <1>15, <2>3 DEF Commit
  <2> QED
    BY <1>15, <2>1, <2>4, <2>5, <2>6 DEF Commit
<1>16. ASSUME NEW w \in Workers, Failing(w) PROVE TypeInv'
  BY <1>16, FailingStep, ReleaseLocksType, EndRequestType DEF Fail
<1> QED
  BY <1>1, <1>2, <1>3, <1>4, <1>5, <1>6, <1>7, <1>8, <1>9, <1>10, <1>11, <1>12, <1>13, <1>14,
     <1>15, <1>16 DEF Next, Start, Step, ResolveCard, Route, Failing

\* Types and sessions hold at the start.
LEMMA TypeInit == Init => TypeInv
BY PaymentsAssumption DEF Init, TypeInv, TypeOK, TablesType, LocksType, SessionType, HistoryType,
   SessionOK, CardsTyped, RowsOK, OnPayment, PaymentLabels, CreateLabels, Labels

\* Every variable keeps its type, and a session holds what its handler expects.
LEMMA SessionsTyped == Spec => []TypeInv
<1>1. Init => TypeInv
  BY TypeInit
<1>2. TypeInv /\ [Next]_vars => TypeInv'
  BY TypeStep
<1> QED
  BY <1>1, <1>2, PTL DEF Spec

\* Every variable keeps its type, whatever requests overlap and fail.
THEOREM TypeCorrect == Spec => []TypeOK
<1>1. TypeInv => TypeOK
  BY DEF TypeInv
<1> QED
  BY <1>1, SessionsTyped, PTL

(***************************************************************************)
(* What the end of a request leaves to the others                          *)
(***************************************************************************)
\* The worker that ends is idle with a fresh session and no locks; the others
\* keep their session and their locks.
LEMMA FailFrame ==
  ASSUME TypeInv, NEW w \in Workers, Fail(w)
  PROVE  /\ pc'[w] = "idle" /\ orm'[w] = "absent" /\ draft'[w] = "none"
         /\ \A v \in Workers \ {w} :
              /\ pc'[v] = pc[v] /\ job'[v] = job[v] /\ orm'[v] = orm[v]
              /\ cached'[v] = cached[v] /\ draft'[v] = draft[v]
         /\ \A t \in Txns : rowLock'[t] = IF rowLock[t] = w THEN None ELSE rowLock[t]
         /\ \A c \in Cards : cardLock'[c] = IF cardLock[c] = w THEN None ELSE cardLock[c]
         /\ \A a \in Accounts :
              /\ accountLock'[a] = IF accountLock[a] = w THEN None ELSE accountLock[a]
              /\ keyShare'[a] = keyShare[a] \ {w}
BY DEF TypeInv, TypeOK, SessionType, LocksType, Fail, ReleaseLocks, EndRequest

(***************************************************************************)
(* Balances                                                                *)
(***************************************************************************)
\* The instance in the identity map holds a balance that was once in range.
CachedInRange == \A w \in Workers : orm[w] # "absent" => cached[w] \in 0..Capacity

RangeInv == CachedInRange /\ BalanceInRange

\* The steps that neither load, change nor drop an account instance.
KeepsAccounts(w) ==
  \/ \E r \in Requests : Submit(w, r)
  \/ CardMissing(w) \/ InsertCard(w) \/ ReferenceCard(w) \/ CommitCard(w)
  \/ RouteScheduled(w) \/ RouteInternational(w) \/ RouteCredit(w)
  \/ Claim(w)

\* Balances, and the copies of them in sessions, stay in range.
LEMMA RangeStep ==
  ASSUME TypeInv, RangeInv, [Next]_vars
  PROVE  RangeInv'
<1> USE PaymentsAssumption DEF TypeInv, TypeOK, TablesType, SessionType, SessionOK, OnPayment,
      PaymentLabels, CreateLabels, Jobs, Busy, Goto, tables, cardTable, locks, session, history,
      RangeInv, CachedInRange, BalanceInRange
<1>1. CASE UNCHANGED vars
  BY <1>1 DEF vars
<1>2. ASSUME NEW w \in Workers, KeepsAccounts(w) PROVE RangeInv'
  BY <1>2 DEF KeepsAccounts, Submit, CardMissing, InsertCard, ReferenceCard, CommitCard,
     RouteScheduled, RouteInternational, RouteCredit, InsertRow, Claim, ClaimRow
<1>3. ASSUME NEW w \in Workers, NEW t \in Txns, Process(w, t) PROVE RangeInv'
  <2>1. columns[t].origin \in Accounts
    BY <1>3 DEF Process, RowsOK, Columns
  <2> QED
    BY <1>3, <2>1 DEF Process, LoadAccount
<1>4. ASSUME NEW w \in Workers, NEW a \in Accounts, NEW n \in Deposits, Deposit(w, a, n)
      PROVE  RangeInv'
  BY <1>4 DEF Deposit, LoadAccount
<1>5. ASSUME NEW w \in Workers, CardFound(w) PROVE RangeInv'
  BY <1>5 DEF CardFound, LoadAccount
<1>6. ASSUME NEW w \in Workers, RouteDebit(w) PROVE RangeInv'
  BY <1>6 DEF RouteDebit, LoadAccount
<1>7. ASSUME NEW w \in Workers, ProcessNational(w) PROVE RangeInv'
  BY <1>7 DEF ProcessNational
<1>8. ASSUME NEW w \in Workers, AddBalance(w) PROVE RangeInv'
  BY <1>8 DEF AddBalance
<1>9. ASSUME NEW w \in Workers, Publish(w) PROVE RangeInv'
  BY <1>9, FailFrame DEF Publish
<1>10. ASSUME NEW w \in Workers, Commit(w) PROVE RangeInv'
  BY <1>10, FailFrame DEF Commit, Fail
<1>11. ASSUME NEW w \in Workers, Failing(w) PROVE RangeInv'
  BY <1>11, FailingStep, FailFrame
<1> QED
  BY <1>1, <1>2, <1>3, <1>4, <1>5, <1>6, <1>7, <1>8, <1>9, <1>10, <1>11
  DEF Next, Start, Step, ResolveCard, Route, Failing, KeepsAccounts

\* They are in range from the start.
LEMMA RangeAlways == Spec => []RangeInv
<1>1. Init => RangeInv
  BY PaymentsAssumption DEF Init, RangeInv, CachedInRange, BalanceInRange
<1>2. TypeInv /\ RangeInv /\ [Next]_vars => RangeInv'
  BY RangeStep
<1> QED
  BY <1>1, <1>2, SessionsTyped, PTL DEF Spec

\* No account is overdrawn or overflows, whatever requests overlap and however
\* old the balance is that a request checks and writes back.
THEOREM NeverOverdrawn == Spec => []BalanceInRange
<1>1. RangeInv => BalanceInRange
  BY DEF RangeInv
<1> QED
  BY <1>1, RangeAlways, PTL

=============================================================================

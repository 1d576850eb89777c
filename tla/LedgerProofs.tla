---------------------------- MODULE LedgerProofs ----------------------------
(***************************************************************************)
(* Payments implements Ledger as long as nobody changes a balance of which *)
(* another request holds a copy.  The code does not see to that: the run   *)
(* payments_lost_update shows what happens otherwise.  Every invariant of  *)
(* this module is one of FreshSpec, the behaviours of Spec in which no copy *)
(* goes stale.                                                             *)
(***************************************************************************)
EXTENDS PaymentsProofs

(***************************************************************************)
(* The ledger, while copies are fresh                                      *)
(***************************************************************************)
\* The copies that are going to be used are as new as the rows; what is about to
\* be committed was computed from the row.
Current ==
  \A w \in Workers :
    /\ pc[w] = "resolve" => orm[w] = "absent"
    /\ HoldsCopy(w) /\ orm[w] = "clean" => cached[w] = balance[job[w].origin]
    /\ orm[w] = "dirty" /\ job[w].type = "deposit" =>
         cached[w] = balance[job[w].origin] + job[w].amount
    /\ orm[w] = "dirty" /\ job[w].type # "deposit" =>
         HoldsCopy(w) /\ cached[w] = balance[job[w].origin] - job[w].amount
    /\ draft[w] = "failed" =>
         HoldsCopy(w) /\ orm[w] = "clean" /\ cached[w] < job[w].amount
    /\ pc[w] = "commit" /\ draft[w] = "none" => orm[w] = "dirty"

CopyInv == Current /\ Conservation

\* The steps that leave the account instance and the balances alone.
KeepsLedger(w) ==
  \/ CardMissing(w) \/ InsertCard(w) \/ ReferenceCard(w) \/ CommitCard(w)
  \/ RouteScheduled(w) \/ RouteInternational(w) \/ RouteCredit(w)
  \/ Claim(w)

\* While copies are fresh, every step keeps them current and the balances complete.
LEMMA CopyStep ==
  ASSUME TypeInv, CopyInv, FreshCopies, [Next]_vars
  PROVE  CopyInv'
<1> USE PaymentsAssumption DEF TypeInv, TypeOK, TablesType, LocksType, SessionType, HistoryType,
      SessionOK, OnPayment, PaymentLabels, CreateLabels, Jobs, Types, Busy, Goto, tables,
      cardTable, locks, session, history, CopyInv, Current, HoldsCopy, Conservation
<1>1. CASE UNCHANGED vars
  BY <1>1 DEF vars
<1>2. ASSUME NEW w \in Workers, NEW r \in Requests, Submit(w, r) PROVE CopyInv'
  BY <1>2 DEF Submit
<1>3. ASSUME NEW w \in Workers, NEW t \in Txns, Process(w, t) PROVE CopyInv'
  BY <1>3 DEF Process, LoadAccount
<1>4. ASSUME NEW w \in Workers, NEW a \in Accounts, NEW n \in Deposits, Deposit(w, a, n)
      PROVE  CopyInv'
  BY <1>4 DEF Deposit, LoadAccount
<1>5. ASSUME NEW w \in Workers, CardFound(w) PROVE CopyInv'
  BY <1>5 DEF CardFound, LoadAccount
<1>6. ASSUME NEW w \in Workers, KeepsLedger(w) PROVE CopyInv'
  <2>1. /\ pc[w] # "idle" /\ pc' = [pc EXCEPT ![w] = pc'[w]] /\ pc'[w] # "resolve"
        /\ UNCHANGED <<tables, orm, cached, history>>
    BY <1>6 DEF KeepsLedger, CardMissing, InsertCard, ReferenceCard, CommitCard,
       RouteScheduled, RouteInternational, RouteCredit, InsertRow, Immediate, Claim, ClaimRow
  <2>2. /\ job' = [job EXCEPT ![w] = job'[w]]
        /\ job'[w].origin = job[w].origin /\ job'[w].type = job[w].type
        /\ job'[w].amount = job[w].amount /\ job'[w].method = job[w].method
    BY <1>6 DEF KeepsLedger, CardMissing, InsertCard, ReferenceCard, CommitCard,
       RouteScheduled, RouteInternational, RouteCredit, InsertRow, Immediate, Claim, ClaimRow
  <2>3. /\ draft' = [draft EXCEPT ![w] = draft'[w]] /\ draft'[w] # "failed"
        /\ draft[w] # "failed" /\ draft[w] # "scheduled" /\ orm[w] # "dirty"
        /\ pc'[w] = "commit" => draft'[w] # "none"
    BY <1>6 DEF KeepsLedger, CardMissing, InsertCard, ReferenceCard, CommitCard,
       RouteScheduled, RouteInternational, RouteCredit, InsertRow, Immediate, Claim, ClaimRow
  <2>4. HoldsCopy(w)' => HoldsCopy(w)
    BY <2>1, <2>2, <2>3
  <2>5. ASSUME NEW v \in Workers \ {w}
        PROVE  /\ pc'[v] = pc[v] /\ job'[v] = job[v] /\ orm'[v] = orm[v]
               /\ cached'[v] = cached[v] /\ draft'[v] = draft[v]
    BY <2>1, <2>2, <2>3
  <2>6. Current'
    BY <2>1, <2>2, <2>3, <2>4, <2>5
  <2> QED
    BY <2>1, <2>6
<1>7. ASSUME NEW w \in Workers, RouteDebit(w) PROVE CopyInv'
  BY <1>7 DEF RouteDebit, Immediate, LoadAccount
<1>8. ASSUME NEW w \in Workers, ProcessNational(w) PROVE CopyInv'
  BY <1>8 DEF ProcessNational
<1>9. ASSUME NEW w \in Workers, AddBalance(w) PROVE CopyInv'
  BY <1>9 DEF AddBalance
<1>10. ASSUME NEW w \in Workers, Fail(w), Conservation',
              \A v \in Workers \ {w} :
                HoldsCopy(v) => balance'[job[v].origin] = balance[job[v].origin]
       PROVE  CopyInv'
  <2>1. ASSUME NEW v \in Workers \ {w}
        PROVE  /\ pc'[v] = pc[v] /\ job'[v] = job[v] /\ orm'[v] = orm[v]
               /\ cached'[v] = cached[v] /\ draft'[v] = draft[v]
               /\ HoldsCopy(v) => balance'[job[v].origin] = balance[job[v].origin]
               /\ orm[v] = "dirty" => HoldsCopy(v)
    BY <1>10, FailFrame
  <2>2. pc'[w] = "idle" /\ orm'[w] = "absent" /\ draft'[w] = "none"
    BY <1>10, FailFrame
  <2>3. Current'
    BY <2>1, <2>2
  <2> QED
    BY <1>10, <2>3
<1>11. ASSUME NEW w \in Workers, Publish(w) PROVE CopyInv'
  <2>1. CASE Fail(w)
    BY <1>10, <1>11, <2>1 DEF Publish
  <2>2. CASE ~Fail(w)
    BY <1>11, <2>2 DEF Publish
  <2> QED
    BY <2>1, <2>2
<1>12. ASSUME NEW w \in Workers, Commit(w) PROVE CopyInv'
  <2>1. Conservation'
    BY <1>12 DEF Commit
  <2>2. ASSUME NEW v \in Workers \ {w}, HoldsCopy(v)
        PROVE  balance'[job[v].origin] = balance[job[v].origin]
    <3>1. CASE orm[w] = "dirty"
      <4>1. job[v].origin # job[w].origin /\ job[v].origin \in Accounts
        BY <2>2, <3>1 DEF FreshCopies
      <4> QED
        BY <1>12, <4>1 DEF Commit
    <3>2. CASE orm[w] # "dirty"
      BY <1>12, <3>2 DEF Commit
    <3> QED
      BY <3>1, <3>2
  <2>3. Fail(w)
    BY <1>12 DEF Commit, Fail
  <2> QED
    BY <1>10, <2>1, <2>2, <2>3
<1>13. ASSUME NEW w \in Workers, Failing(w) PROVE CopyInv'
  BY <1>10, <1>13, FailingStep
<1> QED
  BY <1>1, <1>2, <1>3, <1>4, <1>5, <1>6, <1>7, <1>8, <1>9, <1>11, <1>12, <1>13
  DEF Next, Start, Step, ResolveCard, Route, Failing, KeepsLedger

\* Balances are complete and nobody holds a copy at the start.
LEMMA CopyInit == Init => CopyInv /\ FreshCopies
BY DEF Init, CopyInv, Current, HoldsCopy, FreshCopies, Conservation

\* FreshSpec is Spec in the behaviours in which no copy goes stale.
LEMMA FreshBehaviours == FreshSpec => Spec /\ []FreshCopies
<1>1. [Next /\ FreshCopies']_vars => [Next]_vars
  OBVIOUS
<1>2. FreshCopies /\ [Next /\ FreshCopies']_vars => FreshCopies'
  BY DEF vars, tables, locks, session, history, FreshCopies, HoldsCopy
<1> QED
  BY <1>1, <1>2, CopyInit, PTL DEF FreshSpec, Spec

\* While copies are fresh, what a request checks and commits is computed from the row.
LEMMA CopiesStayCurrent == FreshSpec => []CopyInv
<1>1. TypeInv /\ CopyInv /\ FreshCopies /\ [Next]_vars => CopyInv'
  BY CopyStep
<1> QED
  BY <1>1, CopyInit, FreshBehaviours, SessionsTyped, PTL DEF Spec

\* Requests on one account may overlap, wait for each other and fail as they like: no
\* deposit or debit is lost as long as nobody changes a balance of which another
\* request holds a copy.
THEOREM ConservedWhileFresh == FreshSpec => []Conservation
<1>1. CopyInv => Conservation
  BY DEF CopyInv
<1> QED
  BY <1>1, CopiesStayCurrent, PTL

(***************************************************************************)
(* Payments implements Ledger                                              *)
(***************************************************************************)
\* While copies are fresh, every step is a step of Ledger or leaves its variables alone.
LEMMA LedgerStep ==
  ASSUME TypeInv, RangeInv, RowInv, OutcomeInv, CopyInv, [Next]_vars
  PROVE  [LedgerView!Next]_<<balance, status, columns>>
<1>1. ASSUME NEW w \in Workers, Commit(w), draft[w] = "none"
      PROVE  LedgerView!Next
  <2> DEFINE a == job[w].origin
  <2>1. /\ pc[w] = "commit" /\ job[w] \in Jobs /\ job[w].type = "deposit" /\ orm[w] = "dirty"
        /\ cached[w] = balance[a] + job[w].amount
    BY <1>1 DEF Commit, TypeInv, SessionOK, CopyInv, Current
  <2>2. /\ balance' = [balance EXCEPT ![a] = cached[w]]
        /\ UNCHANGED <<status, columns>>
    BY <1>1, <2>1 DEF Commit
  <2>3. a \in Accounts /\ balance[a] \in Int /\ job[w].amount \in Nat \ {0}
    BY <2>1 DEF Jobs, TypeInv, TypeOK, TablesType
  <2>4. balance'[a] = cached[w] /\ balance'[a] > balance[a]
    BY <2>1, <2>2, <2>3 DEF TypeInv, TypeOK, TablesType
  <2> QED
    BY <2>2, <2>3, <2>4 DEF LedgerView!Next, LedgerView!Deposit
<1>2. ASSUME NEW w \in Workers, Commit(w), draft[w] # "none"
      PROVE  LedgerView!Next
  <2> DEFINE t == job[w].tx
             a == job[w].origin
  <2>1. /\ t \in Txns /\ status'[t] = draft[w] /\ columns'[t] = Row(job[w])
        /\ Lifecycle!Record(t) \/ Lifecycle!Execute(t)
    BY <1>2, CommitWritesRow
  <2>2. LedgerView!Lifecycle!Record(t) \/ LedgerView!Lifecycle!Execute(t)
    BY <2>1 DEF Lifecycle!Record, Lifecycle!Insert, Lifecycle!Execute, Lifecycle!Outcomes,
       LedgerView!Lifecycle!Record, LedgerView!Lifecycle!Insert,
       LedgerView!Lifecycle!Execute, LedgerView!Lifecycle!Outcomes
  <2>3. /\ pc[w] = "commit" /\ OnPayment(w) /\ job[w] \in Jobs /\ job[w].type \in Types
    BY <1>2 DEF Commit, TypeInv, SessionOK, OnPayment
  <2>4. balance' = IF orm[w] = "dirty" THEN [balance EXCEPT ![a] = cached[w]] ELSE balance
    BY <1>2 DEF Commit
  <2>5. LedgerView!IsDebit(columns'[t]) <=> job[w].type = "national" /\ job[w].method = "debit"
    BY <2>1 DEF LedgerView!IsDebit, Row
  <2>6. columns'[t].origin = a /\ columns'[t].amount = job[w].amount
    BY <2>1 DEF Row
  <2>7. orm[w] = "dirty" <=>
          draft[w] = "completed" /\ job[w].type = "national" /\ job[w].method = "debit"
    BY <1>2, <2>3 DEF OutcomeInv, DraftOK, DraftOf
  <2>8. a \in Accounts /\ balance[a] \in Int /\ job[w].amount \in Int /\ cached[w] \in Int
    BY <2>3 DEF Jobs, TypeInv, TypeOK, TablesType, SessionType
  <2>9. LedgerView!Settle(t)
    <3>1. CASE orm[w] = "dirty"
      <4>1. cached[w] = balance[a] - job[w].amount /\ cached[w] >= 0
        BY <2>3, <3>1, PaymentsAssumption
        DEF CopyInv, Current, RangeInv, CachedInRange, Types
      <4>2. balance[a] >= job[w].amount
        BY <2>8, <4>1
      <4> QED
        BY <2>1, <2>4, <2>5, <2>6, <2>7, <3>1, <4>1, <4>2 DEF LedgerView!Settle
    <3>2. CASE orm[w] # "dirty" /\ draft[w] = "failed"
      <4>1. balance[a] < job[w].amount
        BY <3>2 DEF CopyInv, Current
      <4> QED
        BY <2>1, <2>4, <2>5, <2>6, <3>2, <4>1 DEF LedgerView!Settle
    <3>3. CASE orm[w] # "dirty" /\ draft[w] # "failed"
      <4>1. draft[w] = "scheduled" \/ ~LedgerView!IsDebit(columns'[t])
        BY <1>2, <2>3, <2>5, <2>7, <3>3 DEF OutcomeInv, DraftOK, DraftOf, Lifecycle!Outcomes
      <4> QED
        BY <2>1, <2>4, <3>3, <4>1 DEF LedgerView!Settle
    <3> QED
      BY <3>1, <3>2, <3>3
  <2> QED
    BY <2>1, <2>2, <2>9 DEF LedgerView!Next, LedgerView!Pay
<1> QED
  BY <1>1, <1>2, OnlyCommitWrites DEF Next, vars, tables

\* While copies are fresh, the balances and the table behave as the ledger a customer
\* expects: a debit completes with its deduction, and is declined only when it is not
\* covered, whatever else overlaps and fails.
THEOREM LedgerWhileFresh == FreshSpec => LedgerSpec
<1>1. Init => LedgerView!Init
  BY PaymentsAssumption DEF Init, LedgerView!Init, LedgerView!Lifecycle!Init
<1>2. FreshSpec => [](TypeInv /\ RangeInv /\ RowInv /\ OutcomeInv /\ CopyInv)
  BY FreshBehaviours, SessionsTyped, RangeAlways, RowsAndOutcomes, CopiesStayCurrent, PTL
<1> QED
  BY <1>1, <1>2, FreshBehaviours, LedgerStep, PTL DEF Spec, LedgerSpec, LedgerView!Spec

=============================================================================

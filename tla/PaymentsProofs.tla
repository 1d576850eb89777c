--------------------------- MODULE PaymentsProofs ---------------------------
(***************************************************************************)
(* Payments for every choice of its constants: rows are written once and   *)
(* executed once, a deduction goes with its status, the table implements   *)
(* TransactionLifecycle, row locks do not deadlock, payments match their   *)
(* cards.                                                                  *)
(***************************************************************************)
EXTENDS PaymentsTypes

(***************************************************************************)
(* Rows: which request may write which row                                 *)
(***************************************************************************)
\* A request that has written its row is creating it, or has claimed it.
Claimed(w) ==
  /\ status[job[w].tx] = "scheduled"
  /\ rowLock[job[w].tx] = w
  /\ Row(job[w]) = columns[job[w].tx]

JobOK(w) ==
  /\ pc[w] \in CreateLabels => status[job[w].tx] = "absent"
  /\ pc[w] = "claim" => /\ status[job[w].tx] # "absent"
                        /\ Row(job[w]) = columns[job[w].tx]
  /\ OnPayment(w) /\ pc[w] \in {"lock", "publish", "commit"} =>
       \/ Claimed(w)
       \/ status[job[w].tx] = "absent" /\ (job[w].later <=> draft[w] = "scheduled")

JobsOK == \A w \in Workers : JobOK(w)

\* Two requests never create the same row.
TxUnique ==
  \A v, w \in Workers :
    /\ v # w /\ pc[v] # "idle" /\ pc[w] # "idle"
    /\ job[v].tx \in Txns /\ job[v].tx = job[w].tx
    => status[job[v].tx] # "absent"

RowInv == JobsOK /\ TxUnique

\* The steps that change neither a job nor what is known of its row.
KeepsJob(w) ==
  \/ CardMissing(w) \/ InsertCard(w) \/ ReferenceCard(w) \/ CommitCard(w)
  \/ RouteScheduled(w) \/ ProcessNational(w) \/ AddBalance(w)

\* A worker that does nothing keeps its claim while its row is left alone.
LEMMA JobKept ==
  ASSUME NEW v \in Workers, JobOK(v),
         job'[v] = job[v], pc'[v] = pc[v], draft'[v] = draft[v],
         OnPayment(v) =>
           /\ status'[job[v].tx] = status[job[v].tx]
           /\ columns'[job[v].tx] = columns[job[v].tx]
           /\ rowLock[job[v].tx] = v => rowLock'[job[v].tx] = v
  PROVE  JobOK(v)'
BY DEF JobOK, Claimed, Row, OnPayment, PaymentLabels, CreateLabels

\* Every step respects the claims of the others.
LEMMA RowStep ==
  ASSUME TypeInv, RowInv, [Next]_vars
  PROVE  RowInv'
<1> USE PaymentsAssumption DEF TypeInv, TypeOK, TablesType, LocksType, SessionType, SessionOK,
      OnPayment, PaymentLabels, CreateLabels, Jobs, Busy, Goto, tables, cardTable, locks, session,
      history, RowInv, JobsOK, JobOK, TxUnique, Claimed, Row
<1>1. CASE UNCHANGED vars
  BY <1>1 DEF vars
<1>2. ASSUME NEW w \in Workers, NEW r \in Requests, Submit(w, r) PROVE RowInv'
  BY <1>2 DEF Submit, Fresh
<1>3. ASSUME NEW w \in Workers, NEW t \in Txns, Process(w, t) PROVE RowInv'
  <2>1. job' = [job EXCEPT ![w] = job'[w]] /\ job'[w].tx = t /\ Row(job'[w]) = columns[t]
    BY <1>3 DEF Process, RowsOK, Columns
  <2>2. /\ status[t] # "absent" /\ pc[w] = "idle" /\ pc' = [pc EXCEPT ![w] = "claim"]
        /\ UNCHANGED <<tables, locks, draft>>
    BY <1>3 DEF Process
  <2>3. JobsOK'
    BY <2>1, <2>2
  <2>4. TxUnique'
    BY <2>1, <2>2
  <2> QED
    BY <2>3, <2>4
<1>4. ASSUME NEW w \in Workers, NEW a \in Accounts, NEW n \in Deposits, Deposit(w, a, n)
      PROVE  RowInv'
  <2>1. /\ job' = [job EXCEPT ![w] = job'[w]] /\ job'[w].tx = None
        /\ pc' = [pc EXCEPT ![w] = "credit"]
        /\ UNCHANGED <<tables, locks, draft>>
    BY <1>4 DEF Deposit
  <2>2. JobsOK'
    BY <2>1
  <2>3. TxUnique'
    BY <2>1
  <2> QED
    BY <2>2, <2>3
<1>5. ASSUME NEW w \in Workers, CardFound(w) PROVE RowInv'
  BY <1>5 DEF CardFound
<1>6. ASSUME NEW w \in Workers, KeepsJob(w) PROVE RowInv'
  <2>1. JobsOK'
    BY <1>6 DEF KeepsJob, CardMissing, InsertCard, ReferenceCard, CommitCard, ReleaseLocks,
       RouteScheduled, InsertRow, ProcessNational, AddBalance
  <2>2. TxUnique'
    BY <1>6 DEF KeepsJob, CardMissing, InsertCard, ReferenceCard, CommitCard, RouteScheduled,
       InsertRow, ProcessNational, AddBalance
  <2> QED
    BY <2>1, <2>2
<1>7. ASSUME NEW w \in Workers, RouteInternational(w) \/ RouteCredit(w) \/ RouteDebit(w)
      PROVE  RowInv'
  <2>1. /\ job' = [job EXCEPT ![w] = job'[w]]
        /\ job'[w].tx = job[w].tx /\ job'[w].later = FALSE
        /\ pc[w] = "route" /\ draft[w] = "none"
        /\ pc' = [pc EXCEPT ![w] = pc'[w]] /\ pc'[w] \in {"lock", "publish", "commit"}
        /\ draft' = [draft EXCEPT ![w] = draft'[w]] /\ draft'[w] # "scheduled"
        /\ UNCHANGED <<tables, rowLock>>
    BY <1>7 DEF RouteInternational, RouteCredit, RouteDebit, InsertRow, Immediate
  <2>2. JobsOK'
    <3>0. status[job[w].tx] = "absent"
      BY <2>1
    <3>1. status'[job'[w].tx] = "absent"
      BY <2>1, <3>0
    <3>2. ASSUME NEW v \in Workers \ {w}
          PROVE  JobOK(v)'
      BY <2>1, JobKept
    <3>3. JobOK(w)'
      BY <2>1, <3>1
    <3> QED
      BY <3>2, <3>3, ZenonT(30)
  <2>3. TxUnique'
    BY <2>1
  <2> QED
    BY <2>2, <2>3
<1>8. ASSUME NEW w \in Workers, Claim(w) PROVE RowInv'
  <2>1. /\ pc[w] = "claim" /\ status[job[w].tx] = "scheduled" /\ rowLock[job[w].tx] = None
        /\ rowLock' = [rowLock EXCEPT ![job[w].tx] = w]
        /\ pc' = [pc EXCEPT ![w] = pc'[w]] /\ pc'[w] \in {"lock", "publish", "commit"}
        /\ draft' = [draft EXCEPT ![w] = draft'[w]]
        /\ UNCHANGED <<tables, job>>
    BY <1>8 DEF Claim, ClaimRow
  <2>2. JobsOK'
    <3>1. Claimed(w)'
      BY <2>1
    <3>2. ASSUME NEW v \in Workers \ {w}
          PROVE  JobOK(v)'
      BY <2>1, JobKept
    <3> QED
      BY <2>1, <3>1, <3>2
  <2>3. TxUnique'
    BY <2>1
  <2> QED
    BY <2>2, <2>3
<1>9. ASSUME NEW w \in Workers, Fail(w), UNCHANGED <<status, columns>> PROVE RowInv'
  <2>1. pc'[w] = "idle"
    BY <1>9, FailFrame
  <2>2. ASSUME NEW v \in Workers \ {w}
        PROVE  JobOK(v)' /\ job'[v] = job[v] /\ pc'[v] = pc[v]
    <3>1. OnPayment(v) /\ rowLock[job[v].tx] = v => rowLock'[job[v].tx] = v
      <4>1. OnPayment(v) => job[v].tx \in Txns
        OBVIOUS
      <4>2. \A t \in Txns : rowLock[t] = v => rowLock'[t] = v
        BY <1>9, FailFrame
      <4> QED
        BY <4>1, <4>2
    <3> QED
      BY <1>9, <3>1, FailFrame, JobKept
  <2>3. JobsOK'
    BY <2>1, <2>2, ZenonT(30)
  <2>4. ASSUME NEW u \in Workers, NEW v \in Workers, u # v, pc'[u] # "idle", pc'[v] # "idle",
               job'[u].tx \in Txns, job'[u].tx = job'[v].tx
        PROVE  status'[job'[u].tx] # "absent"
    <3>1. u # w /\ v # w
      BY <2>1, <2>4
    <3>2. /\ job'[u] = job[u] /\ job'[v] = job[v] /\ pc[u] # "idle" /\ pc[v] # "idle"
      BY <2>2, <2>4, <3>1
    <3> QED
      BY <1>9, <2>4, <3>2
  <2>5. TxUnique'
    BY <2>4
  <2> QED
    BY <2>3, <2>5
<1>10. ASSUME NEW w \in Workers, Publish(w) PROVE RowInv'
  <2>1. CASE Fail(w)
    BY <1>9, <1>10, <2>1 DEF Publish
  <2>2. CASE ~Fail(w)
    BY <1>10, <2>2 DEF Publish
  <2> QED
    BY <2>1, <2>2
<1>11. ASSUME NEW w \in Workers, Commit(w) PROVE RowInv'
  <2>1. Fail(w)
    BY <1>11 DEF Commit, Fail
  <2>2. CASE draft[w] = "none"
    BY <1>9, <1>11, <2>1, <2>2 DEF Commit
  <2>3. CASE draft[w] # "none"
    <3> DEFINE t == job[w].tx
    <3>1. /\ t \in Txns /\ draft[w] # "absent"
          /\ status' = [status EXCEPT ![t] = draft[w]]
          /\ status[t] = "absent" \/ columns' = columns
      BY <1>11, <2>3 DEF Commit, Statuses
    <3>2. \A u \in Txns \ {t} : columns'[u] = columns[u]
      BY <1>11, <2>3, <3>1 DEF Commit
    <3>3. ASSUME NEW v \in Workers \ {w}, pc[v] # "idle", job[v].tx = t
          PROVE  pc[v] = "claim" \/ ~OnPayment(v)
      <4>1. OnPayment(w) /\ pc[w] = "commit"
        BY <1>11, <2>3 DEF Commit
      <4>2. CASE Claimed(w)
        <5>1. status[t] = "scheduled" /\ rowLock[t] = w
          BY <4>2
        <5>2. pc[v] \notin CreateLabels
          BY <3>3, <5>1
        <5>3. SUFFICES ASSUME OnPayment(v), pc[v] \in {"lock", "publish", "commit"} PROVE FALSE
          BY <3>3, <5>2
        <5>4. Claimed(v)
          BY <3>3, <5>1, <5>3
        <5> QED
          BY <3>3, <5>1, <5>4
      <4>3. CASE status[t] = "absent"
        BY <3>1, <3>3, <4>1, <4>3
      <4> QED
        BY <4>1, <4>2, <4>3
    <3>4. JobsOK'
      BY <2>1, <3>1, <3>2, <3>3, FailFrame
    <3>5. TxUnique'
      BY <2>1, <3>1, FailFrame
    <3> QED
      BY <3>4, <3>5
  <2> QED
    BY <2>2, <2>3
<1>12. ASSUME NEW w \in Workers, Failing(w) PROVE RowInv'
  BY <1>9, <1>12, FailingStep
<1> QED
  BY <1>1, <1>2, <1>3, <1>4, <1>5, <1>6, <1>7, <1>8, <1>10, <1>11, <1>12
  DEF Next, Start, Step, ResolveCard, Route, Failing, KeepsJob

(***************************************************************************)
(* Outcomes: what a committed status says about the balance and the queue  *)
(***************************************************************************)
\* What a request is about to commit is an outcome of the routing rules.
DraftOf(w) ==
  pc[w] = "commit" /\ draft[w] # "none" =>
    /\ \/ draft[w] = "scheduled" /\ status[job[w].tx] = "absent"
       \/ draft[w] \in Lifecycle!Outcomes(job[w])
    /\ orm[w] = "dirty" <=> /\ draft[w] = "completed"
                            /\ job[w].type = "national" /\ job[w].method = "debit"
    /\ draft[w] = "pending" => sent[job[w].tx] > 0

DraftOK == \A w \in Workers : DraftOf(w)

OutcomeInv == DraftOK /\ PendingWasPublished /\ ChargedOnceIffCompleted

\* The steps after which the worker that takes them is not about to commit.
KeepsDrafts(w) ==
  \/ CardFound(w) \/ CardMissing(w) \/ InsertCard(w) \/ ReferenceCard(w) \/ CommitCard(w)
  \/ RouteDebit(w) \/ RouteInternational(w)

\* A worker that does nothing keeps its draft while its row is left alone.
LEMMA DraftKept ==
  ASSUME NEW v \in Workers, DraftOf(v),
         job'[v] = job[v], pc'[v] = pc[v], draft'[v] = draft[v], orm'[v] = orm[v],
         pc[v] = "commit" /\ draft[v] # "none" =>
           /\ draft[v] = "scheduled" => status'[job[v].tx] = status[job[v].tx]
           /\ sent[job[v].tx] > 0 => sent'[job[v].tx] > 0
  PROVE  DraftOf(v)'
BY DEF DraftOf, Lifecycle!Outcomes

\* Every step keeps drafts, the queue and the deductions in line with the rows.
LEMMA OutcomeStep ==
  ASSUME TypeInv, RowInv, OutcomeInv, [Next]_vars
  PROVE  OutcomeInv'
<1> USE PaymentsAssumption DEF TypeInv, TypeOK, TablesType, LocksType, SessionType, HistoryType,
      SessionOK, OnPayment, PaymentLabels, CreateLabels, Jobs, Busy, Goto, tables, cardTable,
      locks, session, history, RowInv, JobsOK, JobOK, OutcomeInv, DraftOK, DraftOf,
      PendingWasPublished, ChargedOnceIffCompleted, Lifecycle!Outcomes
<1>1. CASE UNCHANGED vars
  BY <1>1 DEF vars
<1>2. ASSUME NEW w \in Workers, NEW r \in Requests, Submit(w, r) PROVE OutcomeInv'
  BY <1>2 DEF Submit
<1>3. ASSUME NEW w \in Workers, NEW t \in Txns, Process(w, t) PROVE OutcomeInv'
  BY <1>3 DEF Process, LoadAccount
<1>4. ASSUME NEW w \in Workers, NEW a \in Accounts, NEW n \in Deposits, Deposit(w, a, n)
      PROVE  OutcomeInv'
  BY <1>4 DEF Deposit, LoadAccount
<1>5. ASSUME NEW w \in Workers, KeepsDrafts(w) PROVE OutcomeInv'
  BY <1>5 DEF KeepsDrafts, CardFound, CardMissing, InsertCard, ReferenceCard, CommitCard,
     RouteDebit, RouteInternational, InsertRow, Immediate, LoadAccount
<1>6. ASSUME NEW w \in Workers, RouteScheduled(w) PROVE OutcomeInv'
  <2>1. /\ pc[w] = "route" /\ orm[w] # "dirty" /\ status[job[w].tx] = "absent"
        /\ pc' = [pc EXCEPT ![w] = "commit"] /\ draft' = [draft EXCEPT ![w] = "scheduled"]
        /\ UNCHANGED <<tables, sent, job, orm, charged>>
    BY <1>6 DEF RouteScheduled, InsertRow
  <2> QED
    BY <2>1
<1>7. ASSUME NEW w \in Workers, RouteCredit(w) PROVE OutcomeInv'
  BY <1>7 DEF RouteCredit, InsertRow, Immediate
<1>8. ASSUME NEW w \in Workers, Claim(w) PROVE OutcomeInv'
  BY <1>8 DEF Claim, ClaimRow
<1>9. ASSUME NEW w \in Workers, ProcessNational(w) PROVE OutcomeInv'
  BY <1>9 DEF ProcessNational
<1>10. ASSUME NEW w \in Workers, AddBalance(w) PROVE OutcomeInv'
  BY <1>10 DEF AddBalance
<1>11. ASSUME NEW w \in Workers, Fail(w), UNCHANGED <<tables, charged>>,
              \A t \in Txns : sent[t] > 0 => sent'[t] > 0
       PROVE  OutcomeInv'
  <2>1. ASSUME NEW v \in Workers \ {w} PROVE DraftOf(v)'
    BY <1>11, <2>1, FailFrame, DraftKept
  <2>2. DraftOf(w)'
    BY <1>11, FailFrame
  <2> QED
    BY <1>11, <2>1, <2>2
<1>12. ASSUME NEW w \in Workers, Publish(w) PROVE OutcomeInv'
  <2>1. /\ job[w].tx \in Txns /\ pc[w] = "publish" /\ orm[w] # "dirty"
        /\ job[w].type = "international" /\ draft[w] = "pending"
    BY <1>12 DEF Publish
  <2>2. /\ sent'[job[w].tx] > 0
        /\ \A t \in Txns : sent[t] > 0 => sent'[t] > 0
    <3>1. sent' = [sent EXCEPT ![job[w].tx] = IF @ < 2 THEN @ + 1 ELSE @]
      BY <1>12 DEF Publish
    <3>2. sent \in [Txns -> 0..2]
      OBVIOUS
    <3> HIDE DEF TypeInv, TypeOK, RowInv, OutcomeInv
    <3> QED
      BY <2>1, <3>1, <3>2
  <2>3. UNCHANGED <<tables, charged>>
    BY <1>12 DEF Publish
  <2>4. CASE Fail(w)
    BY <1>11, <2>2, <2>3, <2>4
  <2>5. CASE /\ pc' = [pc EXCEPT ![w] = "commit"]
             /\ UNCHANGED <<job, orm, draft>>
    <3>1. ASSUME NEW v \in Workers \ {w} PROVE DraftOf(v)'
      BY <2>2, <2>3, <2>5, <3>1, DraftKept
    <3>2. DraftOf(w)'
      BY <2>1, <2>2, <2>3, <2>5
    <3> QED
      BY <2>2, <2>3, <3>1, <3>2
  <2> QED
    BY <1>12, <2>4, <2>5 DEF Publish
<1>13. ASSUME NEW w \in Workers, Commit(w) PROVE OutcomeInv'
  <2> DEFINE t == job[w].tx
  <2>1. Fail(w) /\ UNCHANGED sent /\ pc[w] = "commit"
    BY <1>13 DEF Commit, Fail
  <2>2. CASE draft[w] = "none"
    <3>1. ASSUME NEW v \in Workers \ {w} PROVE DraftOf(v)'
      BY <1>13, <2>1, <2>2, <3>1, FailFrame, DraftKept DEF Commit
    <3>2. DraftOf(w)'
      BY <2>1, FailFrame
    <3> QED
      BY <1>13, <2>2, <3>1, <3>2 DEF Commit
  <2>3. CASE draft[w] # "none"
    <3>1. t \in Txns /\ OnPayment(w) /\ DraftOf(w)
      BY <2>1, <2>3
    <3>2. /\ status' = [status EXCEPT ![t] = draft[w]]
          /\ columns' = IF status[t] = "absent"
                       THEN [columns EXCEPT ![t] = Row(job[w])] ELSE columns
          /\ charged' = IF orm[w] = "dirty" THEN [charged EXCEPT ![t] = @ + 1] ELSE charged
      BY <1>13, <2>3 DEF Commit
    <3>3. columns'[t].type = job[w].type /\ columns'[t].method = job[w].method
      BY <2>1, <2>3, <3>1, <3>2 DEF Claimed, Row
    <3>4. charged[t] = 0
      BY <2>1, <2>3, <3>1 DEF Claimed
    <3>5. PendingWasPublished' /\ ChargedOnceIffCompleted'
      BY <2>1, <2>3, <3>1, <3>2, <3>3, <3>4
    <3>6. ASSUME NEW v \in Workers \ {w} PROVE DraftOf(v)'
      <4>1. /\ DraftOf(v) /\ UNCHANGED sent
            /\ job'[v] = job[v] /\ pc'[v] = pc[v] /\ draft'[v] = draft[v] /\ orm'[v] = orm[v]
        BY <2>1, <3>6, FailFrame
      <4>2. ASSUME pc[v] = "commit", draft[v] = "scheduled", job[v].tx = t PROVE FALSE
        BY <2>1, <2>3, <3>1, <3>6, <4>2 DEF TxUnique, Claimed
      <4> QED
        BY <3>2, <4>1, <4>2, DraftKept
    <3>7. DraftOf(w)'
      BY <2>1, FailFrame
    <3> QED
      BY <3>5, <3>6, <3>7
  <2> QED
    BY <2>2, <2>3
<1>14. ASSUME NEW w \in Workers, Failing(w) PROVE OutcomeInv'
  BY <1>11, <1>14, FailingStep
<1> QED
  BY <1>1, <1>2, <1>3, <1>4, <1>5, <1>6, <1>7, <1>8, <1>9, <1>10, <1>12, <1>13, <1>14
  DEF Next, Start, Step, ResolveCard, Route, Failing, KeepsDrafts

\* No request works on a row at the start.
LEMMA RowInit == Init => RowInv
BY DEF Init, RowInv, JobsOK, JobOK, TxUnique, OnPayment, PaymentLabels, CreateLabels

\* Nothing has been routed, sent or deducted at the start.
LEMMA OutcomeInit == Init => OutcomeInv
BY DEF Init, OutcomeInv, DraftOK, DraftOf, PendingWasPublished, ChargedOnceIffCompleted

\* The invariants about rows and outcomes, together.
LEMMA RowsAndOutcomes == Spec => [](TypeInv /\ RowInv /\ OutcomeInv)
<1>1. Init => RowInv /\ OutcomeInv
  BY RowInit, OutcomeInit
<1>2. TypeInv /\ RowInv /\ OutcomeInv /\ [Next]_vars => RowInv' /\ OutcomeInv'
  BY RowStep, OutcomeStep
<1> QED
  BY <1>1, <1>2, SessionsTyped, PTL DEF Spec

\* The deduction of a national debit and its status are committed together, once,
\* whichever requests create, claim or process the row and whatever fails.
THEOREM ChargedExactlyOnce == Spec => []ChargedOnceIffCompleted
<1>1. OutcomeInv => ChargedOnceIffCompleted
  BY DEF OutcomeInv
<1> QED
  BY <1>1, RowsAndOutcomes, PTL

\* A committed pending payment is in the queue.
THEOREM PendingPublished == Spec => []PendingWasPublished
<1>1. OutcomeInv => PendingWasPublished
  BY DEF OutcomeInv
<1> QED
  BY <1>1, RowsAndOutcomes, PTL

(***************************************************************************)
(* The table implements TransactionLifecycle                               *)
(***************************************************************************)
\* A commit of a payment records its row or executes the deferred row it claimed.
LEMMA CommitWritesRow ==
  ASSUME TypeInv, RowInv, OutcomeInv,
         NEW w \in Workers, Commit(w), draft[w] # "none"
  PROVE  /\ job[w].tx \in Txns
         /\ Lifecycle!Record(job[w].tx) \/ Lifecycle!Execute(job[w].tx)
         /\ status'[job[w].tx] = draft[w] /\ columns'[job[w].tx] = Row(job[w])
<1> DEFINE t == job[w].tx
<1>1. /\ t \in Txns /\ OnPayment(w) /\ pc[w] = "commit" /\ JobOK(w)
      /\ Row(job[w]) \in Columns
  BY RowType DEF TypeInv, SessionOK, OnPayment, Commit, RowInv, JobsOK
<1>2. /\ status' = [status EXCEPT ![t] = draft[w]]
      /\ columns' = IF status[t] = "absent" THEN [columns EXCEPT ![t] = Row(job[w])] ELSE columns
  BY DEF Commit
<1>3. columns \in [Txns -> Columns \cup {None}] /\ status'[t] = draft[w]
  BY <1>1, <1>2 DEF TypeInv, TypeOK, TablesType
<1>4. \/ draft[w] = "scheduled" /\ status[t] = "absent"
      \/ draft[w] \in Lifecycle!Outcomes(job[w])
  BY <1>1 DEF OutcomeInv, DraftOK, DraftOf
<1>5. Lifecycle!Outcomes(Row(job[w])) = Lifecycle!Outcomes(job[w])
  BY DEF Row, Lifecycle!Outcomes
<1>6. CASE status[t] = "absent"
  <2>1. columns'[t] = Row(job[w]) /\ columns' = [columns EXCEPT ![t] = columns'[t]]
    BY <1>1, <1>2, <1>3, <1>6
  <2>2. columns'[t].later <=> draft[w] = "scheduled"
    BY <1>1, <1>6, <2>1 DEF JobOK, Claimed, Row
  <2>3. draft[w] \in IF columns'[t].later THEN {"scheduled"} ELSE Lifecycle!Outcomes(columns'[t])
    BY <1>4, <1>5, <2>1, <2>2
  <2> QED
    BY <1>1, <1>2, <1>3, <1>6, <2>1, <2>3 DEF Lifecycle!Record, Lifecycle!Insert
<1>7. CASE status[t] # "absent"
  <2>1. status[t] = "scheduled" /\ columns[t] = Row(job[w])
    BY <1>1, <1>7 DEF JobOK, Claimed
  <2>2. draft[w] \in Lifecycle!Outcomes(columns[t])
    BY <1>4, <1>5, <1>7, <2>1
  <2> QED
    BY <1>1, <1>2, <1>3, <1>7, <2>1, <2>2 DEF Lifecycle!Execute
<1> QED
  BY <1>6, <1>7

\* Nothing but a commit changes a balance or a row.
LEMMA OnlyCommitWrites ==
  ASSUME NEW w \in Workers, ~Commit(w), Start(w) \/ Step(w) \/ Abort(w)
  PROVE  UNCHANGED <<balance, status, columns>>
<1>1. CASE Failing(w)
  BY <1>1, FailingStep DEF tables
<1> QED
  BY <1>1 DEF Start, Step, ResolveCard, Route, Failing, Submit, Process, Deposit, CardFound,
     CardMissing, InsertCard, ReferenceCard, CommitCard, RouteScheduled, RouteInternational,
     RouteCredit, RouteDebit, InsertRow, Claim, ClaimRow, ProcessNational, AddBalance, Publish, tables

\* Every step is a step of TransactionLifecycle or leaves the table alone.
LEMMA LifecycleStep ==
  ASSUME TypeInv, RowInv, OutcomeInv, [Next]_vars
  PROVE  [Lifecycle!Next]_<<status, columns>>
<1>1. ASSUME NEW w \in Workers, Commit(w), draft[w] # "none"
      PROVE  Lifecycle!Next
  BY <1>1, CommitWritesRow DEF Lifecycle!Next
<1>2. ASSUME NEW w \in Workers, Commit(w), draft[w] = "none"
      PROVE  UNCHANGED <<status, columns>>
  BY <1>2 DEF Commit
<1> QED
  BY <1>1, <1>2, OnlyCommitWrites DEF Next, vars, tables

\* Whatever requests overlap and wherever they fail, the table shows its readers
\* rows that are written once, routed by the rules and executed at most once.
THEOREM ImplementsLifecycle == Spec => LifecycleSpec
<1>1. Init => Lifecycle!Init
  BY DEF Init, Lifecycle!Init
<1> QED
  BY <1>1, LifecycleStep, RowsAndOutcomes, PTL DEF Spec, LifecycleSpec, Lifecycle!Spec

(***************************************************************************)
(* Messages: what the queue gets                                           *)
(***************************************************************************)
\* A request that is about to publish creates its row, or has claimed it.
LEMMA PublisherOwnsRow ==
  ASSUME TypeInv, RowInv, NEW w \in Workers, Publish(w)
  PROVE  /\ job[w].tx \in Txns /\ pc[w] = "publish" /\ pc[w] # "idle" /\ OnPayment(w)
         /\ Claimed(w) \/ status[job[w].tx] = "absent"
         /\ \A t \in Txns \ {job[w].tx} : sent'[t] = sent[t]
         /\ sent'[job[w].tx] <= sent[job[w].tx] + 1
<1>1. /\ pc[w] = "publish" /\ OnPayment(w) /\ job[w].tx \in Txns
      /\ sent' = [sent EXCEPT ![job[w].tx] = IF @ < 2 THEN @ + 1 ELSE @]
  BY DEF Publish, TypeInv, SessionOK, OnPayment, PaymentLabels
<1>2. sent \in [Txns -> 0..2]
  BY DEF TypeInv, TypeOK, TablesType
<1>3. Claimed(w) \/ status[job[w].tx] = "absent"
  BY <1>1 DEF RowInv, JobsOK, JobOK
<1> QED
  BY <1>1, <1>2, <1>3

\* Only Publish puts a message into the queue.
LEMMA OnlyPublishSends ==
  ASSUME NEW w \in Workers, ~Publish(w), Start(w) \/ Step(w) \/ Abort(w)
  PROVE  UNCHANGED sent
<1>1. CASE Failing(w)
  BY <1>1, FailingStep
<1> QED
  BY <1>1 DEF Start, Step, ResolveCard, Route, Failing, Submit, Process, Deposit, CardFound,
     CardMissing, InsertCard, ReferenceCard, CommitCard, RouteScheduled, RouteInternational,
     RouteCredit, RouteDebit, InsertRow, Claim, ClaimRow, ProcessNational, AddBalance, Commit

\* Whatever a request saw when it started, it publishes no payment that has been
\* executed since: the claim looks at the status again, and keeps the row.
THEOREM NeverPublishedAgain == Spec => NoPublishAfterCommit
<1> DEFINE Silent == \A t \in Txns : status[t] \notin {"absent", "scheduled"} => sent'[t] = sent[t]
<1>1. ASSUME TypeInv, RowInv, NEW w \in Workers, Publish(w)
      PROVE  Silent
  BY <1>1, PublisherOwnsRow DEF Claimed
<1>2. ASSUME TypeInv, RowInv, [Next]_vars
      PROVE  [Silent]_vars
  BY <1>1, <1>2, OnlyPublishSends DEF Next
<1> QED
  BY <1>2, RowsAndOutcomes, PTL DEF Spec, NoPublishAfterCommit

\* While no message is orphaned, a request publishes a payment that has no message.
LEMMA PublishStep ==
  ASSUME TypeInv, RowInv, NoMessageOrphaned, PublishedAtMostOnce, [Next]_vars
  PROVE  PublishedAtMostOnce'
<1>1. ASSUME NEW w \in Workers, Publish(w)
      PROVE  PublishedAtMostOnce'
  <2> DEFINE t == job[w].tx
  <2>1. /\ t \in Txns /\ pc[w] = "publish" /\ OnPayment(w)
        /\ Claimed(w) \/ status[t] = "absent"
        /\ \A u \in Txns \ {t} : sent'[u] = sent[u]
        /\ sent'[t] <= sent[t] + 1
    BY <1>1, PublisherOwnsRow
  <2>2. ASSUME NEW v \in Workers, pc[v] = "commit", draft[v] = "pending", job[v].tx = t
        PROVE  FALSE
    <3>1. v # w /\ OnPayment(v)
      BY <2>1, <2>2 DEF OnPayment
    <3>2. Claimed(v) \/ status[t] = "absent"
      BY <2>2, <3>1 DEF RowInv, JobsOK, JobOK
    <3>3. status[t] # "absent"
      BY <2>1, <2>2, <3>1 DEF RowInv, TxUnique
    <3> QED
      BY <2>1, <2>2, <3>1, <3>2, <3>3 DEF Claimed
  <2>3. sent[t] \in 0..2 /\ ~(sent[t] > 0)
    BY <2>1, <2>2 DEF NoMessageOrphaned, Claimed, TypeInv, TypeOK, TablesType
  <2> QED
    BY <2>1, <2>3 DEF PublishedAtMostOnce
<1>2. CASE UNCHANGED sent
  BY <1>2 DEF PublishedAtMostOnce
<1> QED
  BY <1>1, <1>2, OnlyPublishSends DEF Next, vars

\* As long as no commit fails after send_message, a payment is published once, for
\* any number of requests that overlap and fail elsewhere.
THEOREM PublishedOnce == Spec => PublishedOnceIfCommitted
<1>1. Init => PublishedAtMostOnce
  BY DEF Init, PublishedAtMostOnce
<1>2. TypeInv /\ RowInv /\ NoMessageOrphaned /\ PublishedAtMostOnce /\ [Next]_vars
        => PublishedAtMostOnce'
  BY PublishStep
<1> QED
  BY <1>1, <1>2, RowsAndOutcomes, PTL DEF Spec, PublishedOnceIfCommitted

(***************************************************************************)
(* Locks: no deadlock                                                      *)
(***************************************************************************)

\* Lock holders: where a request can be while others wait for it.
HoldersOK ==
  /\ \A a \in Accounts, w \in Workers : accountLock[a] = w => pc[w] = "commit"
  /\ \A a \in Accounts, w \in Workers :
       w \in keyShare[a] => pc[w] \in {"commit_card", "publish", "commit"}
  /\ \A t \in Txns, w \in Workers : rowLock[t] = w => pc[w] \in {"lock", "publish", "commit"}
  /\ \A c \in Cards, w \in Workers : cardLock[c] = w => pc[w] \in {"reference_card", "commit_card"}

\* A lock is held only by a request that has got beyond every wait but the one
\* for its account.
LEMMA HoldersStep ==
  ASSUME TypeInv, HoldersOK, [Next]_vars
  PROVE  HoldersOK'
<1> USE PaymentsAssumption DEF TypeInv, TypeOK, LocksType, SessionType, Busy, Goto, locks,
      HoldersOK
<1>1. CASE UNCHANGED vars
  BY <1>1 DEF vars, session
<1>2. ASSUME NEW w \in Workers,
             pc[w] \notin {"reference_card", "commit_card", "lock", "publish", "commit"},
             pc' = [pc EXCEPT ![w] = pc'[w]], UNCHANGED locks
      PROVE  HoldersOK'
  BY <1>2, SMTT(30)
<1>3. ASSUME NEW w \in Workers, Start(w) \/ CardFound(w) \/ CardMissing(w) \/ RouteDebit(w)
      PROVE  HoldersOK'
  <2>1. /\ pc[w] \notin {"reference_card", "commit_card", "lock", "publish", "commit"}
        /\ pc' = [pc EXCEPT ![w] = pc'[w]]
        /\ UNCHANGED locks
    BY <1>3 DEF Start, Submit, Process, Deposit, CardFound, CardMissing, RouteDebit
  <2> QED
    BY <1>2, <2>1
<1>4. ASSUME NEW w \in Workers, InsertCard(w) \/ ReferenceCard(w) PROVE HoldersOK'
  <2>1. CASE InsertCard(w)
    BY <2>1 DEF InsertCard
  <2>2. CASE ReferenceCard(w)
    BY <2>2 DEF ReferenceCard, Reference
  <2> QED
    BY <1>4, <2>1, <2>2
<1>5. ASSUME NEW w \in Workers, CommitCard(w) PROVE HoldersOK'
  BY <1>5 DEF CommitCard, ReleaseLocks
<1>6. ASSUME NEW w \in Workers, RouteScheduled(w) \/ RouteInternational(w) \/ RouteCredit(w)
      PROVE  HoldersOK'
  <2>1. /\ pc[w] = "route" /\ UNCHANGED <<accountLock, rowLock, cardLock>>
        /\ keyShare' = [keyShare EXCEPT ![job[w].origin] = @ \cup {w}]
        /\ pc' = [pc EXCEPT ![w] = pc'[w]] /\ pc'[w] \in {"publish", "commit"}
    BY <1>6 DEF RouteScheduled, RouteInternational, RouteCredit, InsertRow, Reference
  <2> QED
    BY <2>1
<1>7. ASSUME NEW w \in Workers, Claim(w) PROVE HoldersOK'
  <2>1. /\ pc[w] = "claim" /\ UNCHANGED <<accountLock, keyShare, cardLock>>
        /\ rowLock' = [rowLock EXCEPT ![job[w].tx] = w]
        /\ pc' = [pc EXCEPT ![w] = pc'[w]] /\ pc'[w] \in {"lock", "publish", "commit"}
    BY <1>7 DEF Claim, ClaimRow
  <2> QED
    BY <2>1
<1>8. ASSUME NEW w \in Workers, ProcessNational(w) \/ AddBalance(w) PROVE HoldersOK'
  <2>1. /\ pc[w] \in {"lock", "credit"} /\ UNCHANGED <<keyShare, rowLock, cardLock>>
        /\ accountLock' = [accountLock EXCEPT ![job[w].origin] = w]
        /\ pc' = [pc EXCEPT ![w] = "commit"]
    BY <1>8 DEF ProcessNational, AddBalance
  <2> QED
    BY <2>1
<1>9. ASSUME NEW w \in Workers, Fail(w) PROVE HoldersOK'
  <2>1. ASSUME NEW v \in Workers \ {w}
        PROVE  /\ pc'[v] = pc[v]
               /\ \A t \in Txns : rowLock'[t] = v => rowLock[t] = v
               /\ \A c \in Cards : cardLock'[c] = v => cardLock[c] = v
               /\ \A a \in Accounts :
                    /\ accountLock'[a] = v => accountLock[a] = v
                    /\ v \in keyShare'[a] => v \in keyShare[a]
    BY <1>9, FailFrame
  <2>2. /\ \A t \in Txns : rowLock'[t] # w
        /\ \A c \in Cards : cardLock'[c] # w
        /\ \A a \in Accounts : accountLock'[a] # w /\ w \notin keyShare'[a]
    BY <1>9, FailFrame
  <2> QED
    BY <2>1, <2>2
<1>10. ASSUME NEW w \in Workers, Publish(w) PROVE HoldersOK'
  <2>1. CASE Fail(w)
    BY <1>9, <2>1
  <2>2. CASE pc' = [pc EXCEPT ![w] = "commit"] /\ pc[w] = "publish" /\ UNCHANGED locks
    BY <2>2
  <2> QED
    BY <1>10, <2>1, <2>2 DEF Publish
<1>11. ASSUME NEW w \in Workers, Commit(w) \/ Failing(w) PROVE HoldersOK'
  BY <1>9, <1>11, FailingStep DEF Commit, Fail
<1> QED
  BY <1>1, <1>3, <1>4, <1>5, <1>6, <1>7, <1>8, <1>10, <1>11
  DEF Next, Step, ResolveCard, Route, Failing

\* No lock is held at the start.
LEMMA HoldersInit == Init => HoldersOK
BY PaymentsAssumption DEF Init, HoldersOK

\* The locks are ordered: a request that waits for a transactions row or a card
\* entry holds nothing, one that waits for an account holds at most such a row or
\* entry, and the holder of an account waits for nothing.
LEMMA LocksOrdered ==
  ASSUME TypeInv, HoldersOK
  PROVE  NoCircularWait
<1> USE DEF HoldersOK, WaitsFor
<1> SUFFICES ASSUME NEW S \in (SUBSET Workers) \ {{}}
             PROVE  \E w \in S : \A v \in S : ~WaitsFor(w, v)
  BY DEF NoCircularWait
<1>1. \A w \in S : Busy(w) => job[w] \in Jobs
  BY DEF TypeInv, SessionOK, Busy
<1>2. \A w \in S : OnPayment(w) => job[w].tx \in Txns /\ job[w].card \in Cards
  BY DEF TypeInv, SessionOK
<1>3. CASE \E w \in S : pc[w] \in {"commit_card", "publish", "commit"}
  BY <1>3
<1>4. CASE /\ ~\E w \in S : pc[w] \in {"commit_card", "publish", "commit"}
           /\ \E w \in S : pc[w] \in {"lock", "credit", "reference_card", "route"}
  <2>1. PICK w \in S : pc[w] \in {"lock", "credit", "reference_card", "route"}
    BY <1>4
  <2>2. job[w].origin \in Accounts
    BY <1>1, <2>1 DEF Busy, Jobs
  <2>3. ASSUME NEW v \in S
        PROVE  accountLock[job[w].origin] # v /\ v \notin keyShare[job[w].origin]
    BY <1>4, <2>2
  <2>4. \A v \in S : ~WaitsFor(w, v)
    BY <2>1, <2>3
  <2> QED
    BY <2>4
<1>5. CASE ~\E w \in S : pc[w] \in {"commit_card", "publish", "commit", "lock", "credit",
                                    "reference_card", "route"}
  <2>1. PICK w \in S : TRUE
    OBVIOUS
  <2>2. pc[w] \in {"claim", "insert_card"} => job[w].tx \in Txns /\ job[w].card \in Cards
    BY <1>2, <2>1 DEF OnPayment, PaymentLabels
  <2>3. \A v \in S : ~WaitsFor(w, v)
    BY <1>5, <2>1, <2>2
  <2> QED
    BY <2>3
<1> QED
  BY <1>3, <1>4, <1>5

\* No requests wait for each other in a circle, whatever they lock and in which order
\* they come.
THEOREM DeadlockFree == Spec => []NoCircularWait
<1> QED
  BY HoldersInit, HoldersStep, LocksOrdered, SessionsTyped, PTL DEF Spec

(***************************************************************************)
(* Cards                                                                   *)
(***************************************************************************)
CardsOK ==
  /\ \A w \in Workers :
       pc[w] \in {"reference_card", "commit_card"} =>
         cardLock[job[w].card] = w /\ cardOwner[job[w].card] = None

CardFollowed ==
  \A w \in Workers :
    OnPayment(w) /\ pc[w] \in {"route", "claim", "lock", "publish", "commit"} =>
      /\ cardOwner[job[w].card] = job[w].origin
      /\ cardType[job[w].card] = job[w].method

CardInv == CardsOK /\ CardFollowed /\ PaymentsMatchCards

\* The steps that neither settle a card nor commit a row.
KeepsCards(w) ==
  \/ \E r \in Requests : Submit(w, r)
  \/ \E a \in Accounts, n \in Deposits : Deposit(w, a, n)
  \/ CardMissing(w) \/ RouteScheduled(w)
  \/ Claim(w) \/ ProcessNational(w) \/ AddBalance(w)

\* Every step keeps payments, recorded or in progress, with the owner of their card.
LEMMA CardStep ==
  ASSUME TypeInv, RowInv, CardInv, [Next]_vars
  PROVE  CardInv'
<1> USE PaymentsAssumption DEF TypeInv, TypeOK, TablesType, LocksType, SessionType, HistoryType,
      SessionOK, RowsOK, OnPayment, PaymentLabels, CreateLabels, Jobs, Columns, Busy, Goto,
      tables, cardTable, locks, session, history, CardInv, CardsOK, CardFollowed,
      PaymentsMatchCards
<1>1. CASE UNCHANGED vars
  BY <1>1 DEF vars
<1>2. ASSUME NEW w \in Workers, KeepsCards(w) PROVE CardInv'
  BY <1>2, SMTT(30) DEF KeepsCards, Submit, Deposit, CardMissing, RouteScheduled, InsertRow,
     Claim, ClaimRow, ProcessNational, AddBalance
<1>3. ASSUME NEW w \in Workers, NEW t \in Txns, Process(w, t) PROVE CardInv'
  BY <1>3 DEF Process
<1>4. ASSUME NEW w \in Workers, CardFound(w) PROVE CardInv'
  BY <1>4 DEF CardFound
<1>5. ASSUME NEW w \in Workers, InsertCard(w) \/ ReferenceCard(w) PROVE CardInv'
  <2>1. CASE InsertCard(w)
    BY <2>1 DEF InsertCard
  <2>2. CASE ReferenceCard(w)
    BY <2>2 DEF ReferenceCard
  <2> QED
    BY <1>5, <2>1, <2>2
<1>6. ASSUME NEW w \in Workers, CommitCard(w) PROVE CardInv'
  <2> DEFINE c == job[w].card
  <2>1. /\ pc[w] = "commit_card" /\ c \in Cards /\ cardLock[c] = w /\ cardOwner[c] = None
        /\ pc' = [pc EXCEPT ![w] = "route"]
        /\ cardOwner' = [cardOwner EXCEPT ![c] = job[w].origin]
        /\ cardType' = [cardType EXCEPT ![c] = job[w].method]
        /\ UNCHANGED <<tables, job, draft>>
    BY <1>6 DEF CommitCard
  <2>2. \A v \in Workers \ {w} : pc[v] \in {"reference_card", "commit_card"} => job[v].card # c
    BY <2>1
  <2>3. \A v \in Workers \ {w}, x \in Cards : cardLock[x] = v => cardLock'[x] = v
    BY <1>6 DEF CommitCard, ReleaseLocks
  <2>4. CardsOK'
    BY <2>1, <2>2, <2>3
  <2>5. ASSUME NEW v \in Workers \ {w}, (OnPayment(v))',
               pc'[v] \in {"route", "claim", "lock", "publish", "commit"}
        PROVE  /\ cardOwner'[job'[v].card] = job'[v].origin
               /\ cardType'[job'[v].card] = job'[v].method
    <3>1. OnPayment(v) /\ pc'[v] = pc[v] /\ job'[v] = job[v] /\ job[v].card \in Cards
      BY <2>1, <2>5
    <3>2. cardOwner[job[v].card] = job[v].origin /\ cardType[job[v].card] = job[v].method
      BY <2>5, <3>1
    <3>3. job[v].card # c
      BY <2>1, <3>1, <3>2
    <3> QED
      BY <2>1, <3>1, <3>2, <3>3
  <2>6. CardFollowed'
    BY <2>1, <2>5
  <2>7. PaymentsMatchCards'
    BY <2>1
  <2> QED
    BY <2>4, <2>6, <2>7
<1>7. ASSUME NEW w \in Workers, RouteInternational(w) \/ RouteCredit(w) \/ RouteDebit(w)
      PROVE  CardInv'
  <2>1. /\ pc[w] = "route" /\ pc' = [pc EXCEPT ![w] = pc'[w]]
        /\ pc'[w] \in {"lock", "publish", "commit"}
        /\ job' = [job EXCEPT ![w] = job'[w]] /\ job'[w].card = job[w].card
        /\ job'[w].origin = job[w].origin /\ job'[w].method = job[w].method
        /\ draft' = [draft EXCEPT ![w] = draft'[w]]
        /\ UNCHANGED <<tables, cardTable, cardLock>>
    BY <1>7 DEF RouteInternational, RouteCredit, RouteDebit, InsertRow, Immediate
  <2> QED
    BY <2>1, SMTT(30)
<1>8. ASSUME NEW w \in Workers, Fail(w), UNCHANGED cardTable, PaymentsMatchCards' PROVE CardInv'
  <2>1. ASSUME NEW v \in Workers \ {w}
        PROVE  /\ pc'[v] = pc[v] /\ job'[v] = job[v] /\ draft'[v] = draft[v]
               /\ \A x \in Cards : cardLock[x] = v => cardLock'[x] = v
    BY <1>8, FailFrame
  <2>2. pc'[w] = "idle"
    BY <1>8, FailFrame
  <2>3. CardsOK'
    <3>1. ASSUME NEW v \in Workers, pc'[v] \in {"reference_card", "commit_card"}
          PROVE  cardLock'[job'[v].card] = v /\ cardOwner'[job'[v].card] = None
      <4>1. v # w
        BY <2>2, <3>1
      <4>2. pc[v] \in {"reference_card", "commit_card"} /\ job'[v] = job[v]
        BY <2>1, <3>1, <4>1
      <4>3. job[v].card \in Cards /\ cardLock[job[v].card] = v
        BY <4>2
      <4> QED
        BY <1>8, <2>1, <4>1, <4>2, <4>3
    <3> QED
      BY <3>1
  <2>4. CardFollowed'
    BY <1>8, <2>1, <2>2
  <2> QED
    BY <1>8, <2>3, <2>4
<1>9. ASSUME NEW w \in Workers, Publish(w) PROVE CardInv'
  <2>1. PaymentsMatchCards' /\ UNCHANGED cardTable
    BY <1>9 DEF Publish
  <2>2. CASE Fail(w)
    BY <1>8, <2>1, <2>2
  <2>3. CASE /\ pc[w] = "publish" /\ pc' = [pc EXCEPT ![w] = "commit"]
             /\ UNCHANGED <<locks, job, orm, cached, draft>>
    BY <2>1, <2>3
  <2> QED
    BY <1>9, <2>2, <2>3 DEF Publish
<1>10. ASSUME NEW w \in Workers, Commit(w) PROVE CardInv'
  <2>1. Fail(w) /\ UNCHANGED cardTable
    BY <1>10 DEF Commit, Fail
  <2>2. PaymentsMatchCards'
    BY <1>10 DEF Commit, Row
  <2> QED
    BY <1>8, <2>1, <2>2
<1>11. ASSUME NEW w \in Workers, Failing(w) PROVE CardInv'
  BY <1>8, <1>11, FailingStep
<1> QED
  BY <1>1, <1>2, <1>3, <1>4, <1>5, <1>6, <1>7, <1>9, <1>10, <1>11
  DEF Next, Start, Step, ResolveCard, Route, Failing, KeepsCards

\* No card and no payment is known at the start.
LEMMA CardInit == Init => CardInv
BY DEF Init, CardInv, CardsOK, CardFollowed, PaymentsMatchCards, OnPayment, PaymentLabels

\* A recorded payment left the account that owns its card and has the card's type.
THEOREM CardsRespected == Spec => []PaymentsMatchCards
<1>1. TypeInv /\ RowInv /\ CardInv /\ [Next]_vars => CardInv'
  BY CardStep
<1>2. CardInv => PaymentsMatchCards
  BY DEF CardInv
<1> QED
  BY <1>1, <1>2, CardInit, RowsAndOutcomes, PTL DEF Spec

=============================================================================

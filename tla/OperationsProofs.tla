--------------------------- MODULE OperationsProofs ---------------------------
(***************************************************************************)
(* The archive keeps its promises beside the tasks that execute deferred   *)
(* payments and across restarts of the process.                            *)
(***************************************************************************)
EXTENDS Operations, ArchiveProofs

\* What the tasks do to the transactions table is one payment, or nothing.
LEMMA TaskStepIsPayment ==
  ASSUME TaskStep
  PROVE  (\E t \in Txns : Transact(t)) \/ UNCHANGED vars
<1>1. UNCHANGED <<history, batch>> /\ Tasks!Next
  BY DEF TaskStep
<1>2. ASSUME NEW t \in Txns, Tasks!Post(t)
      PROVE  Transact(t)
  BY <1>1, <1>2 DEF Tasks!Post, Tasks!Bank!Insert, Tasks!Bank!Outcomes, Transact,
     Bank!Insert, Bank!Outcomes
<1>3. ASSUME NEW s \in Tasks!Sessions, NEW t \in Txns, Tasks!Execute(s, t)
      PROVE  Transact(t)
  BY <1>1, <1>3 DEF Tasks!Execute, Tasks!Bank!Execute, Tasks!Bank!Outcomes, Transact,
     Bank!Execute, Bank!Outcomes
<1>4. ASSUME NEW t \in Txns, Tasks!ComeDue(t)
      PROVE  UNCHANGED vars
  BY <1>1, <1>4 DEF Tasks!ComeDue, vars
<1>5. ASSUME NEW s \in Tasks!Sessions, NEW t \in Txns,
             Tasks!Conflict(s, t) \/ Tasks!RolledBack(s, t) \/ Tasks!BeginRefused(s, t)
      PROVE  UNCHANGED vars
  BY <1>1, <1>5 DEF Tasks!Conflict, Tasks!RolledBack, Tasks!BeginRefused, Tasks!Done, vars
<1>6. ASSUME NEW s \in Tasks!Sessions, Tasks!ListDue(s) \/ Tasks!Finish(s)
      PROVE  UNCHANGED vars
  BY <1>1, <1>6 DEF Tasks!ListDue, Tasks!Finish, vars
<1>7. ASSUME NEW s \in Tasks!Sessions, NEW t \in Txns, Tasks!Call(s, t)
      PROVE  UNCHANGED vars
  BY <1>1, <1>7 DEF Tasks!Call, vars
<1> QED
  BY <1>1, <1>2, <1>3, <1>4, <1>5, <1>6, <1>7 DEF Tasks!Next, Tasks!Process, Tasks!Sessions

\* A restart forgets batches and copies nothing.
LEMMA RestartIInv ==
  ASSUME IInv, Restart
  PROVE  IInv'
BY DEF Restart, IInv, TypeOK, Written, Prepared, Copied, HistoryFaithful, Image

LEMMA SystemNextIInv == IInv /\ [SystemNext]_systemVars => IInv'
<1> SUFFICES ASSUME IInv, [SystemNext]_systemVars
             PROVE  IInv'
  OBVIOUS
<1>1. CASE TaskStep
  BY <1>1, TaskStepIsPayment, NextIInv DEF Next
<1>2. ASSUME NEW j \in Jobs, JobStep(j)
      PROVE  IInv'
  BY <1>2, NextIInv DEF JobStep, Next
<1>3. CASE Restart
  BY <1>3, RestartIInv
<1>4. CASE UNCHANGED systemVars
  BY <1>4, NextIInv DEF systemVars
<1> QED
  BY <1>1, <1>2, <1>3, <1>4 DEF SystemNext

LEMMA SystemInductive == SystemSpec => []IInv
<1>1. SystemInit => IInv
  BY InitIInv DEF SystemInit
<1> QED
  BY <1>1, SystemNextIInv, PTL DEF SystemSpec

\* The archive's variables keep their types beside the tasks.
THEOREM SystemTypes == SystemSpec => []TypeOK
<1>1. IInv => TypeOK
  BY DEF IInv
<1> QED
  BY <1>1, SystemInductive, PTL

\* However cron tasks, calls, archive jobs and restarts interleave, every copy in
\* the warehouse equals its transaction.
THEOREM SystemWarehouseFaithful == SystemSpec => []HistoryFaithful
<1>1. IInv => HistoryFaithful
  BY DEF IInv
<1> QED
  BY <1>1, SystemInductive, PTL

\* A restart between the INSERT and the commit of a job does not make a later job copy
\* twice, beside any number of tasks, calls and jobs whose batches are disjoint.
THEOREM SystemIdempotent == SystemSpec => ([]DisjointBatches => []CopiedOnce)
<1>1. SystemInit => Pending /\ CopiedOnce
  BY DEF SystemInit, Init, Pending, CopiedOnce
<1>2. ASSUME DisjointBatches, IInv, Pending, CopiedOnce, [SystemNext]_systemVars
      PROVE  Pending' /\ CopiedOnce'
  <2>1. CASE TaskStep
    BY <1>2, <2>1, TaskStepIsPayment, NextOnce DEF Next
  <2>2. ASSUME NEW j \in Jobs, JobStep(j)
        PROVE  Pending' /\ CopiedOnce'
    BY <1>2, <2>2, NextOnce DEF JobStep, Next
  <2>3. CASE Restart
    BY <1>2, <2>3 DEF Restart, Pending, CopiedOnce
  <2>4. CASE UNCHANGED systemVars
    BY <1>2, <2>4, NextOnce DEF systemVars
  <2> QED
    BY <1>2, <2>1, <2>2, <2>3, <2>4 DEF SystemNext
<1> QED
  BY <1>1, <1>2, SystemInductive, PTL DEF SystemSpec

\* A restart closes jobs and commits nothing.
LEMMA RestartBounded ==
  ASSUME IInv, Bounded, Restart
  PROVE  Bounded'
<1> SUFFICES ASSUME NEW t \in Txns
             PROVE  Len(history'[t]) + Cardinality(Open(t)') <= Cardinality(Jobs)
  BY DEF Bounded
<1>1. Open(t)' = {} /\ history' = history
  BY DEF Restart, Open
<1>2. /\ Len(history[t]) \in Nat /\ Cardinality(Open(t)) \in Nat /\ Cardinality(Jobs) \in Nat
      /\ Len(history[t]) + Cardinality(Open(t)) <= Cardinality(Jobs)
  BY OpenJobs DEF Open, Bounded, IInv, TypeOK
<1>3. Cardinality(Open(t)') = 0
  BY <1>1, FS_EmptySet
<1> QED
  BY <1>1, <1>2, <1>3

\* Restarts between the INSERT and the commit of a job, and the jobs that run again
\* after them, do not add up: for any number of overlapping jobs a transaction has at
\* most as many copies as jobs can run at the same time.
THEOREM SystemCopiesBounded == SystemSpec => []CopiesBounded
<1>1. SystemInit => Bounded
  BY InitBounded DEF SystemInit
<1>2. ASSUME IInv, Bounded, [SystemNext]_systemVars
      PROVE  Bounded'
  <2>1. CASE TaskStep
    BY <1>2, <2>1, TaskStepIsPayment, NextBounded DEF Next
  <2>2. ASSUME NEW j \in Jobs, JobStep(j)
        PROVE  Bounded'
    BY <1>2, <2>2, NextBounded DEF JobStep, Next
  <2>3. CASE Restart
    BY <1>2, <2>3, RestartBounded
  <2>4. CASE UNCHANGED systemVars
    BY <1>2, <2>4, NextBounded DEF systemVars
  <2> QED
    BY <1>2, <2>1, <2>2, <2>3, <2>4 DEF SystemNext
<1> QED
  BY <1>1, <1>2, BoundedCopies, SystemInductive, PTL DEF SystemSpec
=============================================================================

----------------------------- MODULE ArchiveProofs -----------------------------
(***************************************************************************)
(* For any number of overlapping jobs: the archive never contradicts the   *)
(* bank, copies a transaction at most once for each job that can run at    *)
(* the same time, and once altogether as long as no two jobs that overlap  *)
(* have inserted copies of the same one.                                   *)
(***************************************************************************)
EXTENDS Archive, FiniteSetTheorems, TLAPS

\* A row that has been written has columns.
Written == \A t \in Txns : status[t] # "absent" => columns[t] \in Columns

\* A batch holds images of transactions that are final, as they still are.
Prepared ==
  \A j \in Jobs : batch[j] # None =>
    /\ DOMAIN batch[j] \subseteq Txns
    /\ \A t \in DOMAIN batch[j] : status[t] \in Final /\ batch[j][t] = Image(t)

\* A transaction that was copied is final.
Copied == \A t \in Txns : history[t] # <<>> => status[t] \in Final

IInv == TypeOK /\ Written /\ Prepared /\ Copied /\ HistoryFaithful

\* A payment writes a new row or executes a scheduled one: final rows stay.
LEMMA PaymentsKeepOutcomes ==
  ASSUME TypeOK, Written, NEW t \in Txns, Transact(t)
  PROVE  /\ status' \in [Txns -> Final \cup {"absent", "scheduled", "pending"}]
         /\ columns' \in [Txns -> Columns \cup {None}]
         /\ Written'
         /\ status[t] \in {"absent", "scheduled"}
         /\ \A u \in Txns \ {t} : status'[u] = status[u] /\ columns'[u] = columns[u]
<1>1. CASE Bank!Execute(t)
  BY <1>1 DEF TypeOK, Written, Bank!Execute, Bank!Outcomes, Final
<1>2. CASE \E c \in Columns : Bank!Insert(t, c)
  <2>1. PICK c \in Columns : Bank!Insert(t, c)
    BY <1>2
  <2>2. (IF c.later THEN {"scheduled"} ELSE Bank!Outcomes(c))
          \subseteq Final \cup {"scheduled", "pending"}
    BY DEF Bank!Outcomes, Final
  <2>3. PICK s \in Final \cup {"scheduled", "pending"} : status' = [status EXCEPT ![t] = s]
    BY <2>1, <2>2 DEF Bank!Insert
  <2>4. status[t] = "absent" /\ columns' = [columns EXCEPT ![t] = c]
    BY <2>1 DEF Bank!Insert
  <2> QED
    BY <2>3, <2>4 DEF TypeOK, Written
<1> QED
  BY <1>1, <1>2 DEF Transact

LEMMA InitIInv == Init => IInv
BY ArchiveAssumption
   DEF Init, Bank!Init, IInv, TypeOK, Written, Prepared, Copied, HistoryFaithful

LEMMA TransactIInv ==
  ASSUME IInv, NEW t \in Txns, Transact(t)
  PROVE  IInv'
<1>1. /\ status' \in [Txns -> Final \cup {"absent", "scheduled", "pending"}]
      /\ columns' \in [Txns -> Columns \cup {None}]
      /\ Written'
      /\ status[t] \in {"absent", "scheduled"}
      /\ \A u \in Txns \ {t} : status'[u] = status[u] /\ columns'[u] = columns[u]
  BY PaymentsKeepOutcomes DEF IInv
<1>2. UNCHANGED <<history, batch>>
  BY DEF Transact
<1>3. TypeOK'
  BY <1>1, <1>2 DEF IInv, TypeOK
<1>4. \A u \in Txns : status[u] \in Final =>
        status'[u] = status[u] /\ Image(u)' = Image(u)
  BY <1>1 DEF Final, Image
<1>5. Prepared'
  BY <1>2, <1>4 DEF IInv, Prepared
<1>6. Copied'
  BY <1>2, <1>4 DEF IInv, Copied
<1>7. HistoryFaithful'
  <2> SUFFICES ASSUME NEW u \in Txns, NEW i \in 1..Len(history[u])
               PROVE  history[u][i] = Image(u)'
    BY <1>2 DEF HistoryFaithful
  <2>1. history[u] # <<>>
    BY DEF IInv, TypeOK
  <2>2. Image(u)' = Image(u)
    BY <1>4, <2>1 DEF IInv, Copied
  <2> QED
    BY <2>2 DEF IInv, HistoryFaithful
<1> QED
  BY <1>1, <1>3, <1>5, <1>6, <1>7 DEF IInv

LEMMA CopyIInv ==
  ASSUME IInv, NEW j \in Jobs, Copy(j)
  PROVE  IInv'
<1> DEFINE b == [t \in Eligible |-> Image(t)]
<1>1. batch' = [batch EXCEPT ![j] = b] /\ UNCHANGED <<status, columns, history>>
  BY DEF Copy
<1>2. b \in Batches
  <2>1. \A t \in Eligible : Image(t) \in Images
    BY DEF IInv, TypeOK, Written, Eligible, Image, Images, Final
  <2>2. b \in [Eligible -> Images]
    BY <2>1
  <2>3. Eligible \in SUBSET Txns
    BY DEF Eligible
  <2> QED
    BY <2>2, <2>3 DEF Batches
<1>3. TypeOK'
  BY <1>1, <1>2 DEF IInv, TypeOK
<1>4. Prepared'
  BY <1>1 DEF IInv, TypeOK, Prepared, Eligible, Image
<1>5. Written' /\ Copied' /\ HistoryFaithful'
  BY <1>1 DEF IInv, Written, Copied, HistoryFaithful, Image
<1> QED
  BY <1>3, <1>4, <1>5 DEF IInv

LEMMA CommitIInv ==
  ASSUME IInv, NEW j \in Jobs, Commit(j)
  PROVE  IInv'
<1>1. /\ batch[j] # None /\ batch' = [batch EXCEPT ![j] = None]
      /\ UNCHANGED <<status, columns>>
      /\ history' = [t \in Txns |-> IF t \in DOMAIN batch[j]
                                    THEN Append(history[t], batch[j][t]) ELSE history[t]]
  BY DEF Commit
<1>2. \A t \in DOMAIN batch[j] :
        t \in Txns /\ status[t] \in Final /\ batch[j][t] = Image(t) /\ Image(t) \in Images
  BY <1>1 DEF IInv, TypeOK, Written, Prepared, Image, Images, Final
<1>3. \A t \in Txns : history'[t] \in Seq(Images)
  BY <1>1, <1>2 DEF IInv, TypeOK
<1>4. TypeOK'
  BY <1>1, <1>3 DEF IInv, TypeOK
<1>5. Prepared' /\ Written'
  BY <1>1 DEF IInv, TypeOK, Prepared, Written, Image
<1>6. Copied'
  BY <1>1, <1>2 DEF IInv, Copied
<1>7. HistoryFaithful'
  <2> SUFFICES ASSUME NEW t \in Txns, NEW i \in 1..Len(history'[t])
               PROVE  history'[t][i] = Image(t)
    BY <1>1 DEF HistoryFaithful, Image
  <2>1. CASE t \notin DOMAIN batch[j]
    BY <1>1, <2>1 DEF IInv, HistoryFaithful
  <2>2. CASE t \in DOMAIN batch[j]
    <3>1. history'[t] = Append(history[t], Image(t)) /\ history[t] \in Seq(Images)
      BY <1>1, <1>2, <2>2 DEF IInv, TypeOK
    <3>2. CASE i = Len(history[t]) + 1
      BY <3>1, <3>2
    <3>3. CASE i # Len(history[t]) + 1
      <4>1. i \in 1..Len(history[t]) /\ history'[t][i] = history[t][i]
        BY <3>1, <3>3
      <4> QED
        BY <4>1 DEF IInv, HistoryFaithful
    <3> QED
      BY <3>2, <3>3
  <2> QED
    BY <2>1, <2>2
<1> QED
  BY <1>4, <1>5, <1>6, <1>7 DEF IInv

LEMMA FailIInv ==
  ASSUME IInv, NEW j \in Jobs, Fail(j)
  PROVE  IInv'
BY DEF Fail, IInv, TypeOK, Written, Prepared, Copied, HistoryFaithful, Image

LEMMA NextIInv == IInv /\ [Next]_vars => IInv'
<1> SUFFICES ASSUME IInv, [Next]_vars
             PROVE  IInv'
  OBVIOUS
<1>1. CASE Next
  BY <1>1, TransactIInv, CopyIInv, CommitIInv, FailIInv DEF Next
<1>2. CASE UNCHANGED vars
  BY <1>2 DEF vars, IInv, TypeOK, Written, Prepared, Copied, HistoryFaithful, Image
<1> QED
  BY <1>1, <1>2

LEMMA Inductive == Spec => []IInv
BY InitIInv, NextIInv, PTL DEF Spec

\* Every variable of the archive keeps its type.
THEOREM ArchiveTypes == Spec => []TypeOK
<1>1. IInv => TypeOK
  BY DEF IInv
<1> QED
  BY <1>1, Inductive, PTL

\* A copy in the warehouse equals its transaction, now and for ever: the batch
\* was read before later payments committed, but those do not touch final rows.
THEOREM WarehouseFaithful == Spec => []HistoryFaithful
<1>1. IInv => HistoryFaithful
  BY DEF IInv
<1> QED
  BY <1>1, Inductive, PTL

-----------------------------------------------------------------------------
\* The jobs that have inserted a copy of t and not committed it.
Open(t) == {j \in Jobs : batch[j] # None /\ t \in DOMAIN batch[j]}

\* Each copy, committed or not, is some job's.
Bounded == \A t \in Txns : Len(history[t]) + Cardinality(Open(t)) <= Cardinality(Jobs)

\* The jobs that are open are counted by a natural number, not larger than all jobs.
LEMMA OpenJobs ==
  ASSUME NEW S \in SUBSET Jobs
  PROVE  /\ IsFiniteSet(S) /\ Cardinality(S) \in Nat /\ Cardinality(Jobs) \in Nat
         /\ Cardinality(S) <= Cardinality(Jobs)
BY ArchiveAssumption, FS_Subset, FS_CardinalityType

\* A job inserts a copy only where no copy is committed, and a commit turns one that
\* was open into one that is committed.
LEMMA NextBounded ==
  ASSUME IInv, Bounded, [Next]_vars
  PROVE  Bounded'
<1> SUFFICES ASSUME NEW t \in Txns
             PROVE  Len(history'[t]) + Cardinality(Open(t)') <= Cardinality(Jobs)
  BY DEF Bounded
<1>1. /\ Len(history[t]) \in Nat /\ Cardinality(Open(t)) \in Nat /\ Cardinality(Jobs) \in Nat
      /\ Len(history[t]) + Cardinality(Open(t)) <= Cardinality(Jobs)
  BY OpenJobs DEF Open, Bounded, IInv, TypeOK
<1>2. ASSUME Open(t)' \subseteq Open(t), history' = history
      PROVE  Len(history'[t]) + Cardinality(Open(t)') <= Cardinality(Jobs)
  <2>1. Cardinality(Open(t)') <= Cardinality(Open(t)) /\ Cardinality(Open(t)') \in Nat
    BY <1>2, OpenJobs, FS_Subset, FS_CardinalityType DEF Open
  <2> QED
    BY <1>1, <1>2, <2>1
<1>3. ASSUME NEW u \in Txns, Transact(u)
      PROVE  Len(history'[t]) + Cardinality(Open(t)') <= Cardinality(Jobs)
  BY <1>2, <1>3 DEF Transact, Open
<1>4. ASSUME NEW j \in Jobs, Copy(j)
      PROVE  Len(history'[t]) + Cardinality(Open(t)') <= Cardinality(Jobs)
  <2>1. /\ batch[j] = None /\ history' = history
        /\ batch' = [batch EXCEPT ![j] = [u \in Eligible |-> Image(u)]]
    BY <1>4 DEF Copy
  <2>2. CASE t \in Eligible
    <3>1. Len(history'[t]) = 0
      BY <2>1, <2>2 DEF Eligible
    <3>2. Open(t)' \in SUBSET Jobs
      BY DEF Open
    <3> QED
      BY <3>1, <3>2, OpenJobs
  <2>3. CASE t \notin Eligible
    <3>1. Open(t)' \subseteq Open(t)
      BY <2>1, <2>3 DEF Open, IInv, TypeOK
    <3> QED
      BY <1>2, <2>1, <3>1
  <2> QED
    BY <2>2, <2>3
<1>5. ASSUME NEW j \in Jobs, Commit(j)
      PROVE  Len(history'[t]) + Cardinality(Open(t)') <= Cardinality(Jobs)
  <2>1. /\ batch[j] # None /\ batch' = [batch EXCEPT ![j] = None]
        /\ history'[t] = IF t \in DOMAIN batch[j] THEN Append(history[t], batch[j][t])
                         ELSE history[t]
    BY <1>5 DEF Commit
  <2>2. Open(t)' = Open(t) \ {j}
    BY <2>1 DEF Open, IInv, TypeOK
  <2>3. CASE t \in DOMAIN batch[j]
    <3>1. j \in Open(t) /\ IsFiniteSet(Open(t))
      BY <2>1, <2>3, OpenJobs DEF Open
    <3>2. Cardinality(Open(t)') = Cardinality(Open(t)) - 1
      BY <2>2, <3>1, FS_RemoveElement
    <3>3. Len(history'[t]) = Len(history[t]) + 1
      BY <2>1, <2>3 DEF IInv, TypeOK
    <3> QED
      BY <1>1, <3>2, <3>3
  <2>4. CASE t \notin DOMAIN batch[j]
    <3>1. Open(t)' = Open(t) /\ history'[t] = history[t]
      BY <2>1, <2>2, <2>4 DEF Open
    <3> QED
      BY <1>1, <3>1
  <2> QED
    BY <2>3, <2>4
<1>6. ASSUME NEW j \in Jobs, Fail(j)
      PROVE  Len(history'[t]) + Cardinality(Open(t)') <= Cardinality(Jobs)
  <2>1. Open(t)' \subseteq Open(t) /\ history' = history
    BY <1>6 DEF Fail, Open, IInv, TypeOK
  <2> QED
    BY <1>2, <2>1
<1>7. CASE UNCHANGED vars
  BY <1>2, <1>7 DEF vars, Open
<1> QED
  BY <1>3, <1>4, <1>5, <1>6, <1>7 DEF Next

LEMMA InitBounded == Init => Bounded
<1> SUFFICES ASSUME Init, NEW t \in Txns
             PROVE  Len(history[t]) + Cardinality(Open(t)) <= Cardinality(Jobs)
  BY DEF Bounded
<1>1. Open(t) = {} /\ Len(history[t]) = 0
  BY DEF Init, Open
<1>2. Cardinality(Jobs) \in Nat /\ Cardinality({}) = 0
  BY OpenJobs, FS_EmptySet
<1> QED
  BY <1>1, <1>2

\* Nothing that is open is counted less than nothing.
LEMMA BoundedCopies ==
  ASSUME IInv, Bounded
  PROVE  CopiesBounded
<1> SUFFICES ASSUME NEW t \in Txns
             PROVE  Len(history[t]) <= Cardinality(Jobs)
  BY DEF CopiesBounded
<1>1. Len(history[t]) \in Nat /\ Cardinality(Open(t)) \in Nat /\ Cardinality(Jobs) \in Nat
  BY OpenJobs DEF Open, IInv, TypeOK
<1> QED
  BY <1>1 DEF Bounded

\* However often jobs are triggered, overlap and fail, a transaction has at most as
\* many copies as jobs can run at the same time: only jobs that overlap copy twice.
THEOREM CopiesNeverPileUp == Spec => []CopiesBounded
BY InitBounded, NextBounded, BoundedCopies, Inductive, PTL DEF Spec

-----------------------------------------------------------------------------
\* What a running job is about to copy has not been copied.
Pending == \A j \in Jobs : batch[j] # None => \A t \in DOMAIN batch[j] : history[t] = <<>>

\* NOT EXISTS keeps a job from copying what was copied before its snapshot; what is
\* copied while it runs is none of its rows.
LEMMA NextOnce ==
  ASSUME DisjointBatches, IInv, Pending, CopiedOnce, [Next]_vars
  PROVE  Pending' /\ CopiedOnce'
<1>1. ASSUME NEW t \in Txns, Transact(t)
      PROVE  Pending' /\ CopiedOnce'
  BY <1>1 DEF Transact, Pending, CopiedOnce
<1>2. ASSUME NEW j \in Jobs, Copy(j)
      PROVE  Pending' /\ CopiedOnce'
  <2>1. batch' = [batch EXCEPT ![j] = [t \in Eligible |-> Image(t)]] /\ UNCHANGED history
    BY <1>2 DEF Copy
  <2> QED
    BY <2>1 DEF Pending, CopiedOnce, Eligible, IInv, TypeOK
<1>3. ASSUME NEW j \in Jobs, Commit(j)
      PROVE  Pending' /\ CopiedOnce'
  <2>1. /\ batch[j] # None /\ batch' = [batch EXCEPT ![j] = None]
        /\ history' = [t \in Txns |-> IF t \in DOMAIN batch[j]
                                      THEN Append(history[t], batch[j][t]) ELSE history[t]]
    BY <1>3 DEF Commit
  <2>2. Pending'
    <3>1. SUFFICES ASSUME NEW i \in Jobs, batch'[i] # None, NEW t \in DOMAIN batch'[i]
                   PROVE  history'[t] = <<>>
      BY DEF Pending
    <3>2. i # j /\ batch[i] # None /\ batch'[i] = batch[i]
      BY <2>1, <3>1 DEF IInv, TypeOK
    <3>3. t \in Txns /\ history[t] = <<>> /\ t \notin DOMAIN batch[j]
      BY <2>1, <3>1, <3>2 DEF DisjointBatches, Pending, IInv, Prepared
    <3> QED
      BY <2>1, <3>3
  <2>3. ASSUME NEW t \in Txns
        PROVE  Len(history'[t]) <= 1
    <3>1. CASE t \notin DOMAIN batch[j]
      BY <2>1, <3>1 DEF CopiedOnce
    <3>2. CASE t \in DOMAIN batch[j]
      <4>1. history[t] = <<>> /\ history'[t] = Append(history[t], batch[j][t])
        BY <2>1, <3>2 DEF Pending
      <4> QED
        BY <4>1
    <3> QED
      BY <3>1, <3>2
  <2> QED
    BY <2>2, <2>3 DEF CopiedOnce
<1>4. ASSUME NEW j \in Jobs, Fail(j)
      PROVE  Pending' /\ CopiedOnce'
  BY <1>4 DEF Fail, Pending, CopiedOnce, IInv, TypeOK
<1>5. CASE UNCHANGED vars
  BY <1>5 DEF vars, Pending, CopiedOnce
<1> QED
  BY <1>1, <1>2, <1>3, <1>4, <1>5 DEF Next

\* A transaction is copied once as long as no two jobs that are open at the same time
\* have inserted it: when jobs take turns, or overlap only with one that found nothing.
THEOREM ArchiveIdempotent == Spec => ([]DisjointBatches => []CopiedOnce)
<1>1. Init => Pending /\ CopiedOnce
  BY DEF Init, Pending, CopiedOnce
<1>2. DisjointBatches /\ IInv /\ Pending /\ CopiedOnce /\ [Next]_vars => Pending' /\ CopiedOnce'
  BY NextOnce
<1> QED
  BY <1>1, <1>2, Inductive, PTL DEF Spec
=============================================================================

----------------------------- MODULE ListingProofs -----------------------------
(***************************************************************************)
(* For any transactions, filters, page lengths and number of readers:      *)
(* pages that are read at different moments leave no gap, repeat a row     *)
(* only when a newer one has come in, and list only what the reader may    *)
(* open.                                                                   *)
(***************************************************************************)
EXTENDS Listing, FiniteSetTheorems, TLAPS

\* The matching rows that an ordered listing must show before t.
Newer(f, t) == {s \in Matching(f) : created[t] < created[s]}

\* B is what an ordered listing of M shows first, when it shows n rows or all.
First(M, n, B) ==
  /\ B \subseteq M
  /\ Cardinality(B) <= n /\ (Cardinality(B) < n => M \ B = {})
  /\ NoneNewer(M \ B, B)

\* Rows not listed yet are older than the listed ones, and come after the offset.
Unlisted(k) ==
  \A t \in k.matched \ k.listed :
    Untied(k.filter, t) =>
      /\ ~k.done
      /\ \A s \in k.listed : created[t] < created[s]
      /\ k.offset <= Cardinality(Newer(k.filter, t))

\* The offset skips a listed row, as far as the rows that matched at first go.
Seen(k) ==
  \A t \in k.listed : Cardinality(Newer(k.filter, t) \cap k.matched) < k.offset

\* A row that has left the filter has been executed, and does not come back.
Gone(k) ==
  \A s \in k.matched :
    /\ status[s] # "absent" /\ Admits(k.filter, s)
    /\ s \notin Matching(k.filter) => status[s] # "scheduled"

\* What has pushed back a row that was listed twice.
Explained(k) ==
  /\ k.repeated \subseteq k.listed
  /\ \A t \in k.repeated :
       Untied(k.filter, t) =>
         \E s \in Txns \ k.matched :
           status[s] # "absent" /\ Admits(k.filter, s) /\ created[t] < created[s]

WalkInv(k) ==
  /\ k.filter \in Allowed(k.own)
  /\ \A t \in k.listed : Opens(k.own, t)
  /\ Stable(k.filter) => k.matched \subseteq Matching(k.filter) /\ Unlisted(k)
  /\ Seen(k) /\ Gone(k) /\ Explained(k)

IInv == TypeOK /\ \A w \in Readers : walk[w] # None => WalkInv(walk[w])

USE ListingAssumption

-----------------------------------------------------------------------------
(***************************************************************************)
(* Ordered listings                                                        *)
(***************************************************************************)
LEMMA MatchingIsFinite ==
  ASSUME NEW f, NEW S \in SUBSET Matching(f)
  PROVE  /\ IsFiniteSet(S) /\ Cardinality(S) \in Nat
         /\ \A R \in SUBSET S : Cardinality(R) <= Cardinality(S)
<1>1. S \in SUBSET Txns
  BY DEF Matching
<1>2. IsFiniteSet(S)
  BY <1>1, FS_Subset
<1> QED
  BY <1>2, FS_Subset, FS_CardinalityType

\* Rows that match are there, so they carry a stamp.
LEMMA MatchingStamps ==
  ASSUME TypeOK, NEW f \in FilterType, NEW t \in Matching(f)
  PROVE  t \in Txns /\ status[t] # "absent" /\ created[t] \in Nat
BY DEF TypeOK, FilterType, Matching, Statuses

\* A page of n rows P that skips the first o rows B shows the next ones.
Skips(f, o, n, P, B) ==
  /\ First(Matching(f), o, B)
  /\ First(Matching(f), o + n, B \cup P)
  /\ P \cap B = {}
  /\ Cardinality(P) \in Nat
  /\ Cardinality(P) < n => Matching(f) = B \cup P
  /\ Cardinality(P) >= n => B \cup P = Matching(f) \/ Cardinality(B \cup P) = o + n

LEMMA PageSkips ==
  ASSUME TypeOK, NEW f \in FilterType, NEW o \in Nat, NEW n \in Nat,
         NEW P \in SUBSET Matching(f), Page(f, o, n, P)
  PROVE  \E B \in SUBSET Matching(f) : Skips(f, o, n, P, B)
<1> DEFINE M == Matching(f)
<1>1. PICK B \in SUBSET M :
        /\ P \subseteq M \ B
        /\ Cardinality(B) <= o /\ (Cardinality(B) < o => M \ B = {})
        /\ Cardinality(P) <= n /\ (Cardinality(P) < n => P = M \ B)
        /\ NoneNewer(M \ B, B)
        /\ NoneNewer((M \ B) \ P, P)
  BY DEF Page
<1>2. /\ IsFiniteSet(B) /\ IsFiniteSet(P)
      /\ Cardinality(B) \in Nat /\ Cardinality(P) \in Nat
  BY <1>1, MatchingIsFinite
<1>3. P \cap B = {}
  BY <1>1
<1>4. Cardinality(B \cup P) = Cardinality(B) + Cardinality(P)
  <2>1. Cardinality(B \cup P) = Cardinality(B) + Cardinality(P) - Cardinality(B \cap P)
    BY <1>2, FS_Union
  <2>2. B \cap P = {} /\ Cardinality(B \cap P) = 0
    BY <1>3, FS_EmptySet
  <2> QED
    BY <1>2, <2>1, <2>2
<1>5. First(M, o, B)
  BY <1>1 DEF First
<1>6. M \ (B \cup P) = (M \ B) \ P
  OBVIOUS
<1>7. NoneNewer(M \ (B \cup P), B \cup P)
  BY <1>1, <1>6 DEF NoneNewer
<1>8. Cardinality(P) < n => M = B \cup P
  BY <1>1
<1>9. Cardinality(B) < o => B \cup P = M
  BY <1>1
<1>10. First(M, o + n, B \cup P)
  <2>1. Cardinality(B \cup P) <= o + n
    BY <1>1, <1>2, <1>4
  <2>2. Cardinality(B \cup P) < o + n => B \cup P = M
    BY <1>1, <1>2, <1>4, <1>8, <1>9
  <2> QED
    BY <1>1, <1>7, <2>1, <2>2 DEF First
<1>11. Cardinality(P) >= n => B \cup P = M \/ Cardinality(B \cup P) = o + n
  BY <1>1, <1>2, <1>4, <1>9
<1> QED
  BY <1>1, <1>2, <1>3, <1>5, <1>8, <1>10, <1>11 DEF Skips

-----------------------------------------------------------------------------
(***************************************************************************)
(* A page                                                                  *)
(***************************************************************************)
LEMMA WalkKept ==
  ASSUME NEW k \in Walks, NEW o \in Nat, NEW L \in SUBSET Txns, NEW r \in SUBSET Txns,
         NEW d \in BOOLEAN
  PROVE  [k EXCEPT !.offset = o, !.listed = L, !.repeated = r, !.done = d] \in Walks
BY DEF Walks

LEMMA AdvanceUnlisted ==
  ASSUME TypeOK, NEW k \in Walks, ~k.done, k.matched \subseteq Matching(k.filter),
         Unlisted(k), NEW P \in SUBSET Matching(k.filter),
         Page(k.filter, k.offset, k.limit, P)
  PROVE  Unlisted(Advance(k, P))
<1> DEFINE f == k.filter
           M == Matching(f)
<1>1. f \in FilterType /\ k.offset \in Nat /\ k.limit \in Nat
  BY DEF Walks
<1>skips. PICK B \in SUBSET M : Skips(f, k.offset, k.limit, P, B)
  BY <1>1, PageSkips
<1>2. /\ First(M, k.offset, B)
      /\ First(M, k.offset + k.limit, B \cup P)
      /\ Cardinality(P) \in Nat
      /\ Cardinality(P) < k.limit => M = B \cup P
      /\ Cardinality(P) >= k.limit =>
           B \cup P = M \/ Cardinality(B \cup P) = k.offset + k.limit
  BY <1>skips DEF Skips
<1>3. Advance(k, P) = [k EXCEPT !.offset = k.offset + k.limit, !.listed = k.listed \cup P,
                                !.repeated = k.repeated \cup (P \cap k.listed),
                                !.done = Cardinality(P) < k.limit]
  BY DEF Advance
<1>4. SUFFICES ASSUME NEW t \in k.matched, t \notin k.listed, t \notin P, Untied(f, t)
               PROVE  /\ ~(Cardinality(P) < k.limit)
                      /\ \A s \in k.listed \cup P : created[t] < created[s]
                      /\ k.offset + k.limit <= Cardinality(Newer(f, t))
  BY <1>3 DEF Unlisted, Walks
<1>5. t \in M /\ (\A s \in k.listed : created[t] < created[s])
        /\ k.offset <= Cardinality(Newer(f, t))
  BY <1>4 DEF Unlisted
<1>6. t \notin B
  <2> SUFFICES ASSUME t \in B
               PROVE  FALSE
    OBVIOUS
  <2>1. Newer(f, t) \subseteq B \ {t}
    BY <1>1, <1>2, <1>5, MatchingStamps DEF First, NoneNewer, Newer
  <2>2. IsFiniteSet(B) /\ Cardinality(B) \in Nat /\ Cardinality(Newer(f, t)) \in Nat
    BY <1>2, MatchingIsFinite DEF Newer
  <2>3. Cardinality(B \ {t}) = Cardinality(B) - 1 /\ IsFiniteSet(B \ {t})
    BY <2>2, FS_RemoveElement
  <2>4. Cardinality(Newer(f, t)) <= Cardinality(B) - 1
    BY <2>1, <2>3, FS_Subset
  <2> QED
    BY <1>1, <1>2, <1>5, <2>2, <2>4 DEF First
<1>7. \A s \in B \cup P : created[t] < created[s]
  <2> SUFFICES ASSUME NEW s \in B \cup P
               PROVE  created[t] < created[s]
    OBVIOUS
  <2>1. s \in M /\ s # t /\ t \in M \ (B \cup P)
    BY <1>4, <1>5, <1>6
  <2>2. created[t] <= created[s]
    BY <1>2, <2>1 DEF First, NoneNewer
  <2>3. /\ s \in Txns /\ status[s] # "absent" /\ created[s] \in Nat
        /\ t \in Txns /\ status[t] # "absent" /\ created[t] \in Nat
    BY <1>1, <2>1, MatchingStamps
  <2>4. created[s] # created[t]
    BY <1>4, <2>1, <2>3 DEF Untied, Matching
  <2> QED
    BY <2>2, <2>3, <2>4
<1>8. ~(Cardinality(P) < k.limit) /\ Cardinality(B \cup P) = k.offset + k.limit
  BY <1>1, <1>2, <1>4, <1>5, <1>6
<1>9. k.offset + k.limit <= Cardinality(Newer(f, t))
  <2>1. Newer(f, t) \in SUBSET M /\ B \cup P \subseteq Newer(f, t)
    BY <1>2, <1>7 DEF Newer
  <2> QED
    BY <1>8, <2>1, MatchingIsFinite
<1> QED
  BY <1>5, <1>7, <1>8, <1>9

\* The offset after a page skips the rows of the page, and a row that the page repeats
\* stands behind one that did not match at first.
LEMMA AdvanceSeen ==
  ASSUME TypeOK, NEW k \in Walks, Seen(k), Explained(k), NEW P \in SUBSET Matching(k.filter),
         Page(k.filter, k.offset, k.limit, P)
  PROVE  Seen(Advance(k, P)) /\ Explained(Advance(k, P))
<1> DEFINE f == k.filter
           M == Matching(f)
<1>1. f \in FilterType /\ k.offset \in Nat /\ k.limit \in Nat
  BY DEF Walks
<1>skips. PICK B \in SUBSET M : Skips(f, k.offset, k.limit, P, B)
  BY <1>1, PageSkips
<1>2. /\ First(M, k.offset, B)
      /\ First(M, k.offset + k.limit, B \cup P)
      /\ P \cap B = {}
  BY <1>skips DEF Skips
<1>3. /\ Advance(k, P).filter = f /\ Advance(k, P).matched = k.matched
      /\ Advance(k, P).offset = k.offset + k.limit
      /\ Advance(k, P).listed = k.listed \cup P
      /\ Advance(k, P).repeated = k.repeated \cup (P \cap k.listed)
  BY DEF Advance, Walks
<1>4. ASSUME NEW t
      PROVE  /\ Newer(f, t) \in SUBSET M /\ Newer(f, t) \cap k.matched \in SUBSET M
             /\ IsFiniteSet(Newer(f, t))
             /\ Cardinality(Newer(f, t)) \in Nat
             /\ Cardinality(Newer(f, t) \cap k.matched) \in Nat
             /\ Cardinality(Newer(f, t) \cap k.matched) <= Cardinality(Newer(f, t))
  <2>1. Newer(f, t) \in SUBSET M /\ Newer(f, t) \cap k.matched \in SUBSET M
    BY DEF Newer
  <2> QED
    BY <2>1, MatchingIsFinite
<1>5. ASSUME NEW t \in P
      PROVE  Cardinality(Newer(f, t)) < k.offset + k.limit
  <2>1. Newer(f, t) \subseteq (B \cup P) \ {t}
    <3> SUFFICES ASSUME NEW s \in Newer(f, t)
                 PROVE  s \in (B \cup P) \ {t}
      OBVIOUS
    <3>1. s \in M /\ created[t] < created[s]
      BY DEF Newer
    <3>2. created[s] \in Nat /\ created[t] \in Nat
      BY <1>1, <3>1, MatchingStamps
    <3> QED
      BY <1>2, <3>1, <3>2 DEF First, NoneNewer
  <2>2. /\ IsFiniteSet(B \cup P) /\ Cardinality(B \cup P) \in Nat
        /\ Cardinality(B \cup P) <= k.offset + k.limit
    BY <1>2, MatchingIsFinite DEF First
  <2>3. /\ Cardinality((B \cup P) \ {t}) = Cardinality(B \cup P) - 1
        /\ IsFiniteSet((B \cup P) \ {t})
    BY <2>2, FS_RemoveElement
  <2>4. Cardinality(Newer(f, t)) <= Cardinality(B \cup P) - 1
    BY <2>1, <2>3, FS_Subset
  <2>5. Cardinality(Newer(f, t)) \in Nat
    BY <1>4
  <2> QED
    BY <1>1, <2>2, <2>4, <2>5
<1>6. Seen(Advance(k, P))
  <2> SUFFICES ASSUME NEW t \in k.listed \cup P
               PROVE  Cardinality(Newer(f, t) \cap k.matched) < k.offset + k.limit
    BY <1>3 DEF Seen
  <2>1. CASE t \in P
    BY <1>1, <1>4, <1>5, <2>1
  <2>2. CASE t \in k.listed
    BY <1>1, <1>4, <2>2 DEF Seen
  <2> QED
    BY <2>1, <2>2
<1>7. ASSUME NEW t \in P, t \in k.listed, Untied(f, t)
      PROVE  \E s \in Txns \ k.matched :
               status[s] # "absent" /\ Admits(f, s) /\ created[t] < created[s]
  <2>1. t \in M \ B /\ created[t] \in Nat
    BY <1>1, <1>2, <1>7, MatchingStamps
  <2>2. B \subseteq Newer(f, t)
    <3> SUFFICES ASSUME NEW b \in B
                 PROVE  b \in Newer(f, t)
      OBVIOUS
    <3>1. b \in M /\ b # t /\ created[t] <= created[b]
      BY <1>2, <2>1 DEF First, NoneNewer
    <3>2. b \in Txns /\ status[b] # "absent" /\ created[b] \in Nat
      BY <1>1, <3>1, MatchingStamps
    <3>3. created[b] # created[t]
      BY <1>7, <3>1, <3>2 DEF Untied, Matching
    <3> QED
      BY <2>1, <3>1, <3>2, <3>3 DEF Newer
  <2>3. Cardinality(B) \in Nat /\ k.offset <= Cardinality(B)
    <3>1. Cardinality(B) \in Nat
      BY MatchingIsFinite
    <3>2. ~(Cardinality(B) < k.offset)
      BY <1>2, <2>1 DEF First
    <3> QED
      BY <1>1, <3>1, <3>2
  <2>4. k.offset <= Cardinality(Newer(f, t))
    <3>1. Cardinality(B) <= Cardinality(Newer(f, t))
      BY <1>4, <2>2, FS_Subset
    <3>2. Cardinality(Newer(f, t)) \in Nat
      BY <1>4
    <3> QED
      BY <1>1, <2>3, <3>1, <3>2
  <2>5. Cardinality(Newer(f, t) \cap k.matched) < k.offset
    BY <1>7 DEF Seen
  <2>6. PICK s \in Newer(f, t) : s \notin k.matched
    <3> SUFFICES ASSUME Newer(f, t) \subseteq k.matched
                 PROVE  FALSE
      OBVIOUS
    <3>1. Newer(f, t) \cap k.matched = Newer(f, t)
      OBVIOUS
    <3> QED
      BY <1>1, <1>4, <2>4, <2>5, <3>1
  <2>7. s \in M /\ created[t] < created[s]
    BY <2>6 DEF Newer
  <2>8. s \in Txns /\ status[s] # "absent" /\ Admits(f, s)
    BY <1>1, <2>7, MatchingStamps DEF Matching
  <2> QED
    BY <2>6, <2>7, <2>8
<1>8. Explained(Advance(k, P))
  <2>1. k.repeated \cup (P \cap k.listed) \subseteq k.listed \cup P
    BY DEF Explained
  <2>2. ASSUME NEW t \in k.repeated \cup (P \cap k.listed), Untied(f, t)
        PROVE  \E s \in Txns \ k.matched :
                 status[s] # "absent" /\ Admits(f, s) /\ created[t] < created[s]
    BY <1>7, <2>2 DEF Explained
  <2> QED
    BY <1>3, <2>1, <2>2 DEF Explained
<1> QED
  BY <1>6, <1>8

LEMMA AdvanceInv ==
  ASSUME TypeOK, NEW k \in Walks, ~k.done, WalkInv(k), NEW P \in SUBSET Matching(k.filter),
         Page(k.filter, k.offset, k.limit, P)
  PROVE  WalkInv(Advance(k, P)) /\ Advance(k, P) \in Walks
<1>1. /\ Advance(k, P).own = k.own /\ Advance(k, P).filter = k.filter
      /\ Advance(k, P).matched = k.matched
      /\ Advance(k, P).listed = k.listed \cup P
  BY DEF Advance, Walks
<1>2. \A t \in P : Opens(k.own, t)
  <2> SUFFICES ASSUME NEW t \in P
               PROVE  Opens(k.own, t)
    OBVIOUS
  <2>1. k.filter \in FilterType /\ t \in Matching(k.filter)
    BY DEF Walks
  <2>2. status[t] # "absent"
    BY <2>1, MatchingStamps
  <2>3. k.own # None => columns[t].account = k.own
    BY <2>1 DEF WalkInv, Allowed, OfAccount, Matching, Admits
  <2> QED
    BY <2>2, <2>3 DEF Opens
<1>3. /\ Stable(k.filter) => Unlisted(Advance(k, P))
      /\ Seen(Advance(k, P)) /\ Explained(Advance(k, P))
  BY AdvanceUnlisted, AdvanceSeen DEF WalkInv
<1>4. /\ k.offset + k.limit \in Nat
      /\ k.listed \cup P \in SUBSET Txns
      /\ k.repeated \cup (P \cap k.listed) \in SUBSET Txns
      /\ (Cardinality(P) < k.limit) \in BOOLEAN
  BY DEF Walks, Matching
<1>5. Advance(k, P) \in Walks
  BY <1>4, WalkKept DEF Advance
<1>6. Gone(Advance(k, P))
  BY <1>1 DEF WalkInv, Gone
<1> QED
  BY <1>1, <1>2, <1>3, <1>5, <1>6 DEF WalkInv

-----------------------------------------------------------------------------
(***************************************************************************)
(* Payments beside the walks                                               *)
(***************************************************************************)
\* Rows stay, with their columns and stamps; only a scheduled one changes its status.
RowsStay ==
  \A t \in Txns :
    status[t] # "absent" =>
      /\ status'[t] # "absent" /\ (status[t] # "scheduled" => status'[t] = status[t])
      /\ columns'[t] = columns[t] /\ created'[t] = created[t]

LEMMA PaymentsKeepRows ==
  ASSUME TypeOK, NEW t \in Txns, Record(t) \/ Execute(t)
  PROVE  TypeOK' /\ RowsStay /\ walk' = walk
<1>1. CASE Record(t)
  <2>1. PICK c \in Columns, d \in Stamps, s \in Statuses :
          /\ status[t] = "absent"
          /\ columns' = [columns EXCEPT ![t] = c]
          /\ created' = [created EXCEPT ![t] = d]
          /\ status' = [status EXCEPT ![t] = s]
    <3>1. PICK c \in Columns : Bank!Insert(t, c)
      BY <1>1 DEF Record
    <3>2. PICK s \in Statuses : status' = [status EXCEPT ![t] = s]
      BY <3>1 DEF Bank!Insert, Bank!Outcomes, Statuses
    <3> QED
      BY <1>1, <3>1, <3>2 DEF Record, Bank!Insert
  <2>2. walk' = walk
    BY <1>1 DEF Record
  <2>3. "absent" \notin Statuses
    BY DEF Statuses
  <2> QED
    BY <2>1, <2>2, <2>3 DEF TypeOK, RowsStay
<1>2. CASE Execute(t)
  <2>1. PICK s \in Statuses :
          /\ status[t] = "scheduled"
          /\ status' = [status EXCEPT ![t] = s]
          /\ UNCHANGED <<columns, created, walk>>
    BY <1>2 DEF Execute, Bank!Execute, Bank!Outcomes, Statuses
  <2>2. "absent" \notin Statuses
    BY DEF Statuses
  <2> QED
    BY <2>1, <2>2 DEF TypeOK, RowsStay
<1> QED
  BY <1>1, <1>2

LEMMA MatchingGrows ==
  ASSUME TypeOK, TypeOK', RowsStay, NEW f \in FilterType, Stable(f)
  PROVE  Matching(f) \subseteq Matching(f)'
<1> SUFFICES ASSUME NEW t \in Matching(f)
             PROVE  t \in Matching(f)'
  OBVIOUS
<1>1. t \in Txns /\ status[t] \in f.statuses /\ status[t] # "absent"
  BY MatchingStamps DEF Matching
<1>2. status'[t] \in f.statuses
  BY <1>1 DEF RowsStay, Stable, TypeOK
<1> QED
  BY <1>1, <1>2 DEF RowsStay, Matching, Admits

LEMMA StampsStay ==
  ASSUME TypeOK, RowsStay, NEW f \in FilterType, NEW S \in SUBSET Matching(f)
  PROVE  \A t \in S : created'[t] = created[t]
BY MatchingStamps DEF RowsStay

\* A filter keeps admitting a row, and a tie stays.
LEMMA AdmissionStays ==
  ASSUME TypeOK, RowsStay, NEW f \in FilterType, NEW t \in Txns, status[t] # "absent"
  PROVE  /\ Admits(f, t)' <=> Admits(f, t)
         /\ Untied(f, t)' => Untied(f, t)
<1>1. \A s \in Txns : status[s] # "absent" =>
        status'[s] # "absent" /\ created'[s] = created[s] /\ (Admits(f, s)' <=> Admits(f, s))
  BY DEF RowsStay, Admits
<1> QED
  BY <1>1 DEF Untied

\* What a payment does to the rows that matched when a walk began.
LEMMA PaymentsKeepHistory ==
  ASSUME TypeOK, TypeOK', RowsStay, NEW k \in Walks, WalkInv(k)
  PROVE  Seen(k)' /\ Gone(k)' /\ Explained(k)'
<1> DEFINE f == k.filter
<1>1. f \in FilterType /\ k.offset \in Nat /\ k.matched \subseteq Txns /\ k.listed \subseteq Txns
  BY DEF Walks
<1>2. \A t \in k.listed : status[t] # "absent" /\ created'[t] = created[t]
  BY <1>1 DEF WalkInv, Opens, RowsStay
<1>3. ASSUME NEW s \in k.matched
      PROVE  /\ s \in Txns /\ status[s] # "absent" /\ status'[s] # "absent"
             /\ created'[s] = created[s]
             /\ Admits(f, s) /\ Admits(f, s)'
             /\ s \in Matching(f)' => s \in Matching(f)
             /\ s \notin Matching(f)' => status'[s] # "scheduled"
  <2>1. s \in Txns /\ status[s] # "absent" /\ Admits(f, s)
        /\ (s \notin Matching(f) => status[s] # "scheduled")
    BY <1>1 DEF WalkInv, Gone
  <2>2. /\ status'[s] # "absent" /\ (status[s] # "scheduled" => status'[s] = status[s])
        /\ created'[s] = created[s] /\ Admits(f, s)'
    BY <1>1, <2>1, AdmissionStays DEF RowsStay
  <2>3. /\ s \in Matching(f) <=> status[s] \in f.statuses
        /\ s \in Matching(f)' <=> status'[s] \in f.statuses
    BY <2>1, <2>2 DEF Matching
  <2> QED
    BY <2>1, <2>2, <2>3
<1>4. Gone(k)'
  BY <1>3 DEF Gone
<1>5. Seen(k)'
  <2> SUFFICES ASSUME NEW t \in k.listed
               PROVE  Cardinality(Newer(f, t)' \cap k.matched) < k.offset
    BY DEF Seen
  <2>1. Newer(f, t)' \cap k.matched \subseteq Newer(f, t) \cap k.matched
    BY <1>2, <1>3 DEF Newer
  <2>2. /\ IsFiniteSet(Newer(f, t) \cap k.matched)
        /\ Cardinality(Newer(f, t) \cap k.matched) \in Nat
    BY MatchingIsFinite DEF Newer
  <2>3. /\ Cardinality(Newer(f, t)' \cap k.matched) <= Cardinality(Newer(f, t) \cap k.matched)
        /\ Cardinality(Newer(f, t)' \cap k.matched) \in Nat
    BY <2>1, <2>2, FS_Subset, FS_CardinalityType
  <2>4. Cardinality(Newer(f, t) \cap k.matched) < k.offset
    BY DEF WalkInv, Seen
  <2> QED
    BY <1>1, <2>2, <2>3, <2>4
<1>6. Explained(k)'
  <2> SUFFICES ASSUME NEW t \in k.repeated, Untied(f, t)'
               PROVE  \E s \in Txns \ k.matched :
                        status'[s] # "absent" /\ Admits(f, s)' /\ created'[t] < created'[s]
    BY DEF WalkInv, Explained
  <2>1. t \in k.listed /\ t \in Txns /\ status[t] # "absent" /\ created'[t] = created[t]
    BY <1>1, <1>2 DEF WalkInv, Explained
  <2>2. Untied(f, t)
    BY <1>1, <2>1, AdmissionStays
  <2>3. PICK s \in Txns \ k.matched :
          status[s] # "absent" /\ Admits(f, s) /\ created[t] < created[s]
    BY <2>2 DEF WalkInv, Explained
  <2>4. status'[s] # "absent" /\ Admits(f, s)' /\ created'[s] = created[s]
    BY <1>1, <2>3, AdmissionStays DEF RowsStay
  <2> QED
    BY <2>1, <2>3, <2>4
<1> QED
  BY <1>4, <1>5, <1>6

LEMMA PaymentsKeepWalks ==
  ASSUME TypeOK, TypeOK', RowsStay, NEW k \in Walks, WalkInv(k)
  PROVE  WalkInv(k)'
<1> DEFINE f == k.filter
<1>1. f \in FilterType /\ k.offset \in Nat /\ k.matched \subseteq Txns /\ k.listed \subseteq Txns
  BY DEF Walks
<1>2. \A t \in k.listed : Opens(k.own, t)'
  BY <1>1 DEF WalkInv, Opens, RowsStay
<1>3. Stable(f) => Matching(f) \subseteq Matching(f)'
  BY <1>1, MatchingGrows
<1>4. Stable(f) => k.matched \subseteq Matching(f)'
  BY <1>3 DEF WalkInv
<1>5. ASSUME Stable(f)
      PROVE  Unlisted(k)'
  <2>1. Unlisted(k) /\ k.matched \subseteq Matching(f)
    BY <1>5 DEF WalkInv
  <2>2. \A t \in k.matched : created'[t] = created[t] /\ status[t] # "absent"
    BY <1>1, <2>1, MatchingStamps DEF RowsStay
  <2>3. \A s \in k.listed : created'[s] = created[s]
    BY <1>1 DEF WalkInv, Opens, RowsStay
  <2> SUFFICES ASSUME NEW t \in k.matched \ k.listed, Untied(f, t)'
               PROVE  /\ ~k.done
                      /\ \A s \in k.listed : created'[t] < created'[s]
                      /\ k.offset <= Cardinality(Newer(f, t)')
    BY DEF Unlisted
  <2>4. Untied(f, t)
    BY <1>1, <2>2, AdmissionStays
  <2>5. /\ ~k.done
        /\ \A s \in k.listed : created[t] < created[s]
        /\ k.offset <= Cardinality(Newer(f, t))
    BY <2>1, <2>4 DEF Unlisted
  <2>6. Newer(f, t) \subseteq Newer(f, t)'
    BY <1>1, <1>3, <1>5, <2>2, StampsStay DEF Newer
  <2>7. Newer(f, t)' \in SUBSET Txns
    BY DEF Newer, Matching
  <2>8. IsFiniteSet(Newer(f, t)')
    BY <2>7, FS_Subset
  <2>9. IsFiniteSet(Newer(f, t)) /\ Cardinality(Newer(f, t)) <= Cardinality(Newer(f, t)')
    BY <2>6, <2>8, FS_Subset
  <2>10. Cardinality(Newer(f, t)) \in Nat /\ Cardinality(Newer(f, t)') \in Nat
    BY <2>8, <2>9, FS_CardinalityType
  <2> QED
    BY <1>1, <2>2, <2>3, <2>5, <2>9, <2>10
<1>6. Seen(k)' /\ Gone(k)' /\ Explained(k)'
  BY PaymentsKeepHistory
<1> QED
  BY <1>2, <1>4, <1>5, <1>6 DEF WalkInv, Stable

-----------------------------------------------------------------------------
LEMMA InitIInv == Init => IInv
BY DEF Init, Bank!Init, IInv, TypeOK

LEMMA TablesIInv ==
  ASSUME IInv, NEW t \in Txns, Record(t) \/ Execute(t)
  PROVE  IInv'
<1>1. TypeOK /\ TypeOK' /\ RowsStay /\ walk' = walk
  BY PaymentsKeepRows DEF IInv
<1>2. ASSUME NEW w \in Readers, walk[w] # None
      PROVE  WalkInv(walk[w])'
  <2>1. walk[w] \in Walks /\ walk[w].listed \subseteq Txns /\ WalkInv(walk[w])
    BY <1>2 DEF IInv, TypeOK, Walks
  <2>2. \A k : k = walk[w] => (WalkInv(k))'
    BY <1>1, <2>1, PaymentsKeepWalks
  <2> QED
    BY <1>1, <2>2
<1> QED
  BY <1>1, <1>2 DEF IInv

\* The invariant of a walk is about the tables only.
LEMMA SameTables ==
  ASSUME UNCHANGED <<status, columns, created>>, NEW k, WalkInv(k)
  PROVE  WalkInv(k)'
BY DEF WalkInv, Opens, Admits, Matching, Untied, Unlisted, Newer, Seen, Gone, Explained

\* A reader's step: the tables stay and one walk is replaced.
LEMMA WalkReplaced ==
  ASSUME IInv, UNCHANGED <<status, columns, created>>, NEW w \in Readers,
         NEW k \in Walks \cup {None}, walk' = [walk EXCEPT ![w] = k], k # None => WalkInv(k)
  PROVE  IInv'
<1>1. TypeOK'
  BY DEF IInv, TypeOK
<1>2. ASSUME NEW v \in Readers, walk'[v] # None
      PROVE  WalkInv(walk[v])'
  <2>1. \A j : WalkInv(j) => (WalkInv(j))'
    BY SameTables
  <2>2. CASE v = w
    <3>1. walk'[v] = k /\ (WalkInv(k))'
      BY <1>2, <2>1, <2>2 DEF IInv, TypeOK
    <3> QED
      BY <3>1
  <2>3. CASE v # w
    <3>1. walk'[v] = walk[v] /\ WalkInv(walk[v])
      BY <1>2, <2>3 DEF IInv, TypeOK
    <3>2. \A j : j = walk[v] => (WalkInv(j))'
      BY <2>1, <3>1
    <3> QED
      BY <3>1, <3>2
  <2> QED
    BY <2>2, <2>3
<1> QED
  BY <1>1, <1>2 DEF IInv

LEMMA BeginIInv ==
  ASSUME IInv, NEW w \in Readers, NEW own \in Accounts \cup {None}, NEW n \in 1..MaxLimit,
         NEW f \in Allowed(own), Begin(w, own, f, n)
  PROVE  IInv'
<1> DEFINE k == [own |-> own, filter |-> f, limit |-> n, offset |-> 0, done |-> FALSE,
                 matched |-> Matching(f), listed |-> {}, repeated |-> {}]
<1>1. walk' = [walk EXCEPT ![w] = k] /\ UNCHANGED <<status, columns, created>>
  BY DEF Begin
<1>2. f \in FilterType
  BY DEF Allowed, OfAccount, FilterType, Statuses, Types
<1>3. k \in Walks
  BY <1>2 DEF Walks, Matching
<1>4. WalkInv(k)
  <2>2. \A t \in Txns : Cardinality(Newer(f, t)) \in Nat
    BY MatchingIsFinite DEF Newer
  <2>3. Unlisted(k)
    BY <2>2 DEF Unlisted, Matching
  <2>4. Gone(k)
    BY <1>2, MatchingStamps DEF IInv, Gone, Matching
  <2> QED
    BY <2>3, <2>4 DEF WalkInv, Seen, Explained
<1> HIDE DEF k
<1> QED
  BY <1>1, <1>3, <1>4, WalkReplaced

LEMMA NextPageIInv ==
  ASSUME IInv, NEW w \in Readers, NextPage(w)
  PROVE  IInv'
<1> DEFINE k == walk[w]
<1>1. k \in Walks /\ ~k.done /\ WalkInv(k) /\ TypeOK
  BY DEF NextPage, IInv, TypeOK
<1>2. PICK P \in SUBSET Matching(k.filter) :
        /\ Page(k.filter, k.offset, k.limit, P)
        /\ walk' = [walk EXCEPT ![w] = Advance(k, P)]
  BY DEF NextPage
<1>3. UNCHANGED <<status, columns, created>>
  BY DEF NextPage
<1> DEFINE next == Advance(k, P)
<1>4. WalkInv(next) /\ next \in Walks
  BY <1>1, <1>2, AdvanceInv
<1> HIDE DEF k, next
<1>5. walk' = [walk EXCEPT ![w] = next]
  BY <1>2 DEF next
<1> QED
  BY <1>3, <1>4, <1>5, WalkReplaced

LEMMA LeaveIInv ==
  ASSUME IInv, NEW w \in Readers, Leave(w)
  PROVE  IInv'
<1>1. walk' = [walk EXCEPT ![w] = None] /\ UNCHANGED <<status, columns, created>>
  BY DEF Leave
<1> QED
  BY <1>1, WalkReplaced

LEMMA NextIInv == IInv /\ [Next]_vars => IInv'
<1> SUFFICES ASSUME IInv, [Next]_vars
             PROVE  IInv'
  OBVIOUS
<1>1. CASE Next
  BY <1>1, TablesIInv, BeginIInv, NextPageIInv, LeaveIInv DEF Next
<1>2. CASE UNCHANGED vars
  <2>1. TypeOK'
    BY <1>2 DEF vars, IInv, TypeOK
  <2>2. \A k : WalkInv(k) => (WalkInv(k))'
    BY <1>2, SameTables DEF vars
  <2>3. ASSUME NEW w \in Readers, walk'[w] # None
        PROVE  WalkInv(walk[w])'
    <3>1. walk'[w] = walk[w] /\ \A k : k = walk[w] => (WalkInv(k))'
      BY <1>2, <2>2, <2>3 DEF vars, IInv
    <3> QED
      BY <3>1
  <2> QED
    BY <2>1, <2>3 DEF IInv
<1> QED
  BY <1>1, <1>2

LEMMA Inductive == Spec => []IInv
BY InitIInv, NextIInv, PTL DEF Spec

\* The table and every walk keep their types.
THEOREM ListingTypes == Spec => []TypeOK
<1>1. IInv => TypeOK
  BY DEF IInv
<1> QED
  BY <1>1, Inductive, PTL

\* However payments and pages interleave, a walk leaves out no row that matched
\* when it began and shares its creation time with no other, as long as rows do not
\* leave its filter.
THEOREM WalksLeaveNoGaps == Spec => []NoGaps
<1>1. IInv => NoGaps
  BY DEF IInv, NoGaps, WalkInv, Unlisted
<1> QED
  BY <1>1, Inductive, PTL

\* For every filter, a row is listed twice only when a newer one, which did not match
\* when the walk began, has pushed it back: rows that leave the filter never do.
THEOREM WalksRepeatForNewRows == Spec => []RepeatsAreExplained
<1>1. IInv => RepeatsAreExplained
  BY DEF IInv, RepeatsAreExplained, WalkInv, Explained
<1> QED
  BY <1>1, Inductive, PTL

\* Whoever was shown a row in a list may open it, now and later.
THEOREM ListedRowsOpen == Spec => []ListedCanBeOpened
<1>1. IInv => ListedCanBeOpened
  BY DEF IInv, ListedCanBeOpened, WalkInv
<1> QED
  BY <1>1, Inductive, PTL
=============================================================================

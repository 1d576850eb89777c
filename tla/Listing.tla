-------------------------------- MODULE Listing --------------------------------
(***************************************************************************)
(* The read endpoints: customers page through the transactions of their    *)
(* account, administrators through those that match some filters, and both *)
(* open single ones, while payments go on.  Every page is a SELECT of   *)
(* its own, ORDER BY created_at DESC LIMIT limit OFFSET offset.  The       *)
(* payments are those of TransactionLifecycle, which Payments implements.  *)
(***************************************************************************)
EXTENDS Integers, FiniteSets

CONSTANTS
  Txns,      \* transaction ids
  Accounts,
  Columns,   \* what a row records: account, type, method and whether it is deferred
  Stamps,    \* the values of created_at
  Readers,   \* users that page at the same time
  Filters,   \* what administrators ask for
  MaxLimit,  \* the longest page a request may ask for
  None       \* no columns, no account, no walk

Statuses == {"scheduled", "pending", "completed", "failed"}
Types == {"national", "international"}

\* A filter that was not given admits every value.
FilterType ==
  [accounts : SUBSET Accounts, statuses : SUBSET Statuses, types : SUBSET Types,
   dates : SUBSET Stamps]

ASSUME ListingAssumption ==
  /\ IsFiniteSet(Txns)
  /\ Stamps \subseteq Nat
  /\ \A c \in Columns : c.account \in Accounts
  /\ Filters \subseteq FilterType
  /\ MaxLimit \in Nat \ {0}
  /\ None \notin Columns /\ None \notin Stamps /\ None \notin Accounts

VARIABLES
  status, columns,  \* the transactions table
  created,          \* its created_at
  walk              \* how far each reader has come, None when it is not paging

vars == <<status, columns, created, walk>>

Bank == INSTANCE TransactionLifecycle

\* GET /transactions/accounts/{a}/transactions has one condition.
OfAccount(a) ==
  [accounts |-> {a}, statuses |-> Statuses, types |-> Types, dates |-> Stamps]

\* Mutant: the owner of the account is not checked.
AllowedAnyAccount(own) == IF own = None THEN Filters ELSE {OfAccount(a) : a \in Accounts}

\* What a user may list: own is the account of a customer, None for an
\* administrator.  The account of another customer is answered with 403.
Allowed(own) == IF own = None THEN Filters ELSE {OfAccount(own)}

\* GET /transactions/{t} and /admin/transactions/{t} answer: no 404 because there
\* is no such row, and no 403 because it is another customer's.
Opens(own, t) ==
  /\ status[t] # "absent"
  /\ own # None => columns[t].account = own

Init ==
  /\ Bank!Init
  /\ columns = [t \in Txns |-> None]
  /\ created = [t \in Txns |-> None]
  /\ walk = [w \in Readers |-> None]

-----------------------------------------------------------------------------
\* Mutant: created_at is left to be filled in later.
RecordUnstamped(t) ==
  /\ \E c \in Columns : Bank!Insert(t, c)
  /\ UNCHANGED <<created, walk>>

\* created_at is the clock of the service when the row is flushed: rows that
\* commit later may be older, and two rows may be equally old.
Record(t) ==
  /\ \E c \in Columns : Bank!Insert(t, c)
  /\ \E d \in Stamps : created' = [created EXCEPT ![t] = d]
  /\ UNCHANGED walk

Execute(t) ==
  /\ Bank!Execute(t)
  /\ UNCHANGED <<created, walk>>

-----------------------------------------------------------------------------
\* The conditions of f on what a row keeps for ever.
Admits(f, t) ==
  columns[t].account \in f.accounts /\ columns[t].type \in f.types /\ created[t] \in f.dates

\* The rows that a request for f would list now.
Matching(f) == {t \in Txns : status[t] \in f.statuses /\ Admits(f, t)}

NoneNewer(S, T) == \A s \in S, t \in T : created[s] <= created[t]

\* Mutant: without ORDER BY.
PageUnordered(f, offset, limit, P) ==
  \E B \in SUBSET Matching(f) :
    LET left == Matching(f) \ B IN
    /\ P \subseteq left
    /\ Cardinality(B) <= offset /\ (Cardinality(B) < offset => left = {})
    /\ Cardinality(P) <= limit /\ (Cardinality(P) < limit => P = left)

\* P is a page that the SELECT may return when it skips B.  Nothing orders rows
\* that are equally old.
Page(f, offset, limit, P) ==
  \E B \in SUBSET Matching(f) :
    LET left == Matching(f) \ B IN
    /\ P \subseteq left
    /\ Cardinality(B) <= offset /\ (Cardinality(B) < offset => left = {})
    /\ Cardinality(P) <= limit /\ (Cardinality(P) < limit => P = left)
    /\ NoneNewer(left, B)
    /\ NoneNewer(left \ P, P)

\* A reader asks for the first page.  matched, listed and repeated are history:
\* what matched then, the rows listed since, and those listed twice.
Begin(w, own, f, n) ==
  /\ walk[w] = None
  /\ f \in Allowed(own)
  /\ walk' = [walk EXCEPT ![w] = [own |-> own, filter |-> f, limit |-> n, offset |-> 0,
                                  done |-> FALSE, matched |-> Matching(f), listed |-> {},
                                  repeated |-> {}]]
  /\ UNCHANGED <<status, columns, created>>

\* Mutant: the next offset is one too low.
AdvanceInclusive(k, P) ==
  [k EXCEPT !.offset = IF @ = 0 THEN k.limit ELSE @ + k.limit - 1,
            !.listed = @ \cup P,
            !.repeated = @ \cup (P \cap k.listed),
            !.done = Cardinality(P) < k.limit]

\* Readers take the next offset, until a page is not full.
Advance(k, P) ==
  [k EXCEPT !.offset = @ + k.limit,
            !.listed = @ \cup P,
            !.repeated = @ \cup (P \cap k.listed),
            !.done = Cardinality(P) < k.limit]

NextPage(w) ==
  /\ walk[w] # None /\ ~walk[w].done
  /\ \E P \in SUBSET Matching(walk[w].filter) :
       /\ Page(walk[w].filter, walk[w].offset, walk[w].limit, P)
       /\ walk' = [walk EXCEPT ![w] = Advance(walk[w], P)]
  /\ UNCHANGED <<status, columns, created>>

\* The reader has what it wants, or its session has ended.
Leave(w) ==
  /\ walk[w] # None
  /\ walk' = [walk EXCEPT ![w] = None]
  /\ UNCHANGED <<status, columns, created>>

Next ==
  \/ \E t \in Txns : Record(t) \/ Execute(t)
  \/ \E w \in Readers, own \in Accounts \cup {None}, n \in 1..MaxLimit :
       \E f \in Allowed(own) : Begin(w, own, f, n)
  \/ \E w \in Readers : NextPage(w) \/ Leave(w)

Spec == Init /\ [][Next]_vars

-----------------------------------------------------------------------------
Walks ==
  [own : Accounts \cup {None}, filter : FilterType, limit : 1..MaxLimit, offset : Nat,
   done : BOOLEAN, matched : SUBSET Txns, listed : SUBSET Txns, repeated : SUBSET Txns]

TypeOK ==
  /\ status \in [Txns -> Statuses \cup {"absent"}]
  /\ columns \in [Txns -> Columns \cup {None}]
  /\ created \in [Txns -> Stamps \cup {None}]
  /\ \A t \in Txns : status[t] # "absent" => columns[t] \in Columns /\ created[t] \in Stamps
  /\ walk \in [Readers -> Walks \cup {None}]

\* Rows leave a filter for scheduled payments, and no other.
Stable(f) == "scheduled" \in f.statuses => f.statuses = Statuses

\* No other row that f admits is as old as t.
Untied(f, t) ==
  \A s \in Txns \ {t} : status[s] # "absent" /\ Admits(f, s) => created[s] # created[t]

\* Pages that are read at different moments leave no gap: of the rows that
\* matched when a walk began, those not listed yet are older than all that were
\* listed, and at the end of the walk there are none.  Only a row that shares its
\* created_at with another can be missed.
NoGaps ==
  \A w \in Readers :
    walk[w] # None /\ Stable(walk[w].filter) =>
      \A t \in walk[w].matched \ walk[w].listed :
        Untied(walk[w].filter, t) =>
          ~walk[w].done /\ \A s \in walk[w].listed : created[t] < created[s]

\* A row is listed twice only when a newer one that did not match when the walk
\* began has pushed it back; rows that leave the filter never do.
RepeatsAreExplained ==
  \A w \in Readers : walk[w] # None =>
    \A t \in walk[w].repeated :
      Untied(walk[w].filter, t) =>
        \E s \in Txns \ walk[w].matched :
          status[s] # "absent" /\ Admits(walk[w].filter, s) /\ created[t] < created[s]

\* A row that was listed can be opened, by the same reader and at any later time,
\* although the two endpoints check for the owner by different paths.
ListedCanBeOpened ==
  \A w \in Readers : walk[w] # None => \A t \in walk[w].listed : Opens(walk[w].own, t)
=============================================================================

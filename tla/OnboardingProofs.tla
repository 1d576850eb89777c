---------------------------- MODULE OnboardingProofs ----------------------------
(***************************************************************************)
(* For any number of requests, users and forms: identifiers stay unique,   *)
(* onboarding implements Registry, and the waits for index entries cannot  *)
(* form a circle.                                                          *)
(***************************************************************************)
EXTENDS Onboarding, TLAPS

\* w registers somebody.
Registers(w) == job[w] # None /\ job[w].form # None

\* What the session of a request holds at each of its labels.
JobOK(w) ==
  /\ pc[w] \in Fields \cup {"insert", "account"} => Registers(w)
  /\ pc[w] \in {"find_account", "open"} => ~Registers(w)
  /\ entries[w] # {} => Registers(w) /\ pc[w] \in {"insert", "account", "commit"}
  /\ pc[w] = "insert" => entries[w] # Fields
  /\ "email" \in entries[w] => "national_id" \in entries[w]
  /\ "phone" \in entries[w] => entries[w] = Fields
  /\ Registers(w) /\ pc[w] \in {"account", "commit"} => entries[w] = Fields
  /\ opened[w] # None => pc[w] = "commit" /\ opened[w] = job[w].user
  /\ pc[w] = "account" => job[w].form.role = "customer"
  /\ pc[w] = "commit" =>
       (opened[w] # None <=> (Registers(w) => job[w].form.role = "customer"))

\* A registration's user does not exist yet, any other request's user does.
UserOK(w) ==
  /\ Registers(w) => users[job[w].user] = None
  /\ job[w] # None /\ ~Registers(w) => users[job[w].user] # None

\* No two registrations give away the same id.
IdsDiffer ==
  \A v, w \in Workers :
    v # w /\ Registers(v) /\ Registers(w) => job[v].user # job[w].user

\* An index entry stands for an identifier that nobody else has or inserts.
EntriesFree ==
  /\ \A w \in Workers : \A f \in entries[w] : ~Taken(f, job[w].form[f])
  /\ \A v, w \in Workers : \A f \in Fields :
       v # w /\ f \in entries[v] /\ f \in entries[w] => job[v].form[f] # job[w].form[f]

\* An account that is being opened is the first of its user.
OpenedFree ==
  /\ \A w \in Workers : opened[w] # None => accounts[opened[w]] = 0
  /\ \A v, w \in Workers : v # w /\ opened[v] # None => opened[v] # opened[w]

\* Accounts belong to users.
AccountsOwned == \A u \in UserIds : users[u] = None => accounts[u] = 0

IInv ==
  /\ TypeOK
  /\ \A w \in Workers : JobOK(w)
  /\ \A w \in Workers : UserOK(w)
  /\ IdsDiffer
  /\ EntriesFree
  /\ OpenedFree
  /\ AccountsOwned
  /\ IdentifiersUnique

USE OnboardingAssumption

LEMMA InitIInv == Init => IInv
<1> SUFFICES ASSUME Init PROVE IInv
  OBVIOUS
<1>1. TypeOK
  BY DEF Init, TypeOK, Busy, Labels
<1>2. \A w \in Workers : JobOK(w) /\ UserOK(w)
  BY DEF Init, JobOK, UserOK, Registers, Fields
<1>3. IdsDiffer /\ EntriesFree /\ OpenedFree /\ AccountsOwned
  BY DEF Init, IdsDiffer, EntriesFree, OpenedFree, AccountsOwned, Registers
<1>4. IdentifiersUnique
  BY DEF Init, IdentifiersUnique
<1> QED
  BY <1>1, <1>2, <1>3, <1>4 DEF IInv

\* A request that ends without a commit takes its entries with it.
LEMMA EndIInv ==
  ASSUME IInv, NEW w \in Workers, EndRequest(w), UNCHANGED tables
  PROVE  IInv'
<1>1. /\ entries' = [entries EXCEPT ![w] = {}]
      /\ opened' = [opened EXCEPT ![w] = None]
      /\ pc' = [pc EXCEPT ![w] = "idle"]
      /\ job' = [job EXCEPT ![w] = None]
      /\ UNCHANGED <<users, accounts>>
  BY DEF EndRequest, Goto, tables
<1>2. TypeOK'
  BY <1>1 DEF IInv, TypeOK, Busy, Labels
<1>3. \A v \in Workers : JobOK(v)' /\ UserOK(v)'
  BY <1>1 DEF IInv, TypeOK, JobOK, UserOK, Registers, Fields
<1>4. IdsDiffer'
  BY <1>1 DEF IInv, TypeOK, IdsDiffer, Registers
<1>5. EntriesFree'
  BY <1>1 DEF IInv, TypeOK, EntriesFree, Taken
<1>6. OpenedFree'
  BY <1>1 DEF IInv, TypeOK, OpenedFree
<1>7. AccountsOwned' /\ IdentifiersUnique'
  BY <1>1 DEF IInv, AccountsOwned, IdentifiersUnique
<1> QED
  BY <1>2, <1>3, <1>4, <1>5, <1>6, <1>7 DEF IInv

\* A request that starts has no entries and no account.
LEMMA StartIInv ==
  ASSUME IInv, NEW w \in Workers,
         (\E form \in Forms : Register(w, form)) \/ (\E u \in UserIds : FindUser(w, u))
  PROVE  IInv'
<1>1. PICK u \in UserIds, form \in People \cup {None}, label \in {"email", "find_account"} :
        /\ ~Busy(w)
        /\ job' = [job EXCEPT ![w] = [user |-> u, form |-> form]]
        /\ pc' = [pc EXCEPT ![w] = label]
        /\ UNCHANGED <<users, accounts, entries, opened>>
        /\ label = "email" => form # None /\ Fresh(u)
        /\ label = "find_account" => form = None /\ users[u] # None
  BY DEF Register, FindUser, Goto, tables
<1>2. [user |-> u, form |-> form] \in Jobs /\ [user |-> u, form |-> form] # None
  BY DEF Jobs
<1>3. TypeOK'
  BY <1>1, <1>2 DEF IInv, TypeOK, Busy, Labels, Fields
<1>4. \A v \in Workers : JobOK(v)'
  BY <1>1, <1>2 DEF IInv, TypeOK, JobOK, Registers, Fields, Busy
<1>5. \A v \in Workers : UserOK(v)'
  BY <1>1, <1>2 DEF IInv, TypeOK, UserOK, Registers, Fresh
<1>6. IdsDiffer'
  BY <1>1, <1>2 DEF IInv, TypeOK, IdsDiffer, Registers, Fresh, Busy
<1>7. EntriesFree'
  <2>1. entries[w] = {}
    BY <1>1 DEF IInv, TypeOK, JobOK, Registers, Busy
  <2> QED
    BY <1>1, <2>1 DEF IInv, TypeOK, EntriesFree, Taken
<1>8. (OpenedFree /\ AccountsOwned /\ IdentifiersUnique)'
  BY <1>1 DEF IInv, OpenedFree, AccountsOwned, IdentifiersUnique
<1> QED
  BY <1>3, <1>4, <1>5, <1>6, <1>7, <1>8 DEF IInv

\* A check that passes moves the request on.
LEMMA PassIInv ==
  ASSUME IInv, NEW w \in Workers, CheckPassed(w) \/ NoAccount(w)
  PROVE  IInv'
<1>1. PICK label \in Labels :
        /\ pc' = [pc EXCEPT ![w] = label]
        /\ \/ pc[w] \in Fields /\ label \in {"national_id", "phone", "insert"}
           \/ pc[w] = "find_account" /\ label = "open"
        /\ UNCHANGED <<users, accounts, entries, opened, job>>
  BY DEF CheckPassed, NoAccount, Goto, tables, AfterCheck, Fields, Labels
<1>2. entries[w] = {} /\ opened[w] = None
  BY <1>1 DEF IInv, JobOK, Fields
<1>3. TypeOK'
  BY <1>1 DEF IInv, TypeOK, Busy, Labels, Fields
<1>4. \A v \in Workers : JobOK(v)' /\ UserOK(v)'
  BY <1>1, <1>2 DEF IInv, TypeOK, JobOK, UserOK, Registers, Fields
<1>5. (IdsDiffer /\ EntriesFree /\ OpenedFree /\ AccountsOwned /\ IdentifiersUnique)'
  BY <1>1 DEF IInv, IdsDiffer, EntriesFree, OpenedFree, AccountsOwned, IdentifiersUnique,
              Registers, Taken
<1> QED
  BY <1>3, <1>4, <1>5 DEF IInv

LEMMA InsertEntryIInv ==
  ASSUME IInv, NEW w \in Workers, InsertEntry(w)
  PROVE  IInv'
<1> DEFINE f == NextEntry(w)
           label == IF entries[w] \cup {f} = Fields THEN AfterInsert(w) ELSE "insert"
<1>1. /\ pc[w] = "insert" /\ ~Contested(w, f) /\ ~Taken(f, job[w].form[f])
      /\ entries' = [entries EXCEPT ![w] = @ \cup {f}]
      /\ pc' = [pc EXCEPT ![w] = label]
      /\ UNCHANGED <<users, accounts, opened, job>>
  BY DEF InsertEntry, Goto, tables
<1>2. Registers(w) /\ f \in Fields /\ opened[w] = None
  BY <1>1 DEF IInv, JobOK, NextEntry, Fields
<1>2a. /\ f = "email" => "national_id" \in entries[w]
       /\ f = "phone" => entries[w] = {"national_id", "email"}
  BY <1>1 DEF IInv, TypeOK, JobOK, NextEntry, Fields
<1>3. /\ label \in {"insert", "account", "commit"}
      /\ label = "insert" <=> entries[w] \cup {f} # Fields
      /\ label = "account" => job[w].form.role = "customer"
      /\ label = "commit" => job[w].form.role # "customer"
  BY DEF AfterInsert
<1> HIDE DEF f, label
<1>4. TypeOK'
  BY <1>1, <1>2, <1>3 DEF IInv, TypeOK, Busy, Labels
<1>5. \A v \in Workers : JobOK(v)'
  <2> TAKE v \in Workers
  <2>1. CASE v = w
    BY <2>1, <1>1, <1>2, <1>2a, <1>3 DEF IInv, TypeOK, JobOK, Registers, Fields
  <2>2. CASE v # w
    BY <2>2, <1>1 DEF IInv, TypeOK, JobOK, Registers
  <2> QED
    BY <2>1, <2>2
<1>6. EntriesFree'
  BY <1>1 DEF IInv, TypeOK, EntriesFree, Taken, Contested
<1>7. (\A v \in Workers : UserOK(v)')
      /\ (IdsDiffer /\ OpenedFree /\ AccountsOwned /\ IdentifiersUnique)'
  BY <1>1 DEF IInv, UserOK, IdsDiffer, OpenedFree, AccountsOwned, IdentifiersUnique, Registers
<1> QED
  BY <1>4, <1>5, <1>6, <1>7 DEF IInv

\* Nobody else can open an account for a user who is being registered, and
\* nobody does for one whose account row has been awaited.
LEMMA OpenIInv ==
  ASSUME IInv, NEW w \in Workers, InsertAccount(w) \/ OpenAccount(w)
  PROVE  IInv'
<1> DEFINE u == job[w].user
<1>1. /\ pc[w] = "account" \/ (pc[w] = "open" /\ ~AccountContested(w) /\ accounts[u] = 0)
      /\ opened' = [opened EXCEPT ![w] = u]
      /\ pc' = [pc EXCEPT ![w] = "commit"]
      /\ UNCHANGED <<users, accounts, entries, job>>
  BY DEF InsertAccount, OpenAccount, Goto, tables
<1>2. job[w] # None /\ u \in UserIds /\ u # None
  BY <1>1 DEF IInv, TypeOK, Busy, Jobs
<1>3. accounts[u] = 0
  BY <1>1, <1>2 DEF IInv, JobOK, UserOK, AccountsOwned
<1>4. \A v \in Workers : v # w => opened[v] # u
  <2> SUFFICES ASSUME NEW v \in Workers, v # w, opened[v] = u PROVE FALSE
    OBVIOUS
  <2>1. pc[v] = "commit" /\ job[v] # None /\ job[v].user = u
    BY <1>2 DEF IInv, TypeOK, JobOK, Busy
  <2>2. pc[w] = "account"
    BY <1>1, <2>1 DEF AccountContested
  <2>3. Registers(w) /\ users[u] = None
    BY <2>2 DEF IInv, JobOK, UserOK
  <2>4. Registers(v)
    BY <2>1, <2>3 DEF IInv, UserOK
  <2> QED
    BY <2>1, <2>3, <2>4 DEF IInv, IdsDiffer
<1> HIDE DEF u
<1>5. TypeOK'
  BY <1>1, <1>2 DEF IInv, TypeOK, Busy, Labels
<1>6. \A v \in Workers : JobOK(v)'
  <2> TAKE v \in Workers
  <2>1. CASE v = w
    BY <2>1, <1>1, <1>2 DEF IInv, TypeOK, JobOK, Registers, Fields, u
  <2>2. CASE v # w
    BY <2>2, <1>1 DEF IInv, TypeOK, JobOK, Registers
  <2> QED
    BY <2>1, <2>2
<1>7. OpenedFree'
  BY <1>1, <1>2, <1>3, <1>4 DEF IInv, TypeOK, OpenedFree
<1>8. (\A v \in Workers : UserOK(v)')
      /\ (IdsDiffer /\ EntriesFree /\ AccountsOwned /\ IdentifiersUnique)'
  BY <1>1 DEF IInv, UserOK, IdsDiffer, EntriesFree, AccountsOwned, IdentifiersUnique,
              Registers, Taken
<1> QED
  BY <1>5, <1>6, <1>7, <1>8 DEF IInv

\* What a commit adds: a user with identifiers that were free, or the first
\* account of a user.
LEMMA CommitWrites ==
  ASSUME IInv, NEW w \in Workers, Commit(w)
  PROVE  LET j == job[w] IN
         /\ j # None /\ j.user \in UserIds /\ accounts[j.user] = 0
         /\ Registers(w) =>
              /\ j.form \in People
              /\ users[j.user] = None
              /\ \A f \in Fields : ~Taken(f, j.form[f])
              /\ users' = [users EXCEPT ![j.user] = j.form]
              /\ accounts' = [accounts EXCEPT ![j.user] =
                                IF j.form.role = "customer" THEN 1 ELSE 0]
         /\ ~Registers(w) =>
              /\ users[j.user] # None
              /\ users' = users
              /\ accounts' = [accounts EXCEPT ![j.user] = 1]
<1> DEFINE j == job[w]
<1>1. /\ pc[w] = "commit" /\ j # None /\ j.user \in UserIds /\ j.form \in People \cup {None}
      /\ users' = IF j.form # None THEN [users EXCEPT ![j.user] = j.form] ELSE users
      /\ accounts' = IF opened[w] # None THEN [accounts EXCEPT ![j.user] = @ + 1] ELSE accounts
  BY DEF Commit, IInv, TypeOK, Busy, Jobs
<1>2. accounts[j.user] = 0
  <2>1. CASE opened[w] # None
    BY <2>1 DEF IInv, JobOK, OpenedFree
  <2>2. CASE opened[w] = None
    BY <1>1, <2>2 DEF IInv, JobOK, UserOK, AccountsOwned
  <2> QED
    BY <2>1, <2>2
<1>3. accounts \in [UserIds -> Nat]
  BY DEF IInv, TypeOK
<1>4. ASSUME Registers(w)
      PROVE  /\ j.form \in People
             /\ users[j.user] = None
             /\ \A f \in Fields : ~Taken(f, j.form[f])
             /\ users' = [users EXCEPT ![j.user] = j.form]
             /\ accounts' = [accounts EXCEPT ![j.user] =
                               IF j.form.role = "customer" THEN 1 ELSE 0]
  <2>1. j.form \in People /\ users[j.user] = None /\ entries[w] = Fields
    BY <1>1, <1>4 DEF IInv, JobOK, UserOK, Registers
  <2>2. \A f \in Fields : ~Taken(f, j.form[f])
    BY <2>1 DEF IInv, EntriesFree
  <2>3. opened[w] # None <=> j.form.role = "customer"
    BY <1>1, <1>4 DEF IInv, JobOK
  <2>4. users' = [users EXCEPT ![j.user] = j.form]
    BY <1>1, <1>4 DEF Registers
  <2>5. accounts' = [accounts EXCEPT ![j.user] = IF j.form.role = "customer" THEN 1 ELSE 0]
    <3>1. CASE opened[w] # None
      <4>1. accounts' = [accounts EXCEPT ![j.user] = 1]
        BY <1>1, <1>2, <1>3, <3>1
      <4>2. j.form.role = "customer"
        BY <2>3, <3>1
      <4> QED
        BY <4>1, <4>2
    <3>2. CASE opened[w] = None
      BY <1>1, <1>2, <1>3, <2>3, <3>2
    <3> QED
      BY <3>1, <3>2
  <2> QED
    BY <2>1, <2>2, <2>4, <2>5
<1>5. ASSUME ~Registers(w)
      PROVE  /\ users[j.user] # None
             /\ users' = users
             /\ accounts' = [accounts EXCEPT ![j.user] = 1]
  <2>1. users[j.user] # None /\ opened[w] # None
    BY <1>1, <1>5 DEF IInv, JobOK, UserOK
  <2> QED
    BY <1>1, <1>2, <1>3, <1>5, <2>1 DEF Registers
<1> QED
  BY <1>1, <1>2, <1>4, <1>5

LEMMA CommitIInv ==
  ASSUME IInv, NEW w \in Workers, Commit(w)
  PROVE  IInv'
<1> DEFINE j == job[w]
<1>1. /\ entries' = [entries EXCEPT ![w] = {}]
      /\ opened' = [opened EXCEPT ![w] = None]
      /\ pc' = [pc EXCEPT ![w] = "idle"]
      /\ job' = [job EXCEPT ![w] = None]
      /\ pc[w] = "commit"
  BY DEF Commit, EndRequest, Goto
<1>2. /\ j # None /\ j.user \in UserIds /\ accounts[j.user] = 0
      /\ Registers(w) =>
           /\ j.form \in People
           /\ users[j.user] = None
           /\ \A f \in Fields : ~Taken(f, j.form[f])
           /\ users' = [users EXCEPT ![j.user] = j.form]
           /\ accounts' = [accounts EXCEPT ![j.user] =
                             IF j.form.role = "customer" THEN 1 ELSE 0]
      /\ ~Registers(w) =>
           /\ users[j.user] # None
           /\ users' = users
           /\ accounts' = [accounts EXCEPT ![j.user] = 1]
  BY CommitWrites
<1> HIDE DEF j
<1>3. TypeOK'
  <2>1. users' \in [UserIds -> People \cup {None}] /\ accounts' \in [UserIds -> Nat]
    BY <1>2 DEF IInv, TypeOK
  <2> QED
    BY <1>1, <2>1 DEF IInv, TypeOK, Busy, Labels
<1>4. \A v \in Workers : JobOK(v)'
  BY <1>1 DEF IInv, TypeOK, JobOK, Registers, Fields
<1>5. \A v \in Workers : UserOK(v)'
  <2> TAKE v \in Workers
  <2>1. CASE v = w
    BY <2>1, <1>1 DEF IInv, TypeOK, UserOK, Registers
  <2>2. CASE v # w /\ Registers(v)
    <3>1. job[v].user # j.user
      BY <1>2, <2>2 DEF IInv, UserOK, IdsDiffer, j
    <3>2. job'[v] = job[v] /\ job[v].user \in UserIds /\ users[job[v].user] = None
      BY <1>1, <2>2 DEF IInv, TypeOK, UserOK, Registers, Jobs
    <3>3. users'[job[v].user] = None
      BY <1>2, <3>1, <3>2 DEF IInv, TypeOK
    <3> QED
      BY <2>2, <3>2, <3>3 DEF UserOK, Registers
  <2>3. CASE v # w /\ ~Registers(v)
    <3>1. job'[v] = job[v] /\ ~Registers(v)'
      BY <1>1, <2>3 DEF IInv, TypeOK, Registers
    <3>2. ASSUME job[v] # None PROVE users'[job[v].user] # None
      <4>1. job[v].user \in UserIds /\ users[job[v].user] # None
        BY <2>3, <3>2 DEF IInv, TypeOK, UserOK, Jobs
      <4> QED
        BY <1>2, <4>1 DEF IInv, TypeOK
    <3> QED
      BY <3>1, <3>2 DEF UserOK
  <2> QED
    BY <2>1, <2>2, <2>3
<1>6. IdsDiffer'
  BY <1>1 DEF IInv, TypeOK, IdsDiffer, Registers
<1>7. EntriesFree'
  <2>1. ASSUME NEW v \in Workers, NEW f \in entries'[v]
        PROVE  (~Taken(f, job[v].form[f]))'
    <3>1. v # w /\ f \in entries[v] /\ f \in Fields /\ job'[v] = job[v]
      BY <1>1, <2>1 DEF IInv, TypeOK
    <3>2. ~Taken(f, job[v].form[f])
      BY <3>1 DEF IInv, EntriesFree
    <3>3. CASE ~Registers(w)
      <4>1. users' = users
        BY <1>2, <3>3
      <4> QED
        BY <3>1, <3>2, <4>1 DEF Taken
    <3>4. CASE Registers(w)
      <4>1. entries[w] = Fields
        BY <1>1, <3>4 DEF IInv, JobOK
      <4>2. j.form[f] # job[v].form[f]
        BY <3>1, <4>1 DEF IInv, EntriesFree, j
      <4>3. \A x \in UserIds : users'[x] = IF x = j.user THEN j.form ELSE users[x]
        BY <1>2, <3>4 DEF IInv, TypeOK
      <4> QED
        BY <3>1, <3>2, <4>2, <4>3 DEF Taken
    <3> QED
      BY <3>3, <3>4
  <2>2. \A u, v \in Workers : \A f \in Fields :
          u # v /\ f \in entries'[u] /\ f \in entries'[v] => job'[u].form[f] # job'[v].form[f]
    BY <1>1 DEF IInv, TypeOK, EntriesFree
  <2>3. \A v \in Workers : \A f \in entries'[v] : (~Taken(f, job[v].form[f]))'
    BY <2>1
  <2> QED
    BY <2>2, <2>3 DEF EntriesFree
<1>8. OpenedFree'
  <2>1. ASSUME NEW v \in Workers, opened'[v] # None
        PROVE  accounts'[opened'[v]] = 0
    <3>1. v # w /\ opened'[v] = opened[v] /\ opened[v] \in UserIds /\ accounts[opened[v]] = 0
      BY <1>1, <2>1 DEF IInv, TypeOK, OpenedFree
    <3>2. CASE opened[v] = j.user
      <4>1. opened[w] = None
        BY <1>1, <3>1, <3>2 DEF IInv, JobOK, OpenedFree, j
      <4>2. Registers(w) /\ j.form.role # "customer"
        BY <1>1, <4>1 DEF IInv, JobOK, j
      <4> QED
        BY <1>2, <3>1, <3>2, <4>2 DEF IInv, TypeOK
    <3>3. CASE opened[v] # j.user
      BY <1>2, <3>1, <3>3 DEF IInv, TypeOK
    <3> QED
      BY <3>2, <3>3
  <2>2. \A u, v \in Workers : u # v /\ opened'[u] # None => opened'[u] # opened'[v]
    BY <1>1 DEF IInv, TypeOK, OpenedFree
  <2> QED
    BY <2>1, <2>2 DEF OpenedFree
<1>9. AccountsOwned'
  BY <1>2 DEF IInv, TypeOK, AccountsOwned
<1>10. IdentifiersUnique'
  BY <1>2 DEF IInv, TypeOK, IdentifiersUnique, Taken
<1> QED
  BY <1>3, <1>4, <1>5, <1>6, <1>7, <1>8, <1>9, <1>10 DEF IInv

LEMMA NextIInv == IInv /\ [Next]_vars => IInv'
<1> SUFFICES ASSUME IInv, [Next]_vars PROVE IInv'
  OBVIOUS
<1>1. ASSUME NEW w \in Workers, NEW form \in Forms, Register(w, form) PROVE IInv'
  BY <1>1, StartIInv
<1>2. ASSUME NEW w \in Workers, NEW u \in UserIds, FindUser(w, u) PROVE IInv'
  BY <1>2, StartIInv
<1>3. ASSUME NEW w \in Workers, Step(w) PROVE IInv'
  <2>1. CASE CheckPassed(w) \/ NoAccount(w)
    BY <2>1, PassIInv
  <2>2. CASE CheckFailed(w) \/ InsertViolates(w) \/ HasAccount(w) \/ OpenAccountViolates(w)
    <3>1. EndRequest(w) /\ UNCHANGED tables
      BY <2>2 DEF CheckFailed, InsertViolates, HasAccount, OpenAccountViolates
    <3> QED
      BY <3>1, EndIInv
  <2>3. CASE InsertEntry(w)
    BY <2>3, InsertEntryIInv
  <2>4. CASE InsertAccount(w) \/ OpenAccount(w)
    BY <2>4, OpenIInv
  <2>5. CASE Commit(w)
    BY <2>5, CommitIInv
  <2> QED
    BY <1>3, <2>1, <2>2, <2>3, <2>4, <2>5 DEF Step
<1>4. ASSUME NEW w \in Workers, Abort(w) PROVE IInv'
  BY <1>4, EndIInv DEF Abort
<1>5. CASE UNCHANGED vars
  BY <1>5 DEF vars, tables, session, IInv, TypeOK, JobOK, UserOK, IdsDiffer, EntriesFree,
              OpenedFree, AccountsOwned, IdentifiersUnique, Registers, Taken, Busy
<1> QED
  BY <1>1, <1>2, <1>3, <1>4, <1>5 DEF Next

LEMMA Inductive == Spec => []IInv
BY InitIInv, NextIInv, PTL DEF Spec

\* Type correctness: tables, index entries and sessions (endpoints/auth.py,
\* accounts.py) keep their types.
THEOREM OnboardingTypes == Spec => []TypeOK
<1>1. IInv => TypeOK
  BY DEF IInv
<1> QED
  BY <1>1, Inductive, PTL

\* No two users share an email, a national id or a phone, however many
\* registrations pass the checks of user_service.py together.
THEOREM NoSharedIdentifiers == Spec => []IdentifiersUnique
<1>1. IInv => IdentifiersUnique
  BY DEF IInv
<1> QED
  BY <1>1, Inductive, PTL

-----------------------------------------------------------------------------
\* Only a commit changes the tables.
LEMMA OnlyCommitWrites ==
  ASSUME [Next]_vars
  PROVE  UNCHANGED <<users, accounts>> \/ \E w \in Workers : Commit(w)
BY DEF Next, Step, vars, tables, Register, FindUser, CheckPassed, CheckFailed, InsertEntry,
       InsertViolates, InsertAccount, NoAccount, HasAccount, OpenAccount,
       OpenAccountViolates, Abort

\* The form of a registration in progress is one that was posted.
FormsPosted == \A w \in Workers : Registers(w) => job[w].form \in Forms

LEMMA NextForms == IInv /\ FormsPosted /\ [Next]_vars => FormsPosted'
<1> SUFFICES ASSUME IInv, FormsPosted, [Next]_vars PROVE FormsPosted'
  OBVIOUS
<1>1. ASSUME NEW w \in Workers, NEW form \in Forms, Register(w, form) PROVE FormsPosted'
  <2>1. PICK u \in UserIds : job' = [job EXCEPT ![w] = [user |-> u, form |-> form]]
    BY <1>1 DEF Register
  <2> QED
    BY <2>1 DEF IInv, TypeOK, FormsPosted, Registers
<1>2. ASSUME NEW w \in Workers, NEW u \in UserIds, FindUser(w, u) PROVE FormsPosted'
  <2>1. job' = [job EXCEPT ![w] = [user |-> u, form |-> None]]
    BY <1>2 DEF FindUser
  <2> QED
    BY <2>1 DEF IInv, TypeOK, FormsPosted, Registers
<1>3. ASSUME NEW w \in Workers, Step(w) \/ Abort(w) PROVE FormsPosted'
  <2>1. job' = [job EXCEPT ![w] = None] \/ job' = job
    BY <1>3 DEF Step, Abort, EndRequest, CheckPassed, CheckFailed, InsertEntry, InsertViolates,
                InsertAccount, NoAccount, HasAccount, OpenAccount, OpenAccountViolates, Commit
  <2> QED
    BY <2>1 DEF IInv, TypeOK, FormsPosted, Registers
<1>4. CASE UNCHANGED vars
  BY <1>4 DEF vars, session, FormsPosted, Registers
<1> QED
  BY <1>1, <1>2, <1>3, <1>4 DEF Next

LEMMA PostedForms == Spec => []FormsPosted
<1>1. Init => FormsPosted
  BY DEF Init, FormsPosted, Registers
<1> QED
  BY <1>1, NextForms, Inductive, PTL DEF Spec

\* Onboarding implements Registry: register_customer, create_admin and
\* admin_create_account act in one step each, on identifiers that are free and
\* on users that have no account.
THEOREM ImplementsRegistry == Spec => RegistrySpec
<1>1. Init => Directory!Init
  BY DEF Init, Directory!Init
<1>2. IInv /\ FormsPosted /\ [Next]_vars => [Directory!Next]_<<users, accounts>>
  <2> SUFFICES ASSUME IInv, FormsPosted, [Next]_vars
               PROVE  [Directory!Next]_<<users, accounts>>
    OBVIOUS
  <2>1. CASE UNCHANGED <<users, accounts>>
    BY <2>1
  <2>2. ASSUME NEW w \in Workers, Commit(w) PROVE Directory!Next
    <3>1. CASE Registers(w)
      <4>1. job[w].form \in Forms /\ job[w].user \in UserIds
        BY <2>2, <3>1, CommitWrites DEF FormsPosted
      <4>2. Directory!Enrol(job[w].user, job[w].form)
        BY <2>2, <3>1, CommitWrites DEF Directory!Enrol, Directory!Taken, Taken
      <4> QED
        BY <4>1, <4>2 DEF Directory!Next
    <3>2. CASE ~Registers(w)
      <4>1. job[w].user \in UserIds /\ Directory!OpenAccount(job[w].user)
        BY <2>2, <3>2, CommitWrites DEF Directory!OpenAccount
      <4> QED
        BY <4>1 DEF Directory!Next
    <3> QED
      BY <3>1, <3>2
  <2> QED
    BY <2>1, <2>2, OnlyCommitWrites
<1> QED
  BY <1>1, <1>2, Inductive, PostedForms, PTL DEF Spec, RegistrySpec, Directory!Spec

-----------------------------------------------------------------------------
\* The holder of an identifier that w waits for.
LEMMA HolderOf ==
  ASSUME IInv, NEW w \in Workers, Waits(w), pc[w] = "insert"
  PROVE  \E v \in Workers : NextEntry(w) \in entries[v] /\ Busy(v)
<1>1. PICK v \in Workers : NextEntry(w) \in entries[v]
  BY DEF Waits, Contested
<1>2. Busy(v)
  BY <1>1 DEF IInv, JobOK, Busy
<1> QED
  BY <1>1, <1>2

\* Nobody waits for a transaction whose users row has all its entries.
LEMMA WaitersInsert ==
  ASSUME IInv, \A w \in Workers : Busy(w) => Waits(w), NEW w \in Workers, Busy(w)
  PROVE  pc[w] = "insert" /\ "phone" \notin entries[w]
<1>1. \A v \in Workers : pc[v] \notin {"account", "commit"}
  BY DEF Busy, Waits
<1>2. \A v \in Workers : opened[v] = None
  BY <1>1 DEF IInv, JobOK
<1>3. pc[w] # "open"
  <2>1. pc[w] = "open" => job[w].user \in UserIds
    BY DEF IInv, TypeOK, Jobs, Busy
  <2> QED
    BY <1>2, <2>1 DEF Waits, AccountContested
<1>4. pc[w] = "insert"
  BY <1>3 DEF Waits
<1> QED
  BY <1>4 DEF IInv, JobOK

\* Waits for index entries cannot form a circle (crud/user.py): every INSERT INTO
\* users makes its entries in the same order, so the holder of the last one does
\* not wait, and the holder of an earlier one waits for a later one only.
THEOREM RegistrationsDoNotDeadlock == Spec => []SomeRequestRuns
<1>1. ASSUME IInv, NEW u \in Workers, Busy(u)
      PROVE  \E w \in Workers : Busy(w) /\ ~Waits(w)
  <2> SUFFICES ASSUME \A w \in Workers : Busy(w) => Waits(w) PROVE FALSE
    OBVIOUS
  <2>1. \A w \in Workers : Busy(w) => "email" \notin entries[w]
    <3> SUFFICES ASSUME NEW w \in Workers, Busy(w), "email" \in entries[w] PROVE FALSE
      OBVIOUS
    <3>1. pc[w] = "insert" /\ NextEntry(w) = "phone"
      BY <1>1, WaitersInsert DEF IInv, JobOK, NextEntry
    <3>2. PICK v \in Workers : "phone" \in entries[v] /\ Busy(v)
      BY <1>1, <3>1, HolderOf
    <3> QED
      BY <1>1, <3>2, WaitersInsert
  <2>2. \A w \in Workers : Busy(w) => "national_id" \notin entries[w]
    <3> SUFFICES ASSUME NEW w \in Workers, Busy(w), "national_id" \in entries[w] PROVE FALSE
      OBVIOUS
    <3>1. pc[w] = "insert" /\ NextEntry(w) = "email"
      BY <1>1, <2>1, WaitersInsert DEF NextEntry
    <3>2. PICK v \in Workers : "email" \in entries[v] /\ Busy(v)
      BY <1>1, <3>1, HolderOf
    <3> QED
      BY <2>1, <3>2
  <2>3. pc[u] = "insert" /\ NextEntry(u) = "national_id"
    BY <1>1, <2>2, WaitersInsert DEF NextEntry
  <2>4. PICK v \in Workers : "national_id" \in entries[v] /\ Busy(v)
    BY <1>1, <2>3, HolderOf
  <2> QED
    BY <2>2, <2>4
<1>2. IInv => SomeRequestRuns
  BY <1>1 DEF SomeRequestRuns
<1> QED
  BY <1>2, Inductive, PTL
=============================================================================

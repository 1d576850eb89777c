------------------------------ MODULE Onboarding ------------------------------
(***************************************************************************)
(* Registration of customers and admins (services/user_service.py behind   *)
(* POST /auth/register and /admin/auth/register) and POST /admin/accounts, *)
(* over the unique constraints of the users and accounts tables.           *)
(*                                                                         *)
(* A worker is one request in one transaction.  An action is one SELECT,   *)
(* one entry that an INSERT makes in a unique index - where it may have to *)
(* wait for another transaction - or the commit.                           *)
(***************************************************************************)
EXTENDS Naturals

CONSTANTS
  Workers,  \* requests that can be in progress at the same time
  UserIds,  \* primary keys of the users table
  Forms,    \* the registrations that are posted
  Seeded,   \* the users of the seed script
  None      \* no user, form or job

Fields == {"email", "national_id", "phone"}

\* A user as it is registered: three unique identifiers and a role.  The
\* identifiers are natural numbers here; they are only compared.
People == [email : Nat, national_id : Nat, phone : Nat, role : {"admin", "customer"}]

ASSUME OnboardingAssumption ==
  /\ Forms \subseteq People
  /\ Seeded \in [UserIds -> People \cup {None}]
  /\ \A u, v \in UserIds : u # v /\ Seeded[u] # None /\ Seeded[v] # None =>
       \A f \in Fields : Seeded[u][f] # Seeded[v][f]
  /\ \A u \in UserIds : Seeded[u] # None => Seeded[u].role = "admin"
  /\ None \notin Workers /\ None \notin UserIds /\ None \notin People
  /\ None \notin [user : UserIds, form : People \cup {None}]

VARIABLES
  users,     \* users, committed: the form of each user
  accounts,  \* accounts, committed: how many rows each user has
  entries,   \* index entries of the users row a worker has not committed
  opened,    \* the user of the accounts row a worker has not committed
  pc,        \* what each worker does next
  job        \* the user id and, for a registration, the form

tables == <<users, accounts>>
session == <<entries, opened, pc, job>>
vars == <<tables, session>>

-----------------------------------------------------------------------------
Busy(w) == pc[w] # "idle"

\* Some committed user has the identifier.
Taken(f, value) == \E u \in UserIds : users[u] # None /\ users[u][f] = value

\* Another transaction has inserted the identifier: its end must be awaited.
Contested(w, f) ==
  \E v \in Workers \ {w} : f \in entries[v] /\ job[v].form[f] = job[w].form[f]

\* Another transaction has inserted an account of the same user.
AccountContested(w) == \E v \in Workers \ {w} : opened[v] = job[w].user

\* A uuid4 that no user has and no request is about to give away.
Fresh(u) == users[u] = None /\ \A w \in Workers : Busy(w) => job[w].user # u

AdminExists == \E u \in UserIds : users[u] # None /\ users[u].role = "admin"

Init ==
  /\ users = Seeded
  /\ accounts = [u \in UserIds |-> 0]
  /\ entries = [w \in Workers |-> {}]
  /\ opened = [w \in Workers |-> None]
  /\ pc = [w \in Workers |-> "idle"]
  /\ job = [w \in Workers |-> None]

Goto(w, label) == pc' = [pc EXCEPT ![w] = label]

\* Mutant: the request is not forgotten.
EndRequestKeepsJob(w) ==
  /\ entries' = [entries EXCEPT ![w] = {}]
  /\ opened' = [opened EXCEPT ![w] = None]
  /\ Goto(w, "idle")
  /\ UNCHANGED job

\* Commit and rollback end the transaction, and with it the request.
EndRequest(w) ==
  /\ entries' = [entries EXCEPT ![w] = {}]
  /\ opened' = [opened EXCEPT ![w] = None]
  /\ Goto(w, "idle")
  /\ job' = [job EXCEPT ![w] = None]

-----------------------------------------------------------------------------
(***************************************************************************)
(* register_customer and create_admin                                      *)
(***************************************************************************)
Register(w, form) ==
  /\ ~Busy(w)
  /\ form.role = "admin" => AdminExists
  /\ \E u \in UserIds :
       /\ Fresh(u)
       /\ job' = [job EXCEPT ![w] = [user |-> u, form |-> form]]
  /\ Goto(w, "email")
  /\ UNCHANGED <<tables, entries, opened>>

\* The checks, one SELECT each, in the order of the code.
AfterCheck == [email |-> "national_id", national_id |-> "phone", phone |-> "insert"]

CheckPassed(w) ==
  LET f == pc[w] IN
  /\ f \in Fields /\ ~Taken(f, job[w].form[f])
  /\ Goto(w, AfterCheck[f])
  /\ UNCHANGED <<tables, entries, opened, job>>

\* 409.
CheckFailed(w) ==
  LET f == pc[w] IN
  /\ f \in Fields /\ Taken(f, job[w].form[f])
  /\ EndRequest(w)
  /\ UNCHANGED tables

\* Mutant: each request has an order of its own.
NextEntryByRole(w) ==
  IF job[w].form.role = "admin"
  THEN IF "phone" \notin entries[w] THEN "phone"
       ELSE IF "email" \notin entries[w] THEN "email" ELSE "national_id"
  ELSE IF "national_id" \notin entries[w] THEN "national_id"
       ELSE IF "email" \notin entries[w] THEN "email" ELSE "phone"

\* INSERT INTO users makes its index entries in the order in which the unique
\* constraints were created.
NextEntry(w) ==
  IF "national_id" \notin entries[w] THEN "national_id"
  ELSE IF "email" \notin entries[w] THEN "email" ELSE "phone"

\* Where a request goes whose users row has all its entries.
AfterInsert(w) == IF job[w].form.role = "customer" THEN "account" ELSE "commit"

\* Mutant: identifiers that other transactions have inserted are not awaited.
InsertEntryUnawaited(w) ==
  LET f == NextEntry(w) IN
  /\ pc[w] = "insert" /\ ~Taken(f, job[w].form[f])
  /\ entries' = [entries EXCEPT ![w] = @ \cup {f}]
  /\ Goto(w, IF entries[w] \cup {f} = Fields THEN AfterInsert(w) ELSE "insert")
  /\ UNCHANGED <<tables, opened, job>>

InsertEntry(w) ==
  LET f == NextEntry(w) IN
  /\ pc[w] = "insert" /\ ~Contested(w, f) /\ ~Taken(f, job[w].form[f])
  /\ entries' = [entries EXCEPT ![w] = @ \cup {f}]
  /\ Goto(w, IF entries[w] \cup {f} = Fields THEN AfterInsert(w) ELSE "insert")
  /\ UNCHANGED <<tables, opened, job>>

\* IntegrityError: somebody else registered the identifier after the check.
InsertViolates(w) ==
  LET f == NextEntry(w) IN
  /\ pc[w] = "insert" /\ ~Contested(w, f) /\ Taken(f, job[w].form[f])
  /\ EndRequest(w)
  /\ UNCHANGED tables

\* crud_account.create for the new customer, whom nobody else can see yet.
InsertAccount(w) ==
  /\ pc[w] = "account"
  /\ opened' = [opened EXCEPT ![w] = job[w].user]
  /\ Goto(w, "commit")
  /\ UNCHANGED <<tables, entries, job>>

-----------------------------------------------------------------------------
(***************************************************************************)
(* admin_create_account                                                    *)
(***************************************************************************)

\* An unknown user is a 404 that changes nothing.
FindUser(w, u) ==
  /\ ~Busy(w) /\ AdminExists /\ users[u] # None
  /\ job' = [job EXCEPT ![w] = [user |-> u, form |-> None]]
  /\ Goto(w, "find_account")
  /\ UNCHANGED <<tables, entries, opened>>

NoAccount(w) ==
  /\ pc[w] = "find_account" /\ accounts[job[w].user] = 0
  /\ Goto(w, "open")
  /\ UNCHANGED <<tables, entries, opened, job>>

\* 409.
HasAccount(w) ==
  /\ pc[w] = "find_account" /\ accounts[job[w].user] > 0
  /\ EndRequest(w)
  /\ UNCHANGED tables

\* Mutant: accounts.user_id is not unique.
OpenAccountAgain(w) ==
  /\ pc[w] = "open"
  /\ opened' = [opened EXCEPT ![w] = job[w].user]
  /\ Goto(w, "commit")
  /\ UNCHANGED <<tables, entries, job>>

OpenAccount(w) ==
  /\ pc[w] = "open" /\ ~AccountContested(w) /\ accounts[job[w].user] = 0
  /\ opened' = [opened EXCEPT ![w] = job[w].user]
  /\ Goto(w, "commit")
  /\ UNCHANGED <<tables, entries, job>>

\* IntegrityError, which this endpoint does not catch: 500.
OpenAccountViolates(w) ==
  /\ pc[w] = "open" /\ ~AccountContested(w) /\ accounts[job[w].user] > 0
  /\ EndRequest(w)
  /\ UNCHANGED tables

-----------------------------------------------------------------------------
\* Users and account become visible together.
Commit(w) ==
  LET j == job[w] IN
  /\ pc[w] = "commit"
  /\ users' = IF j.form # None THEN [users EXCEPT ![j.user] = j.form] ELSE users
  /\ accounts' = IF opened[w] # None THEN [accounts EXCEPT ![j.user] = @ + 1] ELSE accounts
  /\ EndRequest(w)

\* The connection breaks or the process dies before the commit.
Abort(w) ==
  /\ Busy(w)
  /\ EndRequest(w)
  /\ UNCHANGED tables

Step(w) ==
  \/ CheckPassed(w) \/ CheckFailed(w)
  \/ InsertEntry(w) \/ InsertViolates(w) \/ InsertAccount(w)
  \/ NoAccount(w) \/ HasAccount(w) \/ OpenAccount(w) \/ OpenAccountViolates(w)
  \/ Commit(w)

Next ==
  \E w \in Workers :
    \/ \E form \in Forms : Register(w, form)
    \/ \E u \in UserIds : FindUser(w, u)
    \/ Step(w)
    \/ Abort(w)

Spec == Init /\ [][Next]_vars

-----------------------------------------------------------------------------
Labels == Fields \cup {"idle", "insert", "account", "find_account", "open", "commit"}

Jobs == [user : UserIds, form : People \cup {None}]

\* The tables and the sessions have their types, and a worker has a job exactly
\* while its request is in progress.
TypeOK ==
  /\ users \in [UserIds -> People \cup {None}]
  /\ accounts \in [UserIds -> Nat]
  /\ entries \in [Workers -> SUBSET Fields]
  /\ opened \in [Workers -> UserIds \cup {None}]
  /\ pc \in [Workers -> Labels]
  /\ job \in [Workers -> Jobs \cup {None}]
  /\ \A w \in Workers : Busy(w) <=> job[w] # None

\* No two users share an identifier, although every registration checks them
\* before it inserts and others register in between.
IdentifiersUnique ==
  \A u, v \in UserIds :
    u # v /\ users[u] # None /\ users[v] # None => \A f \in Fields : users[u][f] # users[v][f]

\* w waits for the end of another transaction.
Waits(w) ==
  \/ pc[w] = "insert" /\ Contested(w, NextEntry(w))
  \/ pc[w] = "open" /\ AccountContested(w)

\* Registrations that share identifiers crosswise do not wait for each other in
\* a circle: while requests are in progress, one of them does not wait.
SomeRequestRuns ==
  (\E w \in Workers : Busy(w)) => \E w \in Workers : Busy(w) /\ ~Waits(w)

Directory == INSTANCE Registry

\* Onboarding implements Registry: users appear with free identifiers and, if
\* they are customers, with their account in the same commit; nobody ever has a
\* second account.
RegistrySpec == Directory!Spec
=============================================================================

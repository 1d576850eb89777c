------------------------------- MODULE Sessions -------------------------------
(***************************************************************************)
(* Server-side sessions: POST /auth/login and /auth/logout with their      *)
(* admin twins (services/auth_service.py), the bearer token dependency     *)
(* (deps.py), the sessions row of each user and the two audit trails.      *)
(*                                                                         *)
(* A worker is one request.  Each of its actions is one statement that     *)
(* reads committed rows, or the transaction that commits what it wrote.    *)
(***************************************************************************)
EXTENDS Integers

CONSTANTS
  Users,
  Workers,      \* requests that can be in progress at the same time
  Tokens,       \* session tokens (their SHA-256 digests)
  RowIds,       \* primary keys of the sessions table
  MaxAudits,    \* bound: no attempt is blocked once the user has this many audit entries
  None          \* no user, token or row

ASSUME SessionsAssumption ==
  /\ MaxAudits \in Nat
  /\ None \notin Users /\ None \notin Tokens /\ None \notin RowIds
  /\ None \notin [id : RowIds, token : Tokens]

VARIABLES
  row,          \* sessions: the row of each user, None when there is none
  expired,      \* tokens whose expires_at has passed
  loginEvents,  \* session_history: whose login created a token, None if unused
  logoutEvents, \* session_history: tokens recorded by logouts, None for ''
  loginAudit,   \* audit_logs: login and login_failed entries of each user
  pc,           \* what each request does next
  user,         \* whose request it is
  recorded,     \* the token a logout is going to record
  target,       \* the primary key a logout is going to delete
  latest        \* history: the token of the user's last login

trails == <<loginEvents, logoutEvents, loginAudit>>
requests == <<pc, user, recorded, target>>
vars == <<row, expired, trails, requests, latest>>

Rows == [id : RowIds, token : Tokens]

Busy(w) == pc[w] # "idle"

Token(u) == IF row[u] = None THEN None ELSE row[u].token
RowId(u) == IF row[u] = None THEN None ELSE row[u].id

Init ==
  /\ row = [u \in Users |-> None]
  /\ expired = {}
  /\ loginEvents = [k \in Tokens |-> None]
  /\ logoutEvents = {}
  /\ loginAudit = [u \in Users |-> 0]
  /\ pc = [w \in Workers |-> "idle"]
  /\ user = [w \in Workers |-> None]
  /\ recorded = [w \in Workers |-> None]
  /\ target = [w \in Workers |-> None]
  /\ latest = [u \in Users |-> None]

Goto(w, label) == pc' = [pc EXCEPT ![w] = label]

EndRequest(w) ==
  /\ Goto(w, "idle")
  /\ user' = [user EXCEPT ![w] = None]
  /\ recorded' = [recorded EXCEPT ![w] = None]
  /\ target' = [target EXCEPT ![w] = None]

\* The expires_at of a session passes.
Expire(u) ==
  /\ row[u] # None /\ row[u].token \notin expired
  /\ expired' = expired \cup {row[u].token}
  /\ UNCHANGED <<row, trails, requests, latest>>

-----------------------------------------------------------------------------
(***************************************************************************)
(* Login                                                                   *)
(***************************************************************************)
\* 403: the credentials are right and the address is not.  The audit entry is
\* committed before the exception is raised.
LoginBlocked(u) ==
  /\ loginAudit[u] < MaxAudits
  /\ loginAudit' = [loginAudit EXCEPT ![u] = @ + 1]
  /\ UNCHANGED <<row, expired, loginEvents, logoutEvents, requests, latest>>

\* The first transaction of a login accepts the credentials and the address.  A
\* login with other credentials is answered with 401 and writes nothing.
LoginAccepted(w, u) ==
  /\ ~Busy(w)
  /\ user' = [user EXCEPT ![w] = u]
  /\ Goto(w, "open")
  /\ UNCHANGED <<row, expired, trails, recorded, target, latest>>

\* Mutant: INSERT ... ON CONFLICT DO NOTHING.
OpenSessionKeepsRow(w) ==
  LET u == user[w] IN
  /\ pc[w] = "open"
  /\ \E k \in Tokens, i \in RowIds :
       /\ loginEvents[k] = None /\ \A v \in Users : RowId(v) # i
       /\ row' = IF row[u] = None THEN [row EXCEPT ![u] = [id |-> i, token |-> k]] ELSE row
       /\ loginEvents' = [loginEvents EXCEPT ![k] = u]
       /\ latest' = [latest EXCEPT ![u] = k]
  /\ loginAudit' = [loginAudit EXCEPT ![u] = @ + 1]
  /\ EndRequest(w)
  /\ UNCHANGED <<expired, logoutEvents>>

\* The second one writes the audit entry, the row and the history together.  The
\* upsert waits for a row that another request is writing; on conflict the row
\* keeps its primary key.  A uuid4 is nobody else's.
OpenSession(w) ==
  LET u == user[w] IN
  /\ pc[w] = "open"
  /\ \E k \in Tokens, i \in RowIds :
       /\ loginEvents[k] = None
       /\ IF row[u] # None THEN i = row[u].id
          ELSE (\A v \in Users : RowId(v) # i) /\ (\A v \in Workers : target[v] # i)
       /\ row' = [row EXCEPT ![u] = [id |-> i, token |-> k]]
       /\ loginEvents' = [loginEvents EXCEPT ![k] = u]
       /\ latest' = [latest EXCEPT ![u] = k]
  /\ loginAudit' = [loginAudit EXCEPT ![u] = @ + 1]
  /\ EndRequest(w)
  /\ UNCHANGED <<expired, logoutEvents>>

-----------------------------------------------------------------------------
(***************************************************************************)
(* Logout                                                                  *)
(***************************************************************************)

\* get_current_user finds the token; its read-only transaction ends here.  An
\* expired token is answered with 401 and changes nothing: the clean-up that is
\* added to the background tasks belongs to the response of a handler that the
\* exception keeps from running, so the framework never starts it.
Authenticate(w, u) ==
  /\ ~Busy(w)
  /\ row[u] # None /\ row[u].token \notin expired
  /\ user' = [user EXCEPT ![w] = u]
  /\ Goto(w, "read")
  /\ UNCHANGED <<row, expired, trails, recorded, target, latest>>

\* Mutant: the primary key is kept instead of the token.
ReadSessionId(w) ==
  /\ pc[w] = "read"
  /\ recorded' = [recorded EXCEPT ![w] = RowId(user[w])]
  /\ Goto(w, "select")
  /\ UNCHANGED <<row, expired, trails, user, target, latest>>

\* logout() looks the row up by user: it may be a newer one, or gone.
ReadSession(w) ==
  /\ pc[w] = "read"
  /\ recorded' = [recorded EXCEPT ![w] = Token(user[w])]
  /\ Goto(w, "select")
  /\ UNCHANGED <<row, expired, trails, user, target, latest>>

\* delete() looks it up once more.
SelectForDelete(w) ==
  /\ pc[w] = "select"
  /\ target' = [target EXCEPT ![w] = RowId(user[w])]
  /\ Goto(w, "delete")
  /\ UNCHANGED <<row, expired, trails, user, recorded, latest>>

\* Mutant: the row is not deleted.
LogoutRecordsOnly(w) ==
  /\ pc[w] = "delete"
  /\ logoutEvents' = logoutEvents \cup {recorded[w]}
  /\ EndRequest(w)
  /\ UNCHANGED <<row, expired, loginEvents, loginAudit, latest>>

\* DELETE ... WHERE id = target, with the history entry, in one commit.  When
\* the row is gone the DELETE matches nothing, and that is only a warning.
Logout(w) ==
  LET u == user[w] IN
  /\ pc[w] = "delete"
  /\ row' = IF target[w] # None /\ RowId(u) = target[w] THEN [row EXCEPT ![u] = None] ELSE row
  /\ logoutEvents' = logoutEvents \cup {recorded[w]}
  /\ EndRequest(w)
  /\ UNCHANGED <<expired, loginEvents, loginAudit, latest>>

-----------------------------------------------------------------------------
\* The connection breaks or the process dies before the commit.
Abort(w) ==
  /\ Busy(w)
  /\ EndRequest(w)
  /\ UNCHANGED <<row, expired, trails, latest>>

Step(w) == OpenSession(w) \/ ReadSession(w) \/ SelectForDelete(w) \/ Logout(w)

Next ==
  \/ \E u \in Users : Expire(u) \/ LoginBlocked(u)
  \/ \E w \in Workers, u \in Users : LoginAccepted(w, u) \/ Authenticate(w, u)
  \/ \E w \in Workers : Step(w) \/ Abort(w)

Spec == Init /\ [][Next]_vars

-----------------------------------------------------------------------------
TypeOK ==
  /\ row \in [Users -> Rows \cup {None}]
  /\ expired \subseteq Tokens
  /\ loginEvents \in [Tokens -> Users \cup {None}]
  /\ logoutEvents \subseteq Tokens \cup {None}
  /\ loginAudit \in [Users -> Nat]
  /\ pc \in [Workers -> {"idle", "open", "read", "select", "delete"}]
  /\ user \in [Workers -> Users \cup {None}]
  /\ recorded \in [Workers -> Tokens \cup {None}]
  /\ target \in [Workers -> RowIds \cup {None}]
  /\ latest \in [Users -> Tokens \cup {None}]

\* A token that a logout recorded is not accepted again, although the logout
\* recorded the token of one SELECT and deletes the row of another.
LogoutIsFinal == \A u \in Users : row[u] # None => row[u].token \notin logoutEvents

\* One active session per user: the row is that of the last login, which
\* revoked the token of every earlier one.
LatestLoginOnly ==
  \A u \in Users : row[u] # None => row[u].token = latest[u] /\ loginEvents[latest[u]] = u

\* What a logout deletes is on record: a user has no row only when the token of the
\* last login is in the history.  (A session that a login replaces, or that only
\* expires, leaves no record of its end.)
SessionEndIsRecorded ==
  \A u \in Users : latest[u] # None /\ row[u] = None => latest[u] \in logoutEvents

\* No login of a user is between its two transactions while a logout of the same
\* user is between its read of the token and its commit.
LoginsStayClear ==
  \A v, w \in Workers :
    pc[v] = "open" /\ pc[w] \in {"select", "delete"} => user[v] # user[w]

\* Nothing but such a login makes a logout record a token that is not the one it
\* deletes: logouts of one user may overlap, find the row gone, be aborted or delete
\* the row that another one read, and the deleted session is still on record.
LogoutsRecordedIfClear == []LoginsStayClear => []SessionEndIsRecorded

\* A user's accepted token is the one in the row; a logout that found no session
\* records the empty token, which is nobody's.
Life ==
  INSTANCE TokenLife WITH
    active <- [u \in Users |-> Token(u)],
    issued <- loginEvents,
    ended  <- logoutEvents \ {None}

\* Logins and logouts, each several statements long, appear as single steps of
\* TokenLife: a token is issued once, and once revoked it never comes back.
TokenLifeSpec == Life!Spec
=============================================================================

---------------------------- MODULE SessionsProofs ----------------------------
(***************************************************************************)
(* For any number of users, requests and tokens: logout is final, only the *)
(* last login's token is live, clients see the steps of TokenLife, and     *)
(* while no login is inside a logout of its user, whatever session a       *)
(* logout deletes is on record.                                            *)
(***************************************************************************)
EXTENDS Sessions, TLAPS

\* A request that is in progress has a user, and records only that user's tokens.
OwnTokens ==
  \A w \in Workers :
    /\ Busy(w) => user[w] \in Users
    /\ recorded[w] # None => Busy(w) /\ loginEvents[recorded[w]] = user[w]

\* When the token that a logout is going to record is live, its row is the one
\* that the logout is going to delete.
Aimed ==
  \A w \in Workers :
    pc[w] = "delete" /\ recorded[w] # None /\ Token(user[w]) = recorded[w]
      => RowId(user[w]) = target[w]

\* Logouts record tokens that logins have created.
Known == \A k \in Tokens : k \in logoutEvents => loginEvents[k] # None

IInv == TypeOK /\ OwnTokens /\ Aimed /\ Known /\ LatestLoginOnly /\ LogoutIsFinal

USE SessionsAssumption

LEMMA InitIInv == Init => IInv
BY DEF Init, IInv, TypeOK, OwnTokens, Aimed, Known, LatestLoginOnly, LogoutIsFinal, Busy

\* Steps that neither write the row nor the trails and leave the requests alone.
LEMMA ReadersIInv ==
  ASSUME IInv, NEW u \in Users, Expire(u) \/ LoginBlocked(u)
  PROVE  IInv'
<1>1. UNCHANGED <<row, loginEvents, logoutEvents, pc, user, recorded, target, latest>>
  BY DEF Expire, LoginBlocked, trails, requests
<1>2. TypeOK'
  <2>1. CASE Expire(u)
    BY <2>1 DEF Expire, IInv, TypeOK, Rows, trails, requests
  <2>2. CASE LoginBlocked(u)
    BY <2>2 DEF LoginBlocked, IInv, TypeOK, trails, requests
  <2> QED
    BY <2>1, <2>2
<1> QED
  BY <1>1, <1>2
     DEF IInv, OwnTokens, Aimed, Known, LatestLoginOnly, LogoutIsFinal, Busy, Token, RowId

\* A request that starts has nothing to record.
LEMMA StartIInv ==
  ASSUME IInv, NEW w \in Workers, NEW u \in Users, LoginAccepted(w, u) \/ Authenticate(w, u)
  PROVE  IInv'
<1>1. /\ ~Busy(w)
      /\ user' = [user EXCEPT ![w] = u]
      /\ pc' = [pc EXCEPT ![w] = "open"] \/ pc' = [pc EXCEPT ![w] = "read"]
      /\ UNCHANGED <<row, expired, trails, recorded, target, latest>>
  BY DEF LoginAccepted, Authenticate, Goto
<1>2. UNCHANGED <<loginEvents, logoutEvents, loginAudit, latest>>
  BY <1>1 DEF trails
<1>3. TypeOK'
  BY <1>1, <1>2 DEF IInv, TypeOK
<1>4. OwnTokens'
  BY <1>1, <1>2 DEF IInv, TypeOK, OwnTokens, Busy
<1>5. Aimed'
  BY <1>1, <1>2 DEF IInv, TypeOK, Aimed, Token, RowId
<1>6. (Known /\ LatestLoginOnly /\ LogoutIsFinal)'
  BY <1>1, <1>2 DEF IInv, Known, LatestLoginOnly, LogoutIsFinal
<1> QED
  BY <1>3, <1>4, <1>5, <1>6 DEF IInv

LEMMA OpenSessionIInv ==
  ASSUME IInv, NEW w \in Workers, OpenSession(w)
  PROVE  IInv'
<1> DEFINE u == user[w]
<1>1. u \in Users /\ Busy(w)
  BY DEF OpenSession, IInv, OwnTokens, Busy
<1>2. PICK k \in Tokens, i \in RowIds :
        /\ loginEvents[k] = None
        /\ row' = [row EXCEPT ![u] = [id |-> i, token |-> k]]
        /\ loginEvents' = [loginEvents EXCEPT ![k] = u]
        /\ latest' = [latest EXCEPT ![u] = k]
  BY DEF OpenSession
<1>3. /\ loginAudit' = [loginAudit EXCEPT ![u] = @ + 1]
      /\ pc' = [pc EXCEPT ![w] = "idle"]
      /\ user' = [user EXCEPT ![w] = None]
      /\ recorded' = [recorded EXCEPT ![w] = None]
      /\ target' = [target EXCEPT ![w] = None]
      /\ UNCHANGED <<expired, logoutEvents>>
  BY DEF OpenSession, EndRequest, Goto
<1>4. TypeOK'
  <2>1. row' \in [Users -> Rows \cup {None}] /\ loginEvents' \in [Tokens -> Users \cup {None}]
          /\ latest' \in [Users -> Tokens \cup {None}]
    BY <1>1, <1>2 DEF IInv, TypeOK, Rows
  <2>2. loginAudit' \in [Users -> Nat]
    BY <1>1, <1>3 DEF IInv, TypeOK
  <2> QED
    BY <1>3, <2>1, <2>2 DEF IInv, TypeOK
<1>5. OwnTokens'
  BY <1>1, <1>2, <1>3 DEF IInv, TypeOK, OwnTokens, Busy
<1>6. k \notin logoutEvents /\ \A v \in Workers : recorded[v] # k
  BY <1>2 DEF IInv, TypeOK, Known, OwnTokens
<1>7. Aimed'
  <2> SUFFICES ASSUME NEW v \in Workers, pc'[v] = "delete", recorded'[v] # None,
                      Token(user[v])' = recorded'[v]
               PROVE  RowId(user[v])' = target'[v]
    BY DEF Aimed
  <2>1. v # w /\ pc[v] = "delete" /\ recorded'[v] = recorded[v] /\ target'[v] = target[v]
          /\ user'[v] = user[v] /\ user[v] \in Users
    BY <1>3 DEF IInv, TypeOK, OwnTokens, Busy
  <2>2. user[v] # u
    BY <1>1, <1>2, <1>6, <2>1 DEF IInv, TypeOK, Token
  <2>3. row'[user[v]] = row[user[v]]
    BY <1>2, <2>1, <2>2 DEF IInv, TypeOK
  <2> QED
    BY <2>1, <2>3 DEF IInv, Aimed, Token, RowId
<1>8. Known'
  BY <1>1, <1>2, <1>3 DEF IInv, TypeOK, Known
<1>9. LatestLoginOnly'
  BY <1>1, <1>2 DEF IInv, TypeOK, LatestLoginOnly, Rows
<1>10. LogoutIsFinal'
  BY <1>1, <1>2, <1>3, <1>6 DEF IInv, TypeOK, LogoutIsFinal
<1> QED
  BY <1>4, <1>5, <1>7, <1>8, <1>9, <1>10 DEF IInv

LEMMA ReadSessionIInv ==
  ASSUME IInv, NEW w \in Workers, ReadSession(w)
  PROVE  IInv'
<1>1. /\ pc[w] = "read" /\ pc' = [pc EXCEPT ![w] = "select"]
      /\ recorded' = [recorded EXCEPT ![w] = Token(user[w])]
      /\ UNCHANGED <<row, expired, trails, user, target, latest>>
  BY DEF ReadSession, Goto
<1>2. UNCHANGED <<loginEvents, logoutEvents, loginAudit, latest>>
  BY <1>1 DEF trails
<1>3. user[w] \in Users
  BY <1>1 DEF IInv, OwnTokens, Busy
<1>4. Token(user[w]) \in Tokens \cup {None}
  BY <1>3 DEF IInv, TypeOK, Rows, Token
<1>5. Token(user[w]) # None => loginEvents[Token(user[w])] = user[w]
  BY <1>3 DEF IInv, LatestLoginOnly, Token
<1>6. TypeOK'
  BY <1>1, <1>2, <1>4 DEF IInv, TypeOK
<1>7. OwnTokens'
  BY <1>1, <1>2, <1>5 DEF IInv, TypeOK, OwnTokens, Busy
<1>8. Aimed'
  BY <1>1 DEF IInv, TypeOK, Aimed, Token, RowId
<1>9. (Known /\ LatestLoginOnly /\ LogoutIsFinal)'
  BY <1>1, <1>2 DEF IInv, Known, LatestLoginOnly, LogoutIsFinal
<1> QED
  BY <1>6, <1>7, <1>8, <1>9 DEF IInv

LEMMA SelectForDeleteIInv ==
  ASSUME IInv, NEW w \in Workers, SelectForDelete(w)
  PROVE  IInv'
<1>1. /\ pc[w] = "select" /\ pc' = [pc EXCEPT ![w] = "delete"]
      /\ target' = [target EXCEPT ![w] = RowId(user[w])]
      /\ UNCHANGED <<row, expired, trails, user, recorded, latest>>
  BY DEF SelectForDelete, Goto
<1>2. UNCHANGED <<loginEvents, logoutEvents, loginAudit, latest>>
  BY <1>1 DEF trails
<1>3. user[w] \in Users
  BY <1>1 DEF IInv, OwnTokens, Busy
<1>4. RowId(user[w]) \in RowIds \cup {None}
  BY <1>3 DEF IInv, TypeOK, Rows, RowId
<1>5. TypeOK'
  BY <1>1, <1>2, <1>4 DEF IInv, TypeOK
<1>6. OwnTokens'
  BY <1>1, <1>2 DEF IInv, TypeOK, OwnTokens, Busy
<1>7. Aimed'
  BY <1>1 DEF IInv, TypeOK, Aimed, Token, RowId
<1>8. (Known /\ LatestLoginOnly /\ LogoutIsFinal)'
  BY <1>1, <1>2 DEF IInv, Known, LatestLoginOnly, LogoutIsFinal
<1> QED
  BY <1>5, <1>6, <1>7, <1>8 DEF IInv

LEMMA LogoutIInv ==
  ASSUME IInv, NEW w \in Workers, Logout(w)
  PROVE  IInv'
<1> DEFINE u == user[w]
<1>1. /\ pc[w] = "delete"
      /\ row' = IF target[w] # None /\ RowId(u) = target[w] THEN [row EXCEPT ![u] = None] ELSE row
      /\ logoutEvents' = logoutEvents \cup {recorded[w]}
      /\ pc' = [pc EXCEPT ![w] = "idle"]
      /\ user' = [user EXCEPT ![w] = None]
      /\ recorded' = [recorded EXCEPT ![w] = None]
      /\ target' = [target EXCEPT ![w] = None]
      /\ UNCHANGED <<expired, loginEvents, loginAudit, latest>>
  BY DEF Logout, EndRequest, Goto
<1>2. UNCHANGED latest
  BY <1>1
<1>3. u \in Users
  BY <1>1 DEF IInv, OwnTokens, Busy
<1>4. \A v \in Users : row'[v] # None => row'[v] = row[v]
  BY <1>1, <1>3 DEF IInv, TypeOK
<1>5. TypeOK'
  BY <1>1, <1>2, <1>3 DEF IInv, TypeOK
<1>6. OwnTokens'
  BY <1>1, <1>2 DEF IInv, TypeOK, OwnTokens, Busy
<1>7. Aimed'
  <2> SUFFICES ASSUME NEW v \in Workers, pc'[v] = "delete", recorded'[v] # None,
                      Token(user[v])' = recorded'[v]
               PROVE  RowId(user[v])' = target'[v]
    BY DEF Aimed
  <2>1. v # w /\ pc[v] = "delete" /\ recorded'[v] = recorded[v] /\ target'[v] = target[v]
          /\ user'[v] = user[v] /\ user[v] \in Users
    BY <1>1 DEF IInv, TypeOK, OwnTokens, Busy
  <2>2. row'[user[v]] # None
    BY <2>1 DEF Token
  <2>3. row'[user[v]] = row[user[v]]
    BY <1>4, <2>1, <2>2
  <2> QED
    BY <2>1, <2>3 DEF IInv, Aimed, Token, RowId
<1>8. Known'
  BY <1>1, <1>3 DEF IInv, TypeOK, Known, OwnTokens
<1>9. LatestLoginOnly'
  BY <1>1, <1>2, <1>4 DEF IInv, LatestLoginOnly
<1>10. LogoutIsFinal'
  <2> SUFFICES ASSUME NEW v \in Users, row'[v] # None, row'[v].token = recorded[w]
               PROVE  FALSE
    BY <1>1, <1>4 DEF IInv, LogoutIsFinal
  <2>1. row[v] # None /\ row[v].token = recorded[w] /\ recorded[w] \in Tokens
    BY <1>4 DEF IInv, TypeOK, Rows
  <2>2. v = u
    BY <2>1 DEF IInv, OwnTokens, LatestLoginOnly
  <2>3. RowId(u) = target[w] /\ target[w] # None
    BY <1>1, <1>3, <2>1, <2>2 DEF IInv, TypeOK, Rows, Aimed, Token, RowId
  <2> QED
    BY <1>1, <1>3, <2>2, <2>3 DEF IInv, TypeOK
<1> QED
  BY <1>5, <1>6, <1>7, <1>8, <1>9, <1>10 DEF IInv

LEMMA AbortIInv ==
  ASSUME IInv, NEW w \in Workers, Abort(w)
  PROVE  IInv'
<1>1. /\ pc' = [pc EXCEPT ![w] = "idle"]
      /\ user' = [user EXCEPT ![w] = None]
      /\ recorded' = [recorded EXCEPT ![w] = None]
      /\ target' = [target EXCEPT ![w] = None]
      /\ UNCHANGED <<row, expired, trails, latest>>
  BY DEF Abort, EndRequest, Goto
<1>2. UNCHANGED <<loginEvents, logoutEvents, loginAudit, latest>>
  BY <1>1 DEF trails
<1>3. TypeOK'
  BY <1>1, <1>2 DEF IInv, TypeOK
<1>4. OwnTokens' /\ Aimed'
  BY <1>1, <1>2 DEF IInv, TypeOK, OwnTokens, Aimed, Busy, Token, RowId
<1>5. (Known /\ LatestLoginOnly /\ LogoutIsFinal)'
  BY <1>1, <1>2 DEF IInv, Known, LatestLoginOnly, LogoutIsFinal
<1> QED
  BY <1>3, <1>4, <1>5 DEF IInv

LEMMA NextIInv == IInv /\ [Next]_vars => IInv'
<1> SUFFICES ASSUME IInv, [Next]_vars
             PROVE  IInv'
  OBVIOUS
<1>1. CASE Next
  BY <1>1, ReadersIInv, StartIInv, OpenSessionIInv, ReadSessionIInv, SelectForDeleteIInv,
     LogoutIInv, AbortIInv DEF Next, Step
<1>2. CASE UNCHANGED vars
  BY <1>2 DEF vars, trails, requests, IInv, TypeOK, OwnTokens, Aimed, Known,
     LatestLoginOnly, LogoutIsFinal, Busy, Token, RowId
<1> QED
  BY <1>1, <1>2

LEMMA Inductive == Spec => []IInv
BY InitIInv, NextIInv, PTL DEF Spec

\* Every variable of the session service keeps its type.
THEOREM SessionTypes == Spec => []TypeOK
<1>1. IInv => TypeOK
  BY DEF IInv
<1> QED
  BY <1>1, Inductive, PTL

\* However logins and logouts overlap, a token that a logout recorded is dead.
THEOREM LoggedOutForGood == Spec => []LogoutIsFinal
<1>1. IInv => LogoutIsFinal
  BY DEF IInv
<1> QED
  BY <1>1, Inductive, PTL

\* However logins and logouts overlap, a login revokes the user's older tokens.
THEOREM OneActiveSession == Spec => []LatestLoginOnly
<1>1. IInv => LatestLoginOnly
  BY DEF IInv
<1> QED
  BY <1>1, Inductive, PTL

-----------------------------------------------------------------------------
\* Only a login's second transaction and a logout's DELETE change what a client
\* can see of its tokens.
LEMMA QuietSteps ==
  ASSUME [Next]_vars, ~ \E w \in Workers : OpenSession(w) \/ Logout(w)
  PROVE  UNCHANGED <<row, loginEvents, logoutEvents>>
BY DEF Next, Step, Expire, LoginBlocked, LoginAccepted, Authenticate, ReadSession,
   SelectForDelete, Abort, vars, trails

\* However logins and logouts overlap, clients see the steps of TokenLife.
THEOREM ImplementsTokenLife == Spec => TokenLifeSpec
<1> DEFINE act == [u \in Users |-> Token(u)]
           end == logoutEvents \ {None}
<1>1. Init => Life!Init
  BY DEF Init, Life!Init, Token
<1>2. ASSUME IInv, IInv', [Next]_vars
      PROVE  [Life!Next]_<<act, loginEvents, end>>
  <2>1. ASSUME NEW w \in Workers, OpenSession(w)
        PROVE  Life!Next
    <3> DEFINE u == user[w]
    <3>1. u \in Users
      BY <1>2, <2>1 DEF OpenSession, IInv, OwnTokens, Busy
    <3>2. PICK k \in Tokens, i \in RowIds :
            /\ loginEvents[k] = None
            /\ row' = [row EXCEPT ![u] = [id |-> i, token |-> k]]
            /\ loginEvents' = [loginEvents EXCEPT ![k] = u]
      BY <2>1 DEF OpenSession
    <3>3. UNCHANGED logoutEvents
      BY <2>1 DEF OpenSession
    <3>4. k \notin end
      BY <1>2, <3>2 DEF IInv, Known
    <3>5. act' = [act EXCEPT ![u] = k]
      <4>1. row'[u] = [id |-> i, token |-> k]
        BY <1>2, <3>1, <3>2 DEF IInv, TypeOK
      <4>2. row'[u] # None /\ row'[u].token = k
        BY <4>1
      <4>3. \A v \in Users \ {u} : row'[v] = row[v]
        BY <1>2, <3>1, <3>2 DEF IInv, TypeOK
      <4> QED
        BY <3>1, <4>2, <4>3 DEF Token
    <3>6. Life!Login(u)
      BY <3>2, <3>3, <3>4, <3>5 DEF Life!Login
    <3> QED
      BY <3>1, <3>6 DEF Life!Next
  <2>2. ASSUME NEW w \in Workers, Logout(w)
        PROVE  Life!Next
    <3> DEFINE u == user[w]
    <3>1. u \in Users
      BY <1>2, <2>2 DEF Logout, IInv, OwnTokens, Busy
    <3>2. /\ row' = row \/ row' = [row EXCEPT ![u] = None]
          /\ logoutEvents' = logoutEvents \cup {recorded[w]}
          /\ UNCHANGED loginEvents
      BY <2>2 DEF Logout
    <3>3. act' = act \/ act' = [act EXCEPT ![u] = None]
      BY <1>2, <3>1, <3>2 DEF IInv, TypeOK, Token
    <3>4. CASE recorded[w] = None
      <4>1. end' = end /\ loginEvents' = loginEvents
        BY <3>2, <3>4
      <4>2. act' \in {act, [act EXCEPT ![u] = None]}
        BY <3>3
      <4>3. Life!Logout(u)
        BY <4>1, <4>2 DEF Life!Logout
      <4> QED
        BY <3>1, <4>3 DEF Life!Next
    <3>5. CASE recorded[w] # None
      <4>1. recorded[w] \in Tokens /\ loginEvents[recorded[w]] = u
        BY <1>2, <3>5 DEF IInv, TypeOK, OwnTokens
      <4>2. act'[u] # recorded[w]
        BY <1>2, <3>1, <3>2, <4>1 DEF IInv, LogoutIsFinal, Token
      <4>3. end' = end \cup {recorded[w]}
        BY <3>2, <4>1
      <4>4. Life!Logout(u)
        BY <3>2, <3>3, <4>1, <4>2, <4>3 DEF Life!Logout
      <4> QED
        BY <3>1, <4>4 DEF Life!Next
    <3> QED
      BY <3>4, <3>5
  <2>3. CASE ~ \E w \in Workers : OpenSession(w) \/ Logout(w)
    <3>1. UNCHANGED <<row, loginEvents, logoutEvents>>
      BY <1>2, <2>3, QuietSteps
    <3> QED
      BY <3>1 DEF Token
  <2> QED
    BY <2>1, <2>2, <2>3
<1> QED
  BY <1>1, <1>2, Inductive, PTL DEF Spec, TokenLifeSpec, Life!Spec

-----------------------------------------------------------------------------
\* The session that a logout is about to delete, if there is one, is the session
\* whose token it has read.
ReadStillLive ==
  \A w \in Workers :
    pc[w] \in {"select", "delete"} /\ row[user[w]] # None => recorded[w] = row[user[w]].token

TrailInv == ReadStillLive /\ SessionEndIsRecorded

LEMMA InitTrailInv == Init => TrailInv
BY DEF Init, TrailInv, ReadStillLive, SessionEndIsRecorded

\* The end of request w leaves ReadStillLive alone if rows stay as they are,
\* are removed, or belong to a user of whom no logout has read its token.
LEMMA ReadStillLiveKept ==
  ASSUME IInv, ReadStillLive, NEW w \in Workers,
         pc' = [pc EXCEPT ![w] = "idle"], user' = [user EXCEPT ![w] = None],
         recorded' = [recorded EXCEPT ![w] = None],
         \A v \in Workers \ {w} : pc[v] \in {"select", "delete"}
           => row'[user[v]] \in {None, row[user[v]]}
  PROVE  ReadStillLive'
<1> SUFFICES ASSUME NEW v \in Workers, pc'[v] \in {"select", "delete"}, row'[user'[v]] # None
             PROVE  recorded'[v] = row'[user'[v]].token
  BY DEF ReadStillLive
<1>1. v # w /\ pc[v] = pc'[v] /\ user'[v] = user[v] /\ recorded'[v] = recorded[v]
  BY DEF IInv, TypeOK
<1>2. row'[user[v]] = row[user[v]]
  BY <1>1
<1> QED
  BY <1>1, <1>2 DEF ReadStillLive

\* A login that commits while no logout of its user is past its read.
LEMMA OpenSessionTrail ==
  ASSUME IInv, TrailInv, LoginsStayClear, NEW w \in Workers, OpenSession(w)
  PROVE  TrailInv'
<1> DEFINE u == user[w]
<1>1. /\ pc[w] = "open" /\ u \in Users
      /\ pc' = [pc EXCEPT ![w] = "idle"]
      /\ user' = [user EXCEPT ![w] = None]
      /\ recorded' = [recorded EXCEPT ![w] = None]
      /\ UNCHANGED logoutEvents
  BY DEF OpenSession, EndRequest, Goto, IInv, OwnTokens, Busy
<1>2. PICK k \in Tokens, i \in RowIds :
        /\ row' = [row EXCEPT ![u] = [id |-> i, token |-> k]]
        /\ latest' = [latest EXCEPT ![u] = k]
  BY DEF OpenSession
<1>3. [id |-> i, token |-> k] # None
  BY SessionsAssumption
<1>4. SessionEndIsRecorded'
  BY <1>1, <1>2, <1>3 DEF TrailInv, SessionEndIsRecorded, IInv, TypeOK
<1>5. ASSUME NEW v \in Workers \ {w}, pc[v] \in {"select", "delete"}
      PROVE  row'[user[v]] \in {None, row[user[v]]}
  <2>1. user[v] \in Users
    BY <1>5 DEF IInv, OwnTokens, Busy
  <2>2. user[v] # u
    BY <1>1, <1>5 DEF LoginsStayClear
  <2> QED
    BY <1>2, <2>1, <2>2 DEF IInv, TypeOK
<1>6. ReadStillLive'
  BY <1>1, <1>5, ReadStillLiveKept DEF TrailInv
<1> QED
  BY <1>4, <1>6 DEF TrailInv

\* A logout only removes a row, and the token it records is the row's.
LEMMA LogoutTrail ==
  ASSUME IInv, TrailInv, NEW w \in Workers, Logout(w)
  PROVE  TrailInv'
<1> DEFINE u == user[w]
<1>1. /\ pc[w] = "delete" /\ u \in Users
      /\ pc' = [pc EXCEPT ![w] = "idle"]
      /\ user' = [user EXCEPT ![w] = None]
      /\ recorded' = [recorded EXCEPT ![w] = None]
      /\ row' = IF target[w] # None /\ RowId(u) = target[w]
                THEN [row EXCEPT ![u] = None] ELSE row
      /\ logoutEvents' = logoutEvents \cup {recorded[w]}
      /\ UNCHANGED latest
  BY DEF Logout, EndRequest, Goto, IInv, OwnTokens, Busy
<1>2. row[u] # None => latest[u] = recorded[w]
  BY <1>1 DEF TrailInv, ReadStillLive, IInv, LatestLoginOnly
<1>3. SessionEndIsRecorded'
  BY <1>1, <1>2 DEF TrailInv, SessionEndIsRecorded, IInv, TypeOK
<1>4. ASSUME NEW v \in Workers \ {w}, pc[v] \in {"select", "delete"}
      PROVE  row'[user[v]] \in {None, row[user[v]]}
  BY <1>1, <1>4 DEF IInv, TypeOK, OwnTokens, Busy
<1>5. ReadStillLive'
  BY <1>1, <1>4, ReadStillLiveKept DEF TrailInv
<1> QED
  BY <1>3, <1>5 DEF TrailInv

\* The statements of a request that commit nothing.
LEMMA ReadsTrail ==
  ASSUME IInv, TrailInv, NEW w \in Workers, ReadSession(w) \/ SelectForDelete(w) \/ Abort(w)
  PROVE  TrailInv'
<1>1. UNCHANGED <<row, logoutEvents, latest>>
  BY DEF ReadSession, SelectForDelete, Abort, trails
<1>2. ASSUME ReadSession(w) PROVE ReadStillLive'
  BY <1>1, <1>2 DEF ReadSession, Goto, Token, TrailInv, ReadStillLive, IInv, TypeOK
<1>3. ASSUME SelectForDelete(w) PROVE ReadStillLive'
  BY <1>1, <1>3 DEF SelectForDelete, Goto, TrailInv, ReadStillLive, IInv, TypeOK
<1>4. ASSUME Abort(w) PROVE ReadStillLive'
  BY <1>1, <1>4, ReadStillLiveKept DEF Abort, EndRequest, Goto, TrailInv
<1>5. ReadStillLive'
  BY <1>2, <1>3, <1>4 DEF TrailInv
<1>6. SessionEndIsRecorded'
  BY <1>1 DEF TrailInv, SessionEndIsRecorded
<1> QED
  BY <1>5, <1>6 DEF TrailInv

\* A request that starts, an expiry and a blocked login write no row.
LEMMA StartTrail ==
  ASSUME IInv, TrailInv, NEW u \in Users,
         \/ Expire(u) \/ LoginBlocked(u)
         \/ \E w \in Workers : LoginAccepted(w, u) \/ Authenticate(w, u)
  PROVE  TrailInv'
<1>1. UNCHANGED <<row, logoutEvents, recorded, latest>>
  BY DEF Expire, LoginBlocked, LoginAccepted, Authenticate, trails, requests
<1>2. ASSUME NEW v \in Workers, pc'[v] \in {"select", "delete"}
      PROVE  pc[v] = pc'[v] /\ user'[v] = user[v]
  BY <1>2 DEF Expire, LoginBlocked, LoginAccepted, Authenticate, Goto, requests, Busy, IInv, TypeOK
<1>3. ReadStillLive'
  BY <1>1, <1>2 DEF TrailInv, ReadStillLive
<1>4. SessionEndIsRecorded'
  BY <1>1 DEF TrailInv, SessionEndIsRecorded
<1> QED
  BY <1>3, <1>4 DEF TrailInv

LEMMA NextTrailInv ==
  ASSUME IInv, TrailInv, LoginsStayClear, [Next]_vars
  PROVE  TrailInv'
<1>1. CASE Next
  BY <1>1, StartTrail, OpenSessionTrail, ReadsTrail, LogoutTrail DEF Next, Step
<1>2. CASE UNCHANGED vars
  BY <1>2 DEF vars, trails, requests, TrailInv, ReadStillLive, SessionEndIsRecorded
<1> QED
  BY <1>1, <1>2

\* In every behaviour in which no login is between its transactions while a logout of
\* the same user reads and commits, each session that a logout deletes is on record,
\* however logouts overlap with each other and with the rest of the logins.
THEOREM LogoutsRecorded == Spec => LogoutsRecordedIfClear
<1>1. IInv /\ TrailInv /\ LoginsStayClear /\ [Next]_vars => TrailInv'
  BY NextTrailInv
<1>2. TrailInv => SessionEndIsRecorded
  BY DEF TrailInv
<1> QED
  BY <1>1, <1>2, InitTrailInv, Inductive, PTL DEF Spec, LogoutsRecordedIfClear
=============================================================================

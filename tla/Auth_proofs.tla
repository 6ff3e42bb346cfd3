----------------------------- MODULE Auth_proofs ------------------------------
(***************************************************************************)
(* Proofs about Auth, for every number of accounts, sessions and threads.  *)
(***************************************************************************)
EXTENDS Auth, NumberedRows_proofs, FiniteSetTheorems, TLAPS

-------------------------------------------------------------------------------
(* Opening a session *)

\* `new` is the session of u a step adds to these rows.
Opens(new, rows, u, account) ==
    /\ new.user = u
    /\ new.token = issued + 1
    /\ new.password = account.password
    /\ new.expires = now + Lifetime
    /\ \A r \in rows : r.id < new.id
    /\ sessions' = Newest(rows \cup {new}, MaxSessions)
    /\ sessions' \subseteq rows \cup {new}
    /\ issued' = issued + 1

\* What Issue does to a table whose rows have numbers.
LEMMA IssueEffect ==
    ASSUME TypeOK, NEW rows \in SUBSET sessions, NEW u \in User,
           NEW account, account.password \in Nat, Issue(rows, u, account)
    PROVE  \E new \in Session : Opens(new, rows, u, account)
<1>1. PICK id \in 1 .. MaxTokens :
        /\ IsNextId(id, rows)
        /\ sessions' = Newest(rows \cup {[id |-> id, user |-> u, token |-> issued + 1,
                                          expires |-> now + Lifetime,
                                          password |-> account.password]}, MaxSessions)
  BY DEF Issue
<1> DEFINE new == [id |-> id, user |-> u, token |-> issued + 1,
                   expires |-> now + Lifetime, password |-> account.password]
<1>2. new \in Session
  BY BoundAssumption DEF Session, TypeOK
<1>3. \A r \in rows : r.id < new.id
  BY <1>1 DEF IsNextId
<1>4. sessions' \subseteq rows \cup {new}
  BY <1>1, NewestSubset
<1>5. issued' = issued + 1
  BY DEF Issue
<1>6. /\ new.user = u /\ new.token = issued + 1 /\ new.password = account.password
      /\ new.expires = now + Lifetime
  OBVIOUS
<1>7. sessions' = Newest(rows \cup {new}, MaxSessions)
  BY <1>1
<1> HIDE DEF new
<1> QED BY <1>2, <1>3, <1>4, <1>5, <1>6, <1>7 DEF Opens

-------------------------------------------------------------------------------
(* Type correctness *)

LEMMA TypeNext == TypeOK /\ [Next]_vars => TypeOK'
<1> SUFFICES ASSUME TypeOK, [Next]_vars PROVE TypeOK'
  OBVIOUS
<1>1. ASSUME NEW rows \in SUBSET sessions, NEW u \in User, NEW account,
             account.password \in Nat, Issue(rows, u, account)
      PROVE  sessions' \subseteq Session /\ issued' \in Nat
  <2>1. PICK new \in Session : Opens(new, rows, u, account)
    BY <1>1, IssueEffect
  <2>2. sessions' \subseteq rows \cup {new} /\ issued' = issued + 1
    BY <2>1 DEF Opens
  <2>3. rows \subseteq Session /\ issued \in Nat
    BY DEF TypeOK
  <2> QED BY <2>2, <2>3
<1>2. ASSUME NEW u \in User, Bootstrap(u) PROVE TypeOK'
  <2> DEFINE account == [role |-> "admin", enabled |-> TRUE, password |-> 1]
  <2>1. account \in Account
    BY RoleAssumption DEF Account
  <2>2. /\ users' = [users EXCEPT ![u] = account]
        /\ Issue(sessions, u, account)
        /\ UNCHANGED <<requests, now>>
    BY <1>2 DEF Bootstrap
  <2>3. account.password \in Nat
    OBVIOUS
  <2> HIDE DEF account
  <2> QED BY <1>1, <2>1, <2>2, <2>3 DEF TypeOK
<1>3. ASSUME NEW u \in User, NEW password, Login(u, password) PROVE TypeOK'
  <2>1. users[u].password \in Nat /\ Unexpired \in SUBSET sessions
    BY <1>3 DEF Login, TypeOK, Account, Unexpired
  <2> QED BY <1>1, <1>3, <2>1 DEF Login, TypeOK
<1>4. ASSUME NEW t \in Thread PROVE Answer(t) => requests' \in [Thread -> Principal \cup {None}]
  BY DEF Answer, TypeOK
<1>5. ASSUME NEW t \in Thread, NEW s \in sessions, Authenticate(t, s) PROVE TypeOK'
  <2>1. s \in Session /\ users[s.user] \in Account
    BY <1>5 DEF Authenticate, Unexpired, TypeOK, Session, Account
  <2>2. [user |-> s.user, role |-> users[s.user].role, session |-> s.id, token |-> s.token]
            \in Principal
    BY <2>1 DEF Session, Account, Principal
  <2> QED BY <1>5, <2>2 DEF Authenticate, Unexpired, TypeOK
<1>6. ASSUME NEW t \in Thread, EndRequest(t) \/ Logout(t) PROVE TypeOK'
  BY <1>4, <1>6 DEF EndRequest, Logout, TypeOK
<1>7. ASSUME NEW t \in Thread, NEW u \in User, NEW role \in Role, NEW enabled \in BOOLEAN,
             CreateUser(t, u, role, enabled)
      PROVE  TypeOK'
  <2>1. [role |-> role, enabled |-> enabled, password |-> 1] \in Account
    BY DEF Account
  <2> QED BY <1>4, <1>7, <2>1 DEF CreateUser, TypeOK
<1>8. ASSUME NEW t \in Thread, NEW u \in User, NEW role \in Role, NEW enabled \in BOOLEAN,
             UpdateUser(t, u, role, enabled)
      PROVE  TypeOK'
  <2>1. users[u] \in Account
    BY <1>8 DEF UpdateUser, TypeOK
  <2>2. [users[u] EXCEPT !.role = role, !.enabled = enabled] \in Account
    BY <2>1 DEF Account
  <2>3. users' = [users EXCEPT ![u] = [users[u] EXCEPT !.role = role, !.enabled = enabled]]
    BY <1>8 DEF UpdateUser
  <2>4. sessions' \subseteq sessions
    BY <1>8 DEF UpdateUser, Revoked
  <2> QED BY <1>4, <1>8, <2>2, <2>3, <2>4 DEF UpdateUser, TypeOK
<1>9. ASSUME NEW t \in Thread, NEW u \in User, ResetPassword(t, u) PROVE TypeOK'
  <2>1. users[u] \in Account
    BY <1>9 DEF ResetPassword, TypeOK
  <2>2. [users[u] EXCEPT !.password = @ + 1] \in Account
    BY <2>1 DEF Account
  <2>3. users' = [users EXCEPT ![u] = [users[u] EXCEPT !.password = @ + 1]]
    BY <1>9 DEF ResetPassword
  <2> QED BY <1>4, <1>9, <2>2, <2>3 DEF ResetPassword, Revoked, TypeOK
<1>10. ASSUME Tick \/ Restart \/ UNCHANGED vars PROVE TypeOK'
  BY <1>10 DEF Tick, Restart, vars, TypeOK
<1> QED BY <1>2, <1>3, <1>5, <1>6, <1>7, <1>8, <1>9, <1>10 DEF Next, LoginNext, RequestNext

\* Accounts, sessions and principals always have the shape TypeOK gives them.
THEOREM TypeCorrect == Spec => []TypeOK
<1>1. Init => TypeOK
  BY DEF Init, TypeOK
<1> QED BY <1>1, TypeNext, PTL DEF Spec

-------------------------------------------------------------------------------
(* Administrators *)

LEMMA AdminNext == TypeOK /\ AdminRemains /\ [Next]_vars => AdminRemains'
<1> SUFFICES ASSUME TypeOK, AdminRemains, [Next]_vars PROVE AdminRemains'
  OBVIOUS
<1>1. ASSUME UNCHANGED users PROVE AdminRemains'
  BY <1>1 DEF AdminRemains, EnabledAdmins
<1>2. ASSUME NEW a \in User, users'[a] # None, users'[a].enabled, users'[a].role = "admin"
      PROVE  AdminRemains'
  BY <1>2 DEF AdminRemains, EnabledAdmins
<1>3. ASSUME NEW u \in User, Bootstrap(u) PROVE AdminRemains'
  <2> DEFINE account == [role |-> "admin", enabled |-> TRUE, password |-> 1]
  <2>1. users'[u] = account
    BY <1>3 DEF Bootstrap, TypeOK
  <2>2. account \in Account
    BY RoleAssumption DEF Account
  <2>3. account.enabled /\ account.role = "admin"
    OBVIOUS
  <2> HIDE DEF account
  <2> QED BY <1>2, <2>1, <2>2, <2>3, NoneAssumption
<1>4. ASSUME NEW t \in Thread, NEW u \in User, NEW role \in Role, NEW enabled \in BOOLEAN,
             CreateUser(t, u, role, enabled)
      PROVE  AdminRemains'
  <2>1. PICK a \in EnabledAdmins : TRUE
    BY <1>4 DEF CreateUser, AdminRemains
  <2>2. a \in User /\ a # u /\ users'[a] = users[a]
    BY <1>4, <2>1 DEF EnabledAdmins, CreateUser, TypeOK
  <2> QED BY <1>2, <2>1, <2>2 DEF EnabledAdmins
<1>5. ASSUME NEW t \in Thread, NEW u \in User, NEW role \in Role, NEW enabled \in BOOLEAN,
             UpdateUser(t, u, role, enabled)
      PROVE  AdminRemains'
  <2>1. /\ users[u] \in Account
        /\ users' = [users EXCEPT ![u] = [users[u] EXCEPT !.role = role, !.enabled = enabled]]
    BY <1>5 DEF UpdateUser, TypeOK
  <2>2. CASE \E a \in EnabledAdmins : a # u
    <3>1. PICK a \in EnabledAdmins : a # u
      BY <2>2
    <3> QED BY <1>2, <2>1, <3>1 DEF EnabledAdmins
  <2>3. CASE ~\E a \in EnabledAdmins : a # u
    <3>1. EnabledAdmins = {u}
      BY <1>5, <2>3 DEF UpdateUser, AdminRemains
    <3>2. ~(Cardinality(EnabledAdmins) > 1)
      BY <3>1, FS_Singleton
    <3>3. users[u].role = "admin"
      BY <3>1 DEF EnabledAdmins
    <3>4. role = "admin" /\ enabled
      BY <1>5, <3>2, <3>3 DEF UpdateUser
    <3>5. users'[u] = [users[u] EXCEPT !.role = role, !.enabled = enabled]
      BY <2>1 DEF TypeOK
    <3>6. users'[u] \in Account /\ users'[u].role = role /\ users'[u].enabled = enabled
      BY <2>1, <3>5 DEF Account
    <3> QED BY <1>2, <3>4, <3>6, NoneAssumption
  <2> QED BY <2>2, <2>3
<1>6. ASSUME NEW t \in Thread, NEW u \in User, ResetPassword(t, u) PROVE AdminRemains'
  <2>1. PICK a \in EnabledAdmins : TRUE
    BY <1>6 DEF ResetPassword, AdminRemains
  <2>2. a \in User /\ users[a] \in Account /\ users[u] \in Account
    BY <1>6, <2>1 DEF EnabledAdmins, ResetPassword, TypeOK
  <2>3. users'[a] = IF a = u THEN [users[a] EXCEPT !.password = @ + 1] ELSE users[a]
    BY <1>6, <2>2 DEF ResetPassword, TypeOK
  <2>4. /\ users'[a] \in Account
        /\ users'[a].role = users[a].role
        /\ users'[a].enabled = users[a].enabled
    BY <2>2, <2>3 DEF Account
  <2> QED BY <1>2, <2>1, <2>2, <2>4, NoneAssumption DEF EnabledAdmins
<1> QED
  BY <1>1, <1>3, <1>4, <1>5, <1>6
     DEF Next, LoginNext, RequestNext, Login, Authenticate, EndRequest, Logout, Tick, Restart,
         vars

\* Whatever administrators do to each other's accounts at the same time, one that
\* is enabled remains.
THEOREM AdminAlwaysRemains == Spec => []AdminRemains
<1>1. Init => AdminRemains
  BY DEF Init, AdminRemains
<1> QED BY <1>1, TypeCorrect, AdminNext, PTL DEF Spec

-------------------------------------------------------------------------------
(* Sessions *)

\* The inductive invariant of the session table: sessions are authorised, which
\* needs no more; they are distinct because tokens are never reused; and the cap
\* bounds them because they are distinct and finitely many.
SessionTable ==
    /\ TypeOK
    /\ IsFiniteSet(sessions)
    /\ \A s \in sessions : s.token <= issued
    /\ SessionsAuthorised
    /\ SessionsDistinct
    /\ SessionsBounded

\* Steps that open no session keep the table sound if those that stay are still
\* authorised.
LEMMA FewerSessions ==
    ASSUME SessionTable, TypeOK', sessions' \subseteq sessions, issued' = issued,
           SessionsAuthorised'
    PROVE  SessionTable'
<1>1. IsFiniteSet(sessions') /\ Cardinality(sessions') <= Cardinality(sessions)
  BY FS_Subset DEF SessionTable
<1>2. Cardinality(sessions') \in Nat /\ Cardinality(sessions) \in Nat /\ MaxSessions \in Nat
  BY <1>1, FS_CardinalityType, BoundAssumption DEF SessionTable
<1>3. SessionsBounded'
  BY <1>1, <1>2 DEF SessionTable, SessionsBounded
<1>4. SessionsDistinct' /\ \A s \in sessions' : s.token <= issued'
  BY DEF SessionTable, SessionsDistinct
<1> QED BY <1>1, <1>3, <1>4 DEF SessionTable

\* Opening a session for an enabled account keeps the table sound.
LEMMA OneMoreSession ==
    ASSUME SessionTable, TypeOK', NEW rows \in SUBSET sessions, NEW u \in User, NEW account,
           account.password \in Nat, Issue(rows, u, account),
           users'[u] # None, users'[u].enabled, users'[u].password = account.password,
           \A s \in rows : users'[s.user] = users[s.user]
    PROVE  SessionTable'
<1>0. PICK new \in Session : Opens(new, rows, u, account)
  <2> TypeOK
    BY DEF SessionTable
  <2> QED BY IssueEffect
<1>1. /\ new.user = u /\ new.token = issued + 1 /\ new.password = account.password
      /\ \A r \in rows : r.id < new.id
      /\ sessions' = Newest(rows \cup {new}, MaxSessions)
      /\ sessions' \subseteq rows \cup {new}
      /\ issued' = issued + 1
  BY <1>0 DEF Opens
<1>2. IsFiniteSet(rows \cup {new})
  BY FS_Subset, FS_AddElement DEF SessionTable
<1>3. IsFiniteSet(sessions')
  BY <1>1, <1>2, FS_Subset
<1>4. \A s \in rows \cup {new} : s.id \in Nat /\ s.token \in Nat /\ issued \in Nat
  BY DEF SessionTable, TypeOK, Session
<1>5. \A s \in rows : s.token <= issued
  BY DEF SessionTable
<1>6. \A s \in sessions' : s.token <= issued'
  BY <1>1, <1>4, <1>5
<1>7. \A s1, s2 \in rows \cup {new} : s1.id = s2.id \/ s1.token = s2.token => s1 = s2
  <2>1. \A s \in rows : s.id # new.id /\ s.token # new.token
    BY <1>1, <1>4, <1>5
  <2>2. \A s1, s2 \in rows : s1.id = s2.id \/ s1.token = s2.token => s1 = s2
    BY DEF SessionTable, SessionsDistinct
  <2> QED BY <2>1, <2>2
<1>8. SessionsDistinct'
  BY <1>1, <1>7 DEF SessionsDistinct
<1>9. SessionsBounded'
  BY <1>1, <1>2, <1>4, <1>7, BoundAssumption, NewestBounded DEF SessionsBounded
<1>10. SessionsAuthorised'
  BY <1>1 DEF SessionTable, SessionsAuthorised
<1> QED BY <1>3, <1>6, <1>8, <1>9, <1>10 DEF SessionTable

LEMMA SessionTableNext == SessionTable /\ [Next]_vars => SessionTable'
<1> SUFFICES ASSUME SessionTable, [Next]_vars PROVE SessionTable'
  OBVIOUS
<1>1. TypeOK /\ TypeOK' /\ SessionsAuthorised
  BY TypeNext DEF SessionTable
<1>2. ASSUME UNCHANGED <<users, issued>>, sessions' \subseteq sessions PROVE SessionTable'
  <2>1. SessionsAuthorised'
    BY <1>1, <1>2 DEF SessionsAuthorised
  <2> QED BY <1>1, <1>2, <2>1, FewerSessions
<1>3. ASSUME NEW u \in User, Bootstrap(u) PROVE SessionTable'
  <2> DEFINE account == [role |-> "admin", enabled |-> TRUE, password |-> 1]
  <2>1. users'[u] = account /\ Issue(sessions, u, account)
    BY <1>1, <1>3 DEF Bootstrap, TypeOK
  <2>2. account \in Account /\ account.enabled /\ account.password \in Nat
    BY RoleAssumption DEF Account
  <2>3. sessions = {}
    BY <1>1, <1>3 DEF Bootstrap, SessionsAuthorised, TypeOK, Session
  <2> HIDE DEF account
  <2>4. users'[u] # None
    BY <2>1, <2>2, NoneAssumption
  <2> QED BY <1>1, <2>1, <2>2, <2>3, <2>4, OneMoreSession
<1>4. ASSUME NEW u \in User, NEW password, Login(u, password) PROVE SessionTable'
  <2>1. /\ users' = users
        /\ users[u] # None /\ users[u].enabled /\ users[u].password \in Nat
        /\ Issue(Unexpired, u, users[u])
    BY <1>1, <1>4 DEF Login, TypeOK, Account
  <2>2. Unexpired \in SUBSET sessions
    BY DEF Unexpired
  <2> QED BY <1>1, <2>1, <2>2, OneMoreSession
<1>5. ASSUME NEW t \in Thread, NEW u \in User, NEW role \in Role, NEW enabled \in BOOLEAN,
             CreateUser(t, u, role, enabled)
      PROVE  SessionTable'
  <2>1. /\ users[u] = None /\ sessions' = sessions /\ issued' = issued
        /\ users' = [users EXCEPT ![u] = [role |-> role, enabled |-> enabled, password |-> 1]]
    BY <1>5 DEF CreateUser
  <2>2. \A s \in sessions : s.user # u /\ s.user \in User
    BY <1>1, <2>1 DEF SessionsAuthorised, TypeOK, Session
  <2>3. \A s \in sessions : users'[s.user] = users[s.user]
    BY <1>1, <2>1, <2>2 DEF TypeOK
  <2>4. SessionsAuthorised'
    BY <1>1, <2>1, <2>3 DEF SessionsAuthorised
  <2> QED BY <1>1, <2>1, <2>4, FewerSessions
<1>6. ASSUME NEW t \in Thread, NEW u \in User, NEW role \in Role, NEW enabled \in BOOLEAN,
             UpdateUser(t, u, role, enabled)
      PROVE  SessionTable'
  <2>1. /\ users[u] \in Account
        /\ users' = [users EXCEPT ![u] = [users[u] EXCEPT !.role = role, !.enabled = enabled]]
        /\ sessions' = IF enabled THEN sessions ELSE Revoked(u)
        /\ issued' = issued
    BY <1>1, <1>6 DEF UpdateUser, TypeOK
  <2>2. sessions' \subseteq sessions /\ (~enabled => \A s \in sessions' : s.user # u)
    BY <2>1 DEF Revoked
  <2>3. /\ users'[u] \in Account
        /\ users'[u].enabled = enabled
        /\ users'[u].password = users[u].password
    BY <1>1, <2>1 DEF TypeOK, Account
  <2>4. \A v \in User : v # u => users'[v] = users[v]
    BY <1>1, <2>1 DEF TypeOK
  <2>5. ASSUME NEW s \in sessions'
        PROVE  /\ users'[s.user] # None
               /\ users'[s.user].enabled
               /\ s.password = users'[s.user].password
    <3>1. /\ s \in sessions /\ s.user \in User
          /\ users[s.user] # None /\ users[s.user].enabled
          /\ s.password = users[s.user].password
      BY <1>1, <2>2 DEF SessionsAuthorised, TypeOK, Session
    <3>2. CASE s.user = u
      <4>1. enabled
        BY <2>2, <3>2
      <4> QED BY <2>3, <3>1, <3>2, <4>1, NoneAssumption
    <3>3. CASE s.user # u
      BY <2>4, <3>1, <3>3
    <3> QED BY <3>2, <3>3
  <2>6. SessionsAuthorised'
    BY <2>5 DEF SessionsAuthorised
  <2> QED BY <1>1, <2>1, <2>2, <2>6, FewerSessions
<1>7. ASSUME NEW t \in Thread, NEW u \in User, ResetPassword(t, u) PROVE SessionTable'
  <2>1. /\ users' = [users EXCEPT ![u].password = @ + 1]
        /\ sessions' = {s \in sessions : s.user # u}
        /\ issued' = issued
    BY <1>7 DEF ResetPassword, Revoked
  <2>2. \A s \in sessions' : s.user \in User /\ users'[s.user] = users[s.user]
    BY <1>1, <2>1 DEF TypeOK, Session
  <2>3. SessionsAuthorised'
    BY <1>1, <2>1, <2>2 DEF SessionsAuthorised
  <2> QED BY <1>1, <2>1, <2>3, FewerSessions
<1> QED
  BY <1>2, <1>3, <1>4, <1>5, <1>6, <1>7
     DEF Next, LoginNext, RequestNext, Authenticate, Unexpired, EndRequest, Logout, Tick,
         Restart, vars

LEMMA SessionTableAlways == Spec => []SessionTable
<1>1. Init => SessionTable
  <2> SUFFICES ASSUME Init PROVE SessionTable
    OBVIOUS
  <2>1. IsFiniteSet(sessions) /\ Cardinality(sessions) = 0
    BY FS_EmptySet DEF Init
  <2>2. SessionsBounded
    BY <2>1, BoundAssumption DEF SessionsBounded
  <2> QED BY <2>1, <2>2 DEF Init, SessionTable, TypeOK, SessionsAuthorised, SessionsDistinct
<1> QED BY <1>1, SessionTableNext, PTL DEF Spec

\* No session is of a disabled account or older than its account's password.
THEOREM SessionsAlwaysAuthorised == Spec => []SessionsAuthorised
BY SessionTableAlways, PTL DEF SessionTable

\* No two sessions share a number or a token.
THEOREM SessionsAlwaysDistinct == Spec => []SessionsDistinct
BY SessionTableAlways, PTL DEF SessionTable

\* There are never more sessions than MAX_SESSIONS.
THEOREM SessionsAlwaysBounded == Spec => []SessionsBounded
BY SessionTableAlways, PTL DEF SessionTable

-------------------------------------------------------------------------------
(* Numbers of sessions *)

\* The inductive invariant behind LogoutSparesOlder: sessions are numbered in the
\* order of their tokens, and what is older than the session of a request in
\* flight has a lower number, even when that session has ended.
Numbering ==
    /\ \A r, s \in sessions : r.token < s.token => r.id < s.id
    /\ \A t \in Thread : requests[t] # None => requests[t].token <= issued
    /\ \A t \in Thread, s \in sessions :
          requests[t] # None =>
              /\ s.token = requests[t].token => s.id = requests[t].session
              /\ s.token < requests[t].token => s.id < requests[t].session

\* A new session has the highest token and the highest number.
LEMMA NumberingOpened ==
    ASSUME SessionTable, Numbering, NEW rows \in SUBSET sessions, NEW u \in User, NEW account,
           account.password \in Nat, Issue(rows, u, account), UNCHANGED requests
    PROVE  Numbering'
<1>1. PICK new \in Session : Opens(new, rows, u, account)
  <2> TypeOK
    BY DEF SessionTable
  <2> QED BY IssueEffect
<1>2. /\ new.token = issued + 1 /\ new.id \in Nat
      /\ \A r \in rows : r.id < new.id
      /\ sessions' \subseteq rows \cup {new}
      /\ issued' = issued + 1
  BY <1>1 DEF Opens, Session
<1>3. /\ issued \in Nat
      /\ \A s \in rows : s \in sessions /\ s.token \in Nat /\ s.token <= issued /\ s.id \in Nat
  BY DEF SessionTable, TypeOK, Session
<1>4. \A t \in Thread : requests[t] # None => requests[t].token \in Nat
  BY DEF SessionTable, TypeOK, Principal
<1>5. ASSUME NEW r \in sessions', NEW s \in sessions', r.token < s.token PROVE r.id < s.id
  <2>1. CASE r = new
    <3>1. s # new /\ s \in rows
      BY <1>2, <1>3, <1>5, <2>1
    <3> QED BY <1>2, <1>3, <1>5, <2>1, <3>1
  <2>2. CASE r \in rows /\ s = new
    BY <1>2, <2>2
  <2>3. CASE r \in rows /\ s \in rows
    BY <1>3, <1>5, <2>3 DEF Numbering
  <2> QED BY <1>2, <2>1, <2>2, <2>3
<1>6. ASSUME NEW t \in Thread, requests'[t] # None PROVE requests'[t].token <= issued'
  <2>1. requests[t].token <= issued /\ requests[t].token \in Nat
    BY <1>4, <1>6 DEF Numbering
  <2> QED BY <1>2, <1>3, <2>1
<1>7. ASSUME NEW t \in Thread, NEW s \in sessions', requests'[t] # None
      PROVE  /\ s.token = requests'[t].token => s.id = requests'[t].session
             /\ s.token < requests'[t].token => s.id < requests'[t].session
  <2>1. requests[t].token <= issued /\ requests[t].token \in Nat
    BY <1>4, <1>7 DEF Numbering
  <2>2. CASE s = new
    BY <1>2, <1>3, <2>1, <2>2
  <2>3. CASE s \in rows
    BY <1>3, <1>7, <2>3 DEF Numbering
  <2> QED BY <1>2, <2>2, <2>3
<1> QED BY <1>5, <1>6, <1>7 DEF Numbering

LEMMA NumberingNext == SessionTable /\ Numbering /\ [Next]_vars => Numbering'
<1> SUFFICES ASSUME SessionTable, Numbering, [Next]_vars PROVE Numbering'
  OBVIOUS
<1>0. TypeOK
  BY DEF SessionTable
<1>1. ASSUME sessions' \subseteq sessions, issued' = issued,
             \A t \in Thread : requests'[t] \in {requests[t], None}
      PROVE  Numbering'
  BY <1>1 DEF Numbering
<1>2. ASSUME NEW t \in Thread, Answer(t)
      PROVE  \A v \in Thread : requests'[v] \in {requests[v], None}
  BY <1>0, <1>2 DEF Answer, TypeOK
<1>3. ASSUME NEW u \in User, Bootstrap(u) PROVE Numbering'
  <2> DEFINE account == [role |-> "admin", enabled |-> TRUE, password |-> 1]
  <2>1. Issue(sessions, u, account) /\ UNCHANGED requests
    BY <1>3 DEF Bootstrap
  <2>2. account.password \in Nat
    OBVIOUS
  <2> HIDE DEF account
  <2> QED BY <2>1, <2>2, NumberingOpened
<1>4. ASSUME NEW u \in User, NEW password, Login(u, password) PROVE Numbering'
  <2>1. users[u].password \in Nat /\ Unexpired \in SUBSET sessions
    BY <1>0, <1>4 DEF Login, TypeOK, Account, Unexpired
  <2> QED BY <1>4, <2>1, NumberingOpened DEF Login
<1>5. ASSUME NEW t \in Thread, NEW s \in sessions, Authenticate(t, s) PROVE Numbering'
  <2>1. /\ sessions' \subseteq sessions /\ issued' = issued
        /\ requests' = [requests EXCEPT ![t] = [user |-> s.user, role |-> users[s.user].role,
                                                session |-> s.id, token |-> s.token]]
    BY <1>5 DEF Authenticate, Unexpired
  <2>2. requests'[t].session = s.id /\ requests'[t].token = s.token
    BY <1>0, <2>1 DEF TypeOK
  <2>3. \A v \in Thread \ {t} : requests'[v] = requests[v]
    BY <1>0, <2>1 DEF TypeOK
  <2>4. s.token <= issued'
    BY <2>1 DEF SessionTable
  <2>5. \A r \in sessions' : /\ r.token = s.token => r.id = s.id
                             /\ r.token < s.token => r.id < s.id
    BY <2>1 DEF SessionTable, SessionsDistinct, Numbering
  <2> QED BY <2>1, <2>2, <2>3, <2>4, <2>5 DEF Numbering
<1>6. ASSUME Tick \/ Restart \/ UNCHANGED vars PROVE Numbering'
  <2> sessions' = sessions /\ issued' = issued
      /\ \A t \in Thread : requests'[t] \in {requests[t], None}
    BY <1>6 DEF Tick, Restart, vars
  <2> QED BY <1>1
<1>7. ASSUME NEW t \in Thread, NEW u \in User, NEW role \in Role, NEW enabled \in BOOLEAN,
             CreateUser(t, u, role, enabled) \/ UpdateUser(t, u, role, enabled)
      PROVE  Numbering'
  BY <1>1, <1>2, <1>7 DEF CreateUser, UpdateUser, Revoked
<1>8. ASSUME NEW t \in Thread, NEW u \in User, ResetPassword(t, u) PROVE Numbering'
  BY <1>1, <1>2, <1>8 DEF ResetPassword, Revoked
<1>9. ASSUME NEW t \in Thread, EndRequest(t) \/ Logout(t) PROVE Numbering'
  BY <1>1, <1>2, <1>9 DEF EndRequest, Logout
<1> QED BY <1>3, <1>4, <1>5, <1>6, <1>7, <1>8, <1>9 DEF Next, LoginNext, RequestNext

LEMMA NumberingAlways == Spec => []Numbering
<1>1. Init => Numbering
  BY DEF Init, Numbering
<1> QED BY <1>1, SessionTableAlways, NumberingNext, PTL DEF Spec

\* A logout that misses its own session, because that one has ended and its number
\* was given away, hits a later one, never an older one.
THEOREM LogoutAlwaysSparesOlder == Spec => []LogoutSparesOlder
<1>1. SessionTable /\ Numbering => LogoutSparesOlder
  <2> SUFFICES ASSUME SessionTable, Numbering, NEW t \in Thread, NEW s \in sessions,
                      requests[t] # None
               PROVE  /\ s.token = requests[t].token => s.id = requests[t].session
                      /\ s.token < requests[t].token => s.id # requests[t].session
    BY DEF LogoutSparesOlder
  <2>1. s.id \in Nat
    BY DEF SessionTable, TypeOK, Session
  <2> QED BY <2>1 DEF Numbering
<1> QED BY <1>1, SessionTableAlways, NumberingAlways, PTL

-------------------------------------------------------------------------------
(* The end of a session *)

\* A session ends because of its age, its account, its logout or the cap, and the
\* cap takes the oldest.
THEOREM SessionsEndForCause == Spec => SessionEndsForCause
<1> DEFINE Cause(s) == \/ s.expires <= now
                       \/ ~users'[s.user].enabled
                       \/ users'[s.user].password # s.password
                       \/ \E t \in Thread : /\ requests[t] # None
                                            /\ requests'[t] = None
                                            /\ requests[t].session = s.id
                                            /\ users' = users
                       \/ /\ Cardinality(sessions) >= MaxSessions
                          /\ issued' # issued
                          /\ \A r \in sessions' : r.id > s.id
<1>1. ASSUME SessionTable, [Next]_vars, NEW s \in sessions, s \notin sessions' PROVE Cause(s)
  <2>1. /\ TypeOK /\ SessionsAuthorised
        /\ s.user \in User /\ users[s.user] \in Account
        /\ s.password = users[s.user].password
        /\ s.expires \in Nat /\ now \in Nat /\ issued \in Nat
    BY <1>1 DEF SessionTable, SessionsAuthorised, TypeOK, Session
  <2>2. ASSUME s \notin Unexpired PROVE Cause(s)
    BY <2>1, <2>2 DEF Unexpired
  <2>3. ASSUME NEW u \in User, Bootstrap(u) PROVE Cause(s)
    BY <2>1, <2>3, NoneAssumption DEF Bootstrap
  <2>4. ASSUME NEW u \in User, NEW password, Login(u, password) PROVE Cause(s)
    <3>1. CASE s \in Unexpired
      <4>1. /\ users[u].password \in Nat
            /\ Unexpired \in SUBSET sessions
            /\ Issue(Unexpired, u, users[u])
        BY <2>1, <2>4 DEF Login, Unexpired, TypeOK, Account
      <4>0. PICK new \in Session : Opens(new, Unexpired, u, users[u])
        BY <2>1, <4>1, IssueEffect
      <4>2. /\ \A r \in Unexpired : r.id < new.id
            /\ sessions' = Newest(Unexpired \cup {new}, MaxSessions)
            /\ issued' = issued + 1
        BY <4>0 DEF Opens
      <4>3. IsFiniteSet(Unexpired) /\ Cardinality(Unexpired) <= Cardinality(sessions)
        BY <1>1, <4>1, FS_Subset DEF SessionTable
      <4>4. (\A y \in Unexpired : y.id \in Nat) /\ new.id \in Nat
        BY <2>1, <4>1 DEF TypeOK, Session
      <4>5. new \notin Unexpired
        <5> SUFFICES ASSUME new \in Unexpired PROVE FALSE
          OBVIOUS
        <5>1. new.id < new.id
          BY <4>2
        <5> QED BY <4>4, <5>1
      <4>6. /\ Cardinality(Unexpired) >= MaxSessions
            /\ \A r \in Newest(Unexpired \cup {new}, MaxSessions) : r.id > s.id
        BY <1>1, <3>1, <4>2, <4>3, <4>4, <4>5, BoundAssumption, NewestDropsOldest
      <4>7. Cardinality(sessions) \in Nat /\ Cardinality(Unexpired) \in Nat
        BY <1>1, <4>3, FS_CardinalityType DEF SessionTable
      <4>8. Cardinality(sessions) >= MaxSessions
        BY <4>3, <4>6, <4>7, BoundAssumption
      <4>9. issued' # issued
        BY <2>1, <4>2
      <4>10. \A r \in sessions' : r.id > s.id
        BY <4>2, <4>6, Zenon
      <4> QED BY <4>8, <4>9, <4>10, Zenon
    <3> QED BY <2>2, <3>1
  <2>5. ASSUME NEW t \in Thread, Logout(t) PROVE Cause(s)
    <3>1. requests[t] # None /\ requests[t].session = s.id /\ users' = users
      BY <1>1, <2>5 DEF Logout
    <3>2. requests'[t] = None
      BY <2>1, <2>5 DEF Logout, Answer, TypeOK
    <3> QED BY <3>1, <3>2
  <2>6. ASSUME NEW t \in Thread, NEW u \in User, NEW role \in Role, NEW enabled \in BOOLEAN,
               UpdateUser(t, u, role, enabled)
        PROVE  Cause(s)
    <3>1. s.user = u /\ ~enabled
      BY <1>1, <2>6 DEF UpdateUser, Revoked
    <3>2. users'[u] = [users[u] EXCEPT !.role = role, !.enabled = enabled]
      BY <2>1, <2>6 DEF UpdateUser, TypeOK
    <3>3. users'[u].enabled = enabled
      BY <2>1, <3>1, <3>2 DEF Account
    <3> QED BY <3>1, <3>3
  <2>7. ASSUME NEW t \in Thread, NEW u \in User, ResetPassword(t, u) PROVE Cause(s)
    <3>1. s.user = u
      BY <1>1, <2>7 DEF ResetPassword, Revoked
    <3>2. users'[u] = [users[u] EXCEPT !.password = @ + 1]
      BY <2>1, <2>7, <3>1 DEF ResetPassword, TypeOK
    <3>3. users'[u].password = users[u].password + 1 /\ users[u].password \in Nat
      BY <2>1, <3>1, <3>2 DEF Account
    <3> QED BY <2>1, <3>1, <3>3
  <2>8. ASSUME NEW t \in Thread, NEW r \in sessions, Authenticate(t, r) PROVE Cause(s)
    BY <1>1, <2>2, <2>8 DEF Authenticate
  <2>9. sessions' # sessions
    BY <1>1
  <2> HIDE DEF Cause
  <2> QED
    BY <1>1, <2>3, <2>4, <2>5, <2>6, <2>7, <2>8, <2>9
       DEF Next, LoginNext, RequestNext, EndRequest, CreateUser, Tick, Restart, vars
<1>2. SessionTable /\ [Next]_vars => [\A s \in sessions \ sessions' : Cause(s)]_vars
  BY <1>1
<1> QED BY <1>2, SessionTableAlways, PTL DEF Spec, SessionEndsForCause

-------------------------------------------------------------------------------
(* Refinement of Access *)

\* What is known of the table when the service is looked at.
Sound == SessionTable /\ Numbering /\ AdminRemains

LEMMA SoundAlways == Spec => []Sound
BY SessionTableAlways, NumberingAlways, AdminAlwaysRemains, PTL DEF Sound

LEMMA ServiceInit == Init => Service!Init
BY DEF Init, Service!Init, Passwords, Enabled, Open, Unexpired

\* FiniteSets is instantiated with Access.
LEMMA SameCardinality == \A S : Service!Cardinality(S) = Cardinality(S)
BY Zenon DEF Service!Cardinality, Cardinality

\* One token per session that counts.
LEMMA OpenSize ==
    ASSUME SessionTable
    PROVE  /\ IsFiniteSet(Unexpired)
           /\ Cardinality(Open) = Cardinality(Unexpired)
           /\ Cardinality(Unexpired) \in Nat
           /\ Cardinality(Unexpired) <= MaxSessions
<1>1. Unexpired \subseteq sessions /\ IsFiniteSet(sessions)
  BY DEF Unexpired, SessionTable
<1>2. /\ IsFiniteSet(Unexpired) /\ Cardinality(Unexpired) \in Nat
      /\ Cardinality(sessions) \in Nat
      /\ Cardinality(Unexpired) <= Cardinality(sessions)
  BY <1>1, FS_Subset, FS_CardinalityType
<1>3. Cardinality(sessions) <= MaxSessions
  BY DEF SessionTable, SessionsBounded
<1> DEFINE f == [s \in Unexpired |-> Shown(s)]
<1>4. \A r, s \in Unexpired : f[r] = f[s] => r = s
  BY <1>1 DEF Shown, SessionTable, SessionsDistinct
<1>5. f \in Bijection(Unexpired, Open)
  BY <1>4 DEF Bijection, Injection, Surjection, IsInjective, Open
<1>6. Cardinality(Open) = Cardinality(Unexpired)
  BY <1>2, <1>5, FS_Bijection DEF ExistsBijection
<1> QED BY <1>2, <1>3, <1>6, BoundAssumption

\* Steps that the users of the system do not see.
LEMMA ServiceStutters ==
    ASSUME UNCHANGED <<users, issued, now>>, Unexpired' = Unexpired
    PROVE  UNCHANGED Service!avars
BY DEF Service!avars, Passwords, Enabled, Open

\* The session a login opens counts at once, and at the cap it displaces the one
\* with the lowest token.
LEMMA LoginIsLogIn ==
    ASSUME Sound, NEW u \in User, NEW password, Login(u, password)
    PROVE  Service!LogIn(u)
<1>1. /\ TypeOK /\ SessionTable /\ Numbering
      /\ UNCHANGED <<users, requests, now>>
      /\ users[u] # None /\ users[u].enabled /\ users[u].password \in Nat
      /\ Unexpired \in SUBSET sessions
      /\ Issue(Unexpired, u, users[u])
  BY DEF Sound, SessionTable, Login, TypeOK, Account, Unexpired
<1>2. PICK new \in Session : Opens(new, Unexpired, u, users[u])
  BY <1>1, IssueEffect
<1>3. /\ new.user = u /\ new.token = issued + 1 /\ new.expires = now + Lifetime
      /\ \A r \in Unexpired : r.id < new.id
      /\ sessions' = Newest(Unexpired \cup {new}, MaxSessions)
      /\ sessions' \subseteq Unexpired \cup {new}
      /\ issued' = issued + 1
      /\ new.id \in Nat
  BY <1>2 DEF Opens, Session
<1>4. Unexpired' = sessions'
  <2>1. new.expires > now
    BY <1>1, <1>3, BoundAssumption DEF TypeOK
  <2>2. \A s \in sessions' : s.expires > now'
    BY <1>1, <1>3, <2>1 DEF Unexpired
  <2> QED BY <2>2 DEF Unexpired
<1>5. Shown(new) = Service!Opened(u)
  BY <1>3 DEF Shown, Service!Opened
<1>6. /\ \A s \in Unexpired : s.id \in Nat
      /\ \A r, s \in Unexpired : r.id = s.id => r = s
      /\ \A r, s \in Unexpired : r.token < s.token <=> r.id < s.id
  <2>1. /\ \A s \in Unexpired : s.id \in Nat /\ s.token \in Nat
        /\ \A r, s \in Unexpired : r.id = s.id \/ r.token = s.token => r = s
        /\ \A r, s \in Unexpired : r.token < s.token => r.id < s.id
    BY <1>1 DEF TypeOK, Session, SessionTable, SessionsDistinct, Numbering
  <2>2. ASSUME NEW r \in Unexpired, NEW s \in Unexpired, r.id < s.id PROVE r.token < s.token
    <3>1. ~(s.token < r.token) /\ r.token # s.token
      BY <2>1, <2>2
    <3> QED BY <2>1, <3>1
  <2> QED BY <2>1, <2>2
<1>7. Open' = (Open \ Service!Displaced) \cup {Service!Opened(u)}
  <2>1. CASE Cardinality(Unexpired) < MaxSessions
    <3>1. sessions' = Unexpired \cup {new}
      BY <1>1, <1>3, <1>6, <2>1, OpenSize, BoundAssumption, NewestBelowCap
    <3>2. Service!Displaced = {}
      BY <1>1, <2>1, OpenSize, SameCardinality DEF Service!Displaced
    <3>3. Open' = Open \cup {Shown(new)}
      BY <1>4, <3>1 DEF Open, Shown
    <3> QED BY <1>5, <3>2, <3>3
  <2>2. CASE ~(Cardinality(Unexpired) < MaxSessions)
    <3>1. Cardinality(Unexpired) = MaxSessions
      BY <1>1, <2>2, OpenSize, BoundAssumption
    <3>2. sessions' = {x \in Unexpired : \E y \in Unexpired : y.id < x.id} \cup {new}
      BY <1>1, <1>3, <1>6, <3>1, OpenSize, BoundAssumption, NewestAtCap
    <3>3. Service!Displaced = {o \in Open : \A p \in Open : o.token <= p.token}
      BY <1>1, <2>2, OpenSize, SameCardinality DEF Service!Displaced
    <3>4. \A s \in Unexpired : Shown(s) \in Service!Displaced
                                  <=> ~\E y \in Unexpired : y.id < s.id
      <4>1. \A r, s \in Unexpired : Shown(s).token <= Shown(r).token <=> ~(r.id < s.id)
        <5>1. \A s \in Unexpired : s.token \in Nat /\ Shown(s).token = s.token
          BY <1>1 DEF TypeOK, Session, Shown
        <5> QED BY <1>6, <5>1
      <4> QED BY <3>3, <4>1 DEF Open
    <3>5. Open' = {Shown(s) : s \in sessions'}
      BY <1>4 DEF Open, Shown
    <3>6. Open \ Service!Displaced =
            {Shown(s) : s \in {x \in Unexpired : \E y \in Unexpired : y.id < x.id}}
      BY <3>4 DEF Open
    <3>7. Open' = (Open \ Service!Displaced) \cup {Shown(new)}
      BY <3>2, <3>5, <3>6
    <3> QED BY <1>5, <3>7
  <2> QED BY <2>1, <2>2
<1>8. u \in Enabled /\ UNCHANGED <<Passwords, Enabled, now>>
  BY <1>1 DEF Enabled, Passwords
<1> QED BY <1>3, <1>7, <1>8 DEF Service!LogIn

LEMMA BootstrapIsSetUp ==
    ASSUME Sound, NEW u \in User, Bootstrap(u)
    PROVE  Service!SetUp(u)
<1> DEFINE account == [role |-> "admin", enabled |-> TRUE, password |-> 1]
<1>1. /\ TypeOK /\ SessionTable /\ (\A v \in User : users[v] = None)
      /\ users' = [users EXCEPT ![u] = account] /\ UNCHANGED now
      /\ Issue(sessions, u, account)
  BY DEF Sound, SessionTable, Bootstrap
<1>2. account \in Account /\ account.password = 1 /\ account.enabled
  BY RoleAssumption DEF Account
<1> HIDE DEF account
<1>3. sessions = {}
  BY <1>1 DEF SessionTable, SessionsAuthorised, TypeOK, Session
<1>4. PICK new \in Session : Opens(new, {}, u, account)
  BY <1>1, <1>2, <1>3, IssueEffect
<1>5. /\ new.user = u /\ new.token = issued + 1 /\ new.expires = now + Lifetime
      /\ sessions' = Newest({new}, MaxSessions)
      /\ issued' = issued + 1
      /\ new.id \in Nat
  BY <1>4 DEF Opens, Session
<1>6. sessions' = {new}
  <2>1. new \in Newest({new}, MaxSessions)
    BY <1>5, NewestKeepsTop, BoundAssumption
  <2> QED BY <1>5, <2>1, NewestSubset
<1>7. new.expires > now'
  BY <1>1, <1>5, BoundAssumption DEF TypeOK
<1>8. Unexpired' = {new}
  BY <1>6, <1>7 DEF Unexpired
<1>9. Shown(new) = Service!Opened(u)
  BY <1>5 DEF Shown, Service!Opened
<1>10. Open' = {Service!Opened(u)}
  BY <1>8, <1>9 DEF Open, Shown
<1>11. /\ \A v \in User : Passwords[v] = 0
       /\ Passwords' = [Passwords EXCEPT ![u] = 1]
       /\ Enabled' = {u}
  BY <1>1, <1>2, NoneAssumption DEF Passwords, Enabled, TypeOK
<1> QED BY <1>1, <1>5, <1>10, <1>11 DEF Service!SetUp

\* A logout ends the one session that has the number, if that one still counts.
LEMMA LogoutIsLogOut ==
    ASSUME Sound, NEW t \in Thread, Logout(t)
    PROVE  (\E o \in Open : Service!LogOut(o)) \/ UNCHANGED Service!avars
<1>1. /\ SessionsDistinct
      /\ UNCHANGED <<users, issued, now>>
      /\ sessions' = {s \in sessions : s.id # requests[t].session}
  BY DEF Sound, SessionTable, Logout
<1>2. Unexpired' = {s \in Unexpired : s.id # requests[t].session}
  BY <1>1 DEF Unexpired
<1>3. CASE \A s \in Unexpired : s.id # requests[t].session
  BY <1>1, <1>2, <1>3, ServiceStutters
<1>4. CASE \E s \in Unexpired : s.id = requests[t].session
  <2>1. PICK own \in Unexpired : own.id = requests[t].session
    BY <1>4
  <2>2. \A s \in Unexpired : s.id = requests[t].session <=> s = own
    BY <1>1, <2>1 DEF Unexpired, SessionsDistinct
  <2>3. \A s \in Unexpired : Shown(s) = Shown(own) <=> s = own
    BY <1>1 DEF Unexpired, Shown, SessionsDistinct
  <2>4. Open' = Open \ {Shown(own)}
    <3>1. Open' = {Shown(s) : s \in Unexpired'}
      BY DEF Open, Shown
    <3> QED BY <1>2, <2>2, <2>3, <3>1 DEF Open
  <2>5. Shown(own) \in Open
    BY <2>1 DEF Open
  <2>6. UNCHANGED <<Passwords, Enabled, issued, now>>
    BY <1>1 DEF Passwords, Enabled
  <2> QED BY <2>4, <2>5, <2>6 DEF Service!LogOut
<1> QED BY <1>3, <1>4

LEMMA CreateUserIsCreate ==
    ASSUME Sound, NEW t \in Thread, NEW u \in User, NEW role \in Role, NEW enabled \in BOOLEAN,
           CreateUser(t, u, role, enabled)
    PROVE  Service!Create(u)
<1> DEFINE account == [role |-> role, enabled |-> enabled, password |-> 1]
<1>1. /\ TypeOK /\ users[u] = None /\ (\E v \in User : users[v] # None)
      /\ users' = [users EXCEPT ![u] = account]
      /\ UNCHANGED <<sessions, issued, now>>
  BY DEF Sound, SessionTable, CreateUser
<1>2. account \in Account /\ account.password = 1 /\ account.enabled = enabled
  BY DEF Account
<1> HIDE DEF account
<1>3. UNCHANGED Open
  BY <1>1 DEF Open, Unexpired, Shown
<1>4. /\ Passwords[u] = 0
      /\ Passwords' = [Passwords EXCEPT ![u] = 1]
      /\ \E v \in User : Passwords[v] # 0
  BY <1>1, <1>2, NoneAssumption DEF Passwords, TypeOK, Account
<1>5. Enabled' = IF enabled THEN Enabled \cup {u} ELSE Enabled
  BY <1>1, <1>2, NoneAssumption DEF Enabled, TypeOK
<1> QED BY <1>1, <1>3, <1>4, <1>5 DEF Service!Create

\* The sessions an account loses are the ones the service closes.
LEMMA RevokedIsClosed ==
    ASSUME NEW u, sessions' = Revoked(u), UNCHANGED now
    PROVE  Open' = Service!SessionsOfOthers(u)
<1>1. Unexpired' = {s \in Unexpired : s.user # u}
  BY DEF Unexpired, Revoked
<1>2. \A s : Shown(s).user = s.user
  BY DEF Shown
<1>3. Open' = {Shown(s) : s \in Unexpired'}
  BY DEF Open, Shown
<1> QED BY <1>1, <1>2, <1>3 DEF Open, Service!SessionsOfOthers

LEMMA UpdateUserIsSwitch ==
    ASSUME Sound, NEW t \in Thread, NEW u \in User, NEW role \in Role, NEW enabled \in BOOLEAN,
           UpdateUser(t, u, role, enabled)
    PROVE  Service!Enable(u) \/ Service!Disable(u)
<1>1. /\ TypeOK /\ AdminRemains /\ users[u] # None /\ users[u] \in Account
      /\ users' = [users EXCEPT ![u] = [users[u] EXCEPT !.role = role, !.enabled = enabled]]
      /\ sessions' = IF enabled THEN sessions ELSE Revoked(u)
      /\ UNCHANGED <<issued, now>>
  BY DEF Sound, SessionTable, UpdateUser, TypeOK
<1>2. /\ users'[u] # None
      /\ users'[u].enabled = enabled /\ users'[u].role = role
      /\ users'[u].password = users[u].password
      /\ \A v \in User \ {u} : users'[v] = users[v]
  BY <1>1, NoneAssumption DEF TypeOK, Account
<1>3. UNCHANGED Passwords
  <2>1. Passwords[u] = users[u].password /\ Passwords'[u] = users[u].password
    BY <1>1, <1>2 DEF Passwords
  <2>2. \A v \in User \ {u} : Passwords'[v] = Passwords[v]
    BY <1>2 DEF Passwords
  <2> QED BY <2>1, <2>2 DEF Passwords
<1>4. Passwords[u] # 0
  BY <1>1 DEF Passwords, Account
<1>5. CASE enabled
  <2>1. Enabled' = Enabled \cup {u}
    BY <1>2, <1>5 DEF Enabled
  <2>2. UNCHANGED Open
    BY <1>1, <1>5 DEF Open, Unexpired, Shown
  <2> QED BY <1>1, <1>3, <1>4, <2>1, <2>2 DEF Service!Enable
<1>6. CASE ~enabled
  <2>1. Enabled' = Enabled \ {u}
    BY <1>2, <1>6 DEF Enabled
  <2>2. Open' = Service!SessionsOfOthers(u)
    BY <1>1, <1>6, RevokedIsClosed
  <2>3. Enabled \ {u} # {}
    <3>1. AdminRemains'
      <4> [Next]_vars
        BY DEF Next, RequestNext
      <4> QED BY <1>1, AdminNext
    <3>2. EnabledAdmins' # {}
      BY <1>2, <3>1 DEF AdminRemains
    <3>3. Enabled' # {}
      BY <3>2 DEF EnabledAdmins, Enabled
    <3> QED BY <2>1, <3>3
  <2> QED BY <1>1, <1>3, <2>1, <2>2, <2>3 DEF Service!Disable
<1> QED BY <1>5, <1>6

LEMMA ResetIsReset ==
    ASSUME Sound, NEW t \in Thread, NEW u \in User, ResetPassword(t, u)
    PROVE  Service!ResetPassword(u)
<1>1. /\ TypeOK /\ users[u] # None /\ users[u] \in Account
      /\ users' = [users EXCEPT ![u] = [users[u] EXCEPT !.password = @ + 1]]
      /\ sessions' = Revoked(u)
      /\ UNCHANGED <<issued, now>>
  BY DEF Sound, SessionTable, ResetPassword, TypeOK
<1>2. /\ users'[u] # None
      /\ users'[u].enabled = users[u].enabled
      /\ users'[u].password = users[u].password + 1
      /\ \A v \in User \ {u} : users'[v] = users[v]
  BY <1>1, NoneAssumption DEF TypeOK, Account
<1>3. /\ Passwords[u] # 0
      /\ Passwords' = [Passwords EXCEPT ![u] = @ + 1]
  <2>1. Passwords[u] = users[u].password /\ users[u].password # 0
    BY <1>1 DEF Passwords, Account
  <2>2. Passwords'[u] = users[u].password + 1
    BY <1>2 DEF Passwords
  <2>3. \A v \in User \ {u} : Passwords'[v] = Passwords[v]
    BY <1>2 DEF Passwords
  <2> QED BY <2>1, <2>2, <2>3 DEF Passwords
<1>4. UNCHANGED Enabled
  BY <1>1, <1>2 DEF Enabled
<1>5. Open' = Service!SessionsOfOthers(u)
  BY <1>1, RevokedIsClosed
<1> QED BY <1>1, <1>3, <1>4, <1>5 DEF Service!ResetPassword

LEMMA TickIsTick ==
    ASSUME Sound, Tick
    PROVE  Service!Tick
<1>1. TypeOK /\ now' = now + 1 /\ UNCHANGED <<users, sessions, issued>>
  BY DEF Sound, SessionTable, Tick
<1>2. Unexpired' = {s \in Unexpired : s.expires > now'}
  <2> \A s \in sessions : s.expires \in Nat /\ now \in Nat
    BY <1>1 DEF TypeOK, Session
  <2> QED BY <1>1 DEF Unexpired
<1>3. \A s : Shown(s).expires = s.expires
  BY DEF Shown
<1>4. Open' = {Shown(s) : s \in Unexpired'}
  BY DEF Open, Shown
<1>5. Open' = {o \in Open : o.expires > now'}
  BY <1>2, <1>3, <1>4 DEF Open
<1>6. UNCHANGED <<Passwords, Enabled>>
  BY <1>1 DEF Passwords, Enabled
<1> QED BY <1>1, <1>5, <1>6 DEF Service!Tick

LEMMA ServiceNext == Sound /\ [Next]_vars => [Service!Next]_(Service!avars)
<1> SUFFICES ASSUME Sound, [Next]_vars PROVE Service!Next \/ UNCHANGED Service!avars
  OBVIOUS
<1>1. ASSUME NEW u \in User, Bootstrap(u) PROVE Service!Next
  BY <1>1, BootstrapIsSetUp DEF Service!Next
<1>2. ASSUME NEW u \in User, NEW password, Login(u, password) PROVE Service!Next
  BY <1>2, LoginIsLogIn DEF Service!Next
<1>3. ASSUME NEW t \in Thread, NEW s \in sessions, Authenticate(t, s)
      PROVE  UNCHANGED Service!avars
  <2>1. UNCHANGED <<users, issued, now>> /\ sessions' = Unexpired
    BY <1>3 DEF Authenticate
  <2>2. Unexpired' = Unexpired
    BY <2>1 DEF Unexpired
  <2> QED BY <2>1, <2>2, ServiceStutters
<1>4. ASSUME NEW t \in Thread, Logout(t) PROVE Service!Next \/ UNCHANGED Service!avars
  BY <1>4, LogoutIsLogOut DEF Service!Next
<1>5. ASSUME NEW t \in Thread, NEW u \in User, NEW role \in Role, NEW enabled \in BOOLEAN,
             CreateUser(t, u, role, enabled)
      PROVE  Service!Next
  BY <1>5, CreateUserIsCreate DEF Service!Next
<1>6. ASSUME NEW t \in Thread, NEW u \in User, NEW role \in Role, NEW enabled \in BOOLEAN,
             UpdateUser(t, u, role, enabled)
      PROVE  Service!Next
  BY <1>6, UpdateUserIsSwitch DEF Service!Next
<1>7. ASSUME NEW t \in Thread, NEW u \in User, ResetPassword(t, u) PROVE Service!Next
  BY <1>7, ResetIsReset DEF Service!Next
<1>8. ASSUME Tick PROVE Service!Next
  BY <1>8, TickIsTick DEF Service!Next
<1>9. ASSUME UNCHANGED <<users, sessions, issued, now>> PROVE UNCHANGED Service!avars
  <2> Unexpired' = Unexpired
    BY <1>9 DEF Unexpired
  <2> QED BY <1>9, ServiceStutters
<1> QED
  BY <1>1, <1>2, <1>3, <1>4, <1>5, <1>6, <1>7, <1>8, <1>9
     DEF Next, LoginNext, RequestNext, EndRequest, Restart, vars

\* The tables of any number of accounts and sessions, with requests in flight and
\* restarts, are a service as Access describes it.
THEOREM AuthImplementsAccess == Spec => ImplementsAccess
BY ServiceInit, ServiceNext, SoundAlways, PTL DEF Spec, ImplementsAccess, Service!Spec

\* So a good token is one of an account that can log in, and some account can.
THEOREM OnlyActiveAlways == Spec => []Service!OnlyActive
<1>1. Service!Init => Service!OnlyActive
  BY DEF Service!Init, Service!OnlyActive
<1>2. Service!OnlyActive /\ [Service!Next]_(Service!avars) => Service!OnlyActive'
  <2> SUFFICES ASSUME Service!OnlyActive, [Service!Next]_(Service!avars)
               PROVE  Service!OnlyActive'
    OBVIOUS
  <2>1. CASE UNCHANGED Service!avars
    BY <2>1 DEF Service!avars, Service!OnlyActive
  <2>2. ASSUME NEW u \in User, Service!SetUp(u) \/ Service!LogIn(u) PROVE Service!OnlyActive'
    BY <2>2 DEF Service!SetUp, Service!LogIn, Service!Opened, Service!OnlyActive
  <2>3. ASSUME NEW u \in User, Service!Create(u) \/ Service!Enable(u) PROVE Service!OnlyActive'
    BY <2>3 DEF Service!Create, Service!Enable, Service!OnlyActive
  <2>4. ASSUME NEW u \in User, Service!Disable(u) \/ Service!ResetPassword(u)
        PROVE  Service!OnlyActive'
    BY <2>4 DEF Service!Disable, Service!ResetPassword, Service!SessionsOfOthers,
                Service!OnlyActive
  <2>5. ASSUME NEW o \in Open, Service!LogOut(o) PROVE Service!OnlyActive'
    BY <2>5 DEF Service!LogOut, Service!OnlyActive
  <2>6. ASSUME Service!Tick PROVE Service!OnlyActive'
    BY <2>6 DEF Service!Tick, Service!OnlyActive
  <2> QED BY <2>1, <2>2, <2>3, <2>4, <2>5, <2>6 DEF Service!Next
<1> QED BY <1>1, <1>2, ServiceInit, ServiceNext, SoundAlways, PTL DEF Spec

\* And no token that has stopped being good is ever honoured again: reused numbers,
\* enabled accounts and restarts bring none back.
THEOREM TokensStayDead == Spec => Service!DeadStaysDead
<1> DEFINE A == \A n \in 1 .. issued :
                  (\A o \in Open : o.token # n) => \A o \in Open' : o.token # n
<1>1. ASSUME Sound, [Next]_vars PROVE A
  <2>1. issued \in Nat
    BY <1>1 DEF Sound, SessionTable, TypeOK
  <2>2. ASSUME NEW new, new.token = issued + 1, Open' \subseteq Open \cup {new} PROVE A
    BY <2>1, <2>2
  <2>3. ASSUME Open' \subseteq Open PROVE A
    BY <2>3
  <2>4. [Service!Next]_(Service!avars)
    BY <1>1, ServiceNext
  <2>5. ASSUME NEW u \in User, Service!SetUp(u) \/ Service!LogIn(u) PROVE A
    <3>1. Open' \subseteq Open \cup {Service!Opened(u)}
      BY <2>5 DEF Service!SetUp, Service!LogIn
    <3> QED BY <2>2, <3>1 DEF Service!Opened
  <2>6. ASSUME NEW u \in User, Service!Create(u) \/ Service!Enable(u) PROVE A
    BY <2>3, <2>6 DEF Service!Create, Service!Enable
  <2>7. ASSUME NEW u \in User, Service!Disable(u) \/ Service!ResetPassword(u) PROVE A
    BY <2>3, <2>7 DEF Service!Disable, Service!ResetPassword, Service!SessionsOfOthers
  <2>8. ASSUME (\E o \in Open : Service!LogOut(o)) \/ Service!Tick \/ UNCHANGED Service!avars PROVE A
    BY <2>3, <2>8 DEF Service!LogOut, Service!Tick, Service!avars
  <2> HIDE DEF A
  <2> QED BY <2>4, <2>5, <2>6, <2>7, <2>8 DEF Service!Next
<1> QED BY <1>1, SoundAlways, PTL DEF Spec, Service!DeadStaysDead

===============================================================================

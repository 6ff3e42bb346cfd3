--------------------------------- MODULE Auth ---------------------------------
(***************************************************************************)
(* Accounts and sessions, as AuthService (auth.py) keeps them in the store *)
(* and as the HTTP server uses them.                                       *)
(*                                                                         *)
(* A request is authenticated in one transaction and handled in another:   *)
(* handle_api_request (app.py) resolves the bearer token to a principal    *)
(* and dispatches the request with it.  The server runs every request in a *)
(* thread of its own, so between the two any other request may change the  *)
(* accounts and the sessions; `requests` holds the principals in between.  *)
(***************************************************************************)
EXTENDS Naturals, FiniteSets, NumberedRows

CONSTANTS
    User,         \* usernames; accounts are never deleted
    Role,         \* keys of ROLE_LEVELS
    Thread,       \* threads that handle requests
    MaxSessions,  \* MAX_SESSIONS
    Lifetime,     \* SESSION_TTL_SECONDS, in ticks of the clock
    MaxTime,      \* bound: ticks of the clock in one behaviour
    MaxTokens,    \* bound: tokens generated in one behaviour
    MaxPasswords, \* bound: passwords an account has in one behaviour
    None          \* no account, no request in the thread

VARIABLES
    users,        \* username -> account, or None
    sessions,     \* set of session rows
    issued,       \* tokens generated so far; each is different from all others
    requests,     \* thread -> principal of the request it handles, or None
    now           \* the clock

vars == <<users, sessions, issued, requests, now>>

\* Passwords are numbered: each reset has a salt, hence a hash, of its own.
Account == [role : Role, enabled : BOOLEAN, password : Nat \ {0}]

\* `password`, the one the session was opened with, is no column of the table: it
\* is kept to state that no session outlives it.
Session == [id : Nat, user : User, token : Nat, expires : Nat, password : Nat]

\* `token` is the one the request carried, which the Principal does not keep.
Principal == [user : User, role : Role, session : Nat, token : Nat]

ASSUME RoleAssumption == "admin" \in Role

ASSUME BoundAssumption ==
    /\ MaxSessions \in Nat \ {0}
    /\ Lifetime \in Nat \ {0}
    /\ MaxTime \in Nat /\ MaxTokens \in Nat /\ MaxPasswords \in Nat

ASSUME NoneAssumption == None \notin Account /\ None \notin Principal

-------------------------------------------------------------------------------
(* Sessions *)

\* _cleanup_expired_sessions
Unexpired == {s \in sessions : s.expires > now}

\* Mutant: the sessions of every user are dropped.
RevokedAll(u) == {}

\* _revoke_user_sessions
Revoked(u) == {s \in sessions : s.user # u}

\* Mutant: the cap is left out.
IssueUncapped(rows, u, account) ==
    /\ issued < MaxTokens
    /\ issued' = issued + 1
    /\ \E id \in 1 .. MaxTokens :
          /\ IsNextId(id, rows)
          /\ sessions' = rows \cup {[id |-> id, user |-> u, token |-> issued + 1,
                                    expires |-> now + Lifetime, password |-> account.password]}

\* _issue_session: the new session is the newest, the oldest fall out at the cap.
Issue(rows, u, account) ==
    /\ issued < MaxTokens
    /\ issued' = issued + 1
    /\ \E id \in 1 .. MaxTokens :
          /\ IsNextId(id, rows)
          /\ LET session == [id |-> id, user |-> u, token |-> issued + 1,
                             expires |-> now + Lifetime, password |-> account.password]
             IN sessions' = Newest(rows \cup {session}, MaxSessions)

\* The first administrator, accepted only while there is no account at all.
Bootstrap(u) ==
    /\ \A v \in User : users[v] = None
    /\ LET account == [role |-> "admin", enabled |-> TRUE, password |-> 1]
       IN /\ users' = [users EXCEPT ![u] = account]
          /\ Issue(sessions, u, account)
    /\ UNCHANGED <<requests, now>>

\* Mutant: a disabled account may log in.
LoginWhenDisabled(u, password) ==
    /\ users[u] # None
    /\ users[u].password = password
    /\ Issue(Unexpired, u, users[u])
    /\ UNCHANGED <<users, requests, now>>

\* POST /auth/login with some password the account has had.  A login that fails
\* rolls its transaction back.
Login(u, password) ==
    /\ users[u] # None
    /\ users[u].enabled
    /\ users[u].password = password
    /\ Issue(Unexpired, u, users[u])
    /\ UNCHANGED <<users, requests, now>>

-------------------------------------------------------------------------------
(* Requests with a token *)

\* resolve_principal.  Sessions that have expired are dropped on the way, unless
\* the token is refused, which rolls that back too.
Authenticate(t, s) ==
    /\ requests[t] = None
    /\ s \in Unexpired
    /\ users[s.user] # None
    /\ users[s.user].enabled
    /\ sessions' = Unexpired
    /\ requests' = [requests EXCEPT ![t] = [user |-> s.user, role |-> users[s.user].role,
                                            session |-> s.id, token |-> s.token]]
    /\ UNCHANGED <<users, issued, now>>

\* The request is answered; any request but those below changes nothing here, and
\* those may fail.
Answer(t) == requests' = [requests EXCEPT ![t] = None]

EndRequest(t) ==
    /\ requests[t] # None
    /\ Answer(t)
    /\ UNCHANGED <<users, sessions, issued, now>>

Logout(t) ==
    /\ requests[t] # None
    /\ sessions' = {s \in sessions : s.id # requests[t].session}
    /\ Answer(t)
    /\ UNCHANGED <<users, issued, now>>

\* require_permission(principal, "users", "write"): by the role the principal was
\* resolved with.
MayManageUsers(t) == requests[t] # None /\ requests[t].role = "admin"

\* Mutant: the role of the body is not stored.
CreateUserWithoutRole(t, u, role, enabled) ==
    /\ MayManageUsers(t)
    /\ \E v \in User : users[v] # None
    /\ users[u] = None
    /\ users' = [users EXCEPT ![u] = [role |-> None, enabled |-> enabled, password |-> 1]]
    /\ Answer(t)
    /\ UNCHANGED <<sessions, issued, now>>

CreateUser(t, u, role, enabled) ==
    /\ MayManageUsers(t)
    /\ \E v \in User : users[v] # None
    /\ users[u] = None
    /\ users' = [users EXCEPT ![u] = [role |-> role, enabled |-> enabled, password |-> 1]]
    /\ Answer(t)
    /\ UNCHANGED <<sessions, issued, now>>

EnabledAdmins == {u \in User : users[u] # None /\ users[u].enabled /\ users[u].role = "admin"}

\* Mutant: only a change of role is checked against the last administrator.
UpdateUserCheckingRole(t, u, role, enabled) ==
    /\ MayManageUsers(t)
    /\ users[u] # None
    /\ users[u].role = "admin" /\ role # "admin" => Cardinality(EnabledAdmins) > 1
    /\ users' = [users EXCEPT ![u] = [@ EXCEPT !.role = role, !.enabled = enabled]]
    /\ sessions' = IF enabled THEN sessions ELSE Revoked(u)
    /\ Answer(t)
    /\ UNCHANGED <<issued, now>>

\* PATCH /users/{id} that leaves the account with this role and this switch; a
\* field that is not in the body stays as it is.
UpdateUser(t, u, role, enabled) ==
    /\ MayManageUsers(t)
    /\ users[u] # None
    /\ users[u].role = "admin" /\ ~(role = "admin" /\ enabled) => Cardinality(EnabledAdmins) > 1
    /\ users' = [users EXCEPT ![u] = [@ EXCEPT !.role = role, !.enabled = enabled]]
    /\ sessions' = IF enabled THEN sessions ELSE Revoked(u)
    /\ Answer(t)
    /\ UNCHANGED <<issued, now>>

\* Mutant: sessions opened with the old password go on.
ResetPasswordOnly(t, u) ==
    /\ MayManageUsers(t)
    /\ users[u] # None
    /\ users[u].password < MaxPasswords
    /\ users' = [users EXCEPT ![u].password = @ + 1]
    /\ Answer(t)
    /\ UNCHANGED <<sessions, issued, now>>

ResetPassword(t, u) ==
    /\ MayManageUsers(t)
    /\ users[u] # None
    /\ users[u].password < MaxPasswords
    /\ users' = [users EXCEPT ![u].password = @ + 1]
    /\ sessions' = Revoked(u)
    /\ Answer(t)
    /\ UNCHANGED <<issued, now>>

-------------------------------------------------------------------------------

Tick ==
    /\ now < MaxTime
    /\ now' = now + 1
    /\ UNCHANGED <<users, sessions, issued, requests>>

\* The process stops and starts again: what is in the store is kept, requests
\* under way are not.
Restart ==
    /\ requests' = [t \in Thread |-> None]
    /\ UNCHANGED <<users, sessions, issued, now>>

Init ==
    /\ users = [u \in User |-> None]
    /\ sessions = {}
    /\ issued = 0
    /\ requests = [t \in Thread |-> None]
    /\ now = 0

LoginNext ==
    \E u \in User :
        \/ Bootstrap(u)
        \/ \E password \in 1 .. MaxPasswords : Login(u, password)

RequestNext ==
    \E t \in Thread :
        \/ \E s \in sessions : Authenticate(t, s)
        \/ EndRequest(t)
        \/ Logout(t)
        \/ \E u \in User, role \in Role, enabled \in BOOLEAN :
              CreateUser(t, u, role, enabled) \/ UpdateUser(t, u, role, enabled)
        \/ \E u \in User : ResetPassword(t, u)

Next == LoginNext \/ RequestNext \/ Tick \/ Restart

Spec == Init /\ [][Next]_vars

-------------------------------------------------------------------------------
(* Properties *)

TypeOK ==
    /\ users \in [User -> Account \cup {None}]
    /\ sessions \subseteq Session
    /\ issued \in Nat
    /\ requests \in [Thread -> Principal \cup {None}]
    /\ now \in Nat

\* Once the system is initialised someone can always administer it, even when
\* administrators disable or demote each other, and themselves, at the same time.
AdminRemains == (\E u \in User : users[u] # None) => EnabledAdmins # {}

\* "Disabling a user or resetting a password revokes the existing sessions": no
\* session in the table is of a disabled account or older than its password, so
\* that re-enabling an account brings no old session back.
SessionsAuthorised ==
    \A s \in sessions :
        /\ users[s.user] # None
        /\ users[s.user].enabled
        /\ s.password = users[s.user].password

\* A token opens one session, and a session number denotes one.
SessionsDistinct ==
    \A s1, s2 \in sessions : s1.id = s2.id \/ s1.token = s2.token => s1 = s2

\* The table never holds more than its cap.
SessionsBounded == Cardinality(sessions) <= MaxSessions

\* A session ends for a reason only: it has expired; its account is disabled or
\* has another password; a request resolved to its number logs out; or the table
\* is full, and then newer sessions only are kept beside the one just opened.
SessionEndsForCause ==
    [][\A s \in sessions \ sessions' :
          \/ s.expires <= now
          \/ ~users'[s.user].enabled
          \/ users'[s.user].password # s.password
          \/ \E t \in Thread : /\ requests[t] # None
                               /\ requests'[t] = None
                               /\ requests[t].session = s.id
                               /\ users' = users
          \/ /\ Cardinality(sessions) >= MaxSessions
             /\ issued' # issued
             /\ \A r \in sessions' : r.id > s.id]_vars

\* The number a request goes by is that of its own session while that one is open,
\* and never that of an older one, although numbers are reused.  A logout, which
\* goes by number, may so miss its session, but hits at worst a later one.
LogoutSparesOlder ==
    \A t \in Thread, s \in sessions :
        requests[t] # None =>
            /\ s.token = requests[t].token => s.id = requests[t].session
            /\ s.token < requests[t].token => s.id # requests[t].session

\* Logging out ends the session the request came with and no other.  Refuted:
\* the number of an ended session is given to the next one.
LogoutEndsOwnSession ==
    [][\A t \in Thread, s \in sessions \ sessions' :
          requests[t] # None /\ requests'[t] = None /\ users' = users /\ s.expires > now =>
              s.token = requests[t].token]_vars

\* What the users of the system see: accounts that can log in, passwords, and the
\* tokens that are good.
Passwords == [u \in User |-> IF users[u] = None THEN 0 ELSE users[u].password]

Enabled == {u \in User : users[u] # None /\ users[u].enabled}

Shown(s) == [token |-> s.token, user |-> s.user, expires |-> s.expires]

Open == {Shown(s) : s \in Unexpired}

\* This is the service of Access: no token is good longer than its account, its
\* password and its lifetime allow, or shorter, but for a logout and the cap.
Service == INSTANCE Access WITH password <- Passwords, active <- Enabled, open <- Open

ImplementsAccess == Service!Spec

===============================================================================

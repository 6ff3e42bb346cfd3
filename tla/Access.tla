-------------------------------- MODULE Access --------------------------------
(***************************************************************************)
(* What AuthService promises to the users of the system.  A login opens a  *)
(* session with a token of its own.  The token is good until its lifetime  *)
(* is over, somebody logs out, the account is disabled or gets another     *)
(* password, or, at the cap, a login displaces the oldest session.  Some   *)
(* account can always log in.                                              *)
(*                                                                         *)
(* Nothing is seen of the numbers of sessions and their reuse, of rows     *)
(* that have expired but are still in the table, of requests between their *)
(* authentication and their effect, nor of restarts.  This is the abstract *)
(* specification that Auth implements.                                     *)
(***************************************************************************)
EXTENDS Naturals, FiniteSets

CONSTANTS User,         \* usernames
          MaxSessions,  \* sessions open at a time
          Lifetime      \* ticks a session lasts

VARIABLES password,     \* username -> number of its password, 0 without account
          active,       \* accounts that can log in
          open,         \* the sessions whose tokens are good
          issued,       \* tokens handed out; each is different from all others
          now           \* the clock

avars == <<password, active, open, issued, now>>

Init ==
    /\ password = [u \in User |-> 0]
    /\ active = {}
    /\ open = {}
    /\ issued = 0
    /\ now = 0

Opened(u) == [token |-> issued + 1, user |-> u, expires |-> now + Lifetime]

\* The session that gives way to another one.
Displaced ==
    IF Cardinality(open) < MaxSessions THEN {}
    ELSE {o \in open : \A p \in open : o.token <= p.token}

SetUp(u) ==
    /\ \A v \in User : password[v] = 0
    /\ password' = [password EXCEPT ![u] = 1]
    /\ active' = {u}
    /\ open' = {Opened(u)}
    /\ issued' = issued + 1
    /\ UNCHANGED now

LogIn(u) ==
    /\ u \in active
    /\ open' = (open \ Displaced) \cup {Opened(u)}
    /\ issued' = issued + 1
    /\ UNCHANGED <<password, active, now>>

LogOut(o) ==
    /\ open' = open \ {o}
    /\ UNCHANGED <<password, active, issued, now>>

SessionsOfOthers(u) == {o \in open : o.user # u}

Create(u) ==
    /\ \E v \in User : password[v] # 0
    /\ password[u] = 0
    /\ password' = [password EXCEPT ![u] = 1]
    /\ active' \in {active, active \cup {u}}
    /\ UNCHANGED <<open, issued, now>>

Enable(u) ==
    /\ password[u] # 0
    /\ active' = active \cup {u}
    /\ UNCHANGED <<password, open, issued, now>>

Disable(u) ==
    /\ active \ {u} # {}
    /\ active' = active \ {u}
    /\ open' = SessionsOfOthers(u)
    /\ UNCHANGED <<password, issued, now>>

ResetPassword(u) ==
    /\ password[u] # 0
    /\ password' = [password EXCEPT ![u] = @ + 1]
    /\ open' = SessionsOfOthers(u)
    /\ UNCHANGED <<active, issued, now>>

Tick ==
    /\ now' = now + 1
    /\ open' = {o \in open : o.expires > now'}
    /\ UNCHANGED <<password, active, issued>>

Next ==
    \/ \E u \in User :
        SetUp(u) \/ LogIn(u) \/ Create(u) \/ Enable(u) \/ Disable(u) \/ ResetPassword(u)
    \/ \E o \in open : LogOut(o)
    \/ Tick

Spec == Init /\ [][Next]_avars

-------------------------------------------------------------------------------

\* A token is good for an active account only, and once there is an account some
\* account can log in.
OnlyActive ==
    /\ \A o \in open : o.user \in active
    /\ (\E u \in User : password[u] # 0) => active # {}

\* A token that is no longer good never becomes good again, whatever accounts are
\* enabled again and whatever numbers are used again.
DeadStaysDead ==
    [][\A n \in 1 .. issued :
          (\A o \in open : o.token # n) => \A o \in open' : o.token # n]_avars

===============================================================================

------------------------------- MODULE Requests -------------------------------
(***************************************************************************)
(* A request from its arrival to its answer: Handler._handle and           *)
(* HomeInfraApp.handle_api_request (app.py), the permission check and the  *)
(* login throttle (auth.py), and the audit log (audit.py).                 *)
(*                                                                         *)
(* Every request has a thread of its own.  It passes through up to five    *)
(* transactions of the store: it is counted, its principal is looked up,   *)
(* its change is made, the change or the refusal is entered in the audit   *)
(* log, and an error is counted.  Other requests come between any two of   *)
(* them, any of them can fail, and the process can stop between any two.   *)
(* What a request asks for is chosen where the code first looks at it.     *)
(* Sessions and accounts are in Auth, what the changes do in Monitoring.   *)
(***************************************************************************)
EXTENDS Integers, FiniteSets

CONSTANTS
    Thread,       \* threads of ThreadingHTTPServer, bound: requests at a time
    User,
    FirstAdmin,   \* administrator at the start
    NewRole,      \* bound: role of the other accounts at the start
    Given,        \* bound: roles that accounts are given
    Tried,        \* bound: accounts that logins name
    Route,        \* bound: routes that requests take
    Idle,         \* no request
    Limit,        \* FAILED_LOGIN_LIMIT
    Window,       \* FAILED_LOGIN_WINDOW_SECONDS
    Cooldown,     \* FAILED_LOGIN_COOLDOWN_SECONDS
    MaxLogs,      \* MAX_AUDIT_LOGS
    AuditAge,     \* audit_log_days
    MaxRequests,  \* bound: requests in all
    MaxFaults,    \* bound: restarts and failed transactions
    MaxTime       \* bound: the clock

VARIABLES
    role,         \* role of each account
    log,          \* audit_logs
    recorded,     \* audit_events_total
    requests,     \* requests_total
    errors,       \* errors_total
    failures,     \* _failed_login_state[user]["failures"], with the request of each
    until,        \* _failed_login_state[user]["cooldown_until"], 0 for none
    serving,      \* the request each thread works on
    now,          \* utc_now
    faults,       \* restarts and failed transactions so far
    since,        \* history: requests there were when the account's role was set
    written,      \* history: entries ever made in the audit log
    made,         \* history: requests that made their change
    told,         \* history: requests entered in the audit log as a success
    cut,          \* history: requests that a failed transaction or a restart hit
    answered      \* history: requests answered with a result

throttle == <<failures, until>>
audit == <<log, recorded, written>>
accounts == <<role, since>>
counters == <<requests, errors, answered>>
changes == <<made, told>>
vars == <<accounts, audit, counters, throttle, serving, now, faults, changes, cut>>

-------------------------------------------------------------------------------

Role == {"viewer", "auditor", "operator", "admin"}

\* require_permission in dispatch_api, for the routes that call it.
Needs ==
    [users |-> <<"users", "write">>, cleanup |-> <<"settings", "write">>,
     groups |-> <<"groups", "write">>, refresh |-> <<"devices", "refresh">>,
     alerts |-> <<"alerts", "write">>, audit |-> <<"audit", "read">>]

\* Routes of any principal, and routes that change nothing.
Open == {"logout", "devices"}

Reading == {"audit", "devices"}

\* PERMISSION_SETS, as far as Needs tells them apart.
Grants ==
    [viewer |-> {<<"devices", "read">>},
     auditor |-> {<<"devices", "read">>, <<"audit", "read">>, <<"users", "read">>},
     operator |-> {<<"devices", "*">>, <<"groups", "*">>, <<"alerts", "*">>, <<"audit", "read">>},
     admin |-> {<<"*", "*">>}]

\* can_access, without the groups of a resource, which no caller names.
May(r, p) ==
    \/ r = "admin"
    \/ p \in Grants[r]
    \/ <<p[1], "*">> \in Grants[r]
    \/ <<"*", "*">> \in Grants[r]

Allowed(r, route) == route \in Open \/ May(r, Needs[route])

\* A request has its number and its place on the way; while it logs in also the
\* account it names, while it acts also its principal and its route.
Request ==
    [stage : {"entering", "recording", "reporting", "erring"}, n : Nat]
        \cup [stage : {"verifying", "failed", "clearing"}, n : Nat, user : User]
        \cup [stage : {"acting"}, n : Nat, user : User, role : Role, route : Route]

Entry == [id : Nat, at : Nat]

Failure == [at : Nat, n : Nat]

ASSUME RequestsAssumption ==
    /\ IsFiniteSet(Thread)
    /\ FirstAdmin \in User
    /\ NewRole \in Role
    /\ Given \subseteq Role
    /\ Tried \subseteq User
    /\ Route \subseteq DOMAIN Needs \cup Open
    /\ Idle \notin Request
    /\ Limit \in Nat \ {0}
    /\ Window \in Nat
    /\ Cooldown \in Nat
    /\ Cooldown >= Window
    /\ MaxLogs \in Nat \ {0}
    /\ AuditAge \in Nat

-------------------------------------------------------------------------------
(* Threads *)

Busy == {t \in Thread : serving[t] # Idle}

At(t, stage) == serving[t] # Idle /\ serving[t].stage = stage

Goes(t, stage) == serving' = [serving EXCEPT ![t] = [stage |-> stage, n |-> serving[t].n]]

Ends(t) == serving' = [serving EXCEPT ![t] = Idle]

Makes(t) == made' = made \cup {serving[t].n}

(* The audit log *)

NewEntry == [id |-> recorded + 1, at |-> now]

Counted(e) == written' = written \cup {e} /\ recorded' = recorded + 1

\* Mutant: entries are numbered by the rows there are.
RecordByRows ==
    /\ LET e == [NewEntry EXCEPT !.id = Cardinality(log) + 1]
       IN /\ IF Cardinality(log) < MaxLogs
             THEN log' = log \cup {e}
             ELSE \E old \in log : /\ \A f \in log : old.at <= f.at
                                   /\ log' = (log \ {old}) \cup {e}
          /\ Counted(e)

\* Mutant: the newest entry makes room.
RecordOverNewest ==
    /\ IF Cardinality(log) < MaxLogs
       THEN log' = log \cup {NewEntry}
       ELSE \E new \in log : /\ \A f \in log : f.at <= new.at
                             /\ log' = (log \ {new}) \cup {NewEntry}
    /\ Counted(NewEntry)

\* Mutant: the log is not cut.
RecordUncapped ==
    /\ log' = log \cup {NewEntry}
    /\ Counted(NewEntry)

\* Mutant: a full log keeps the request waiting.
RecordWaiting ==
    /\ Cardinality(log) < MaxLogs
    /\ log' = log \cup {NewEntry}
    /\ Counted(NewEntry)

\* AuditService.record, a transaction of its own.  Rows come back from the store in
\* the order of their seconds; of the oldest second any row may come last.
Record ==
    /\ IF Cardinality(log) < MaxLogs
       THEN log' = log \cup {NewEntry}
       ELSE \E old \in log : /\ \A f \in log : old.at <= f.at
                             /\ log' = (log \ {old}) \cup {NewEntry}
    /\ Counted(NewEntry)

(* The login throttle, behind its lock *)

\* _prune_failed_login_state: a key with neither failures nor a cooldown is gone.
Recent(u) == {f \in failures[u] : now - f.at <= Window}

Standing(u) == IF until[u] > now THEN until[u] ELSE 0

Pruned == [u \in User |-> Recent(u)]

Limited(u) == until[u] > now

-------------------------------------------------------------------------------
(* Every request *)

\* mark_request, and the body: one that cannot be read is refused at once, and
\* the audit log is not told.
Arrive(t) ==
    /\ serving[t] = Idle
    /\ requests < MaxRequests
    /\ requests' = requests + 1
    /\ \E stage \in {"entering", "erring"} :
          serving' = [serving EXCEPT ![t] = [stage |-> stage, n |-> requests + 1]]
    /\ UNCHANGED <<accounts, audit, errors, answered, throttle, now, faults, changes, cut>>

\* Mutant: the error is counted where it is reported, too.
ReportCounting(t) ==
    /\ At(t, "reporting")
    /\ Record
    /\ errors' = errors + 1
    /\ Goes(t, "erring")
    /\ UNCHANGED <<accounts, requests, answered, throttle, now, faults, changes, cut>>

\* record_api_error: what dispatch_api refuses is entered in the audit log.
Report(t) ==
    /\ At(t, "reporting")
    /\ Record
    /\ Goes(t, "erring")
    /\ UNCHANGED <<accounts, counters, throttle, now, faults, changes, cut>>

\* mark_error, and the answer: the ApiError's status, or 500 for any other exception.
AnswerError(t) ==
    /\ At(t, "erring")
    /\ errors' = errors + 1
    /\ Ends(t)
    /\ UNCHANGED <<accounts, audit, requests, answered, throttle, now, faults, changes, cut>>

\* The entry for a change, after the change; then the answer.
RecordChange(t) ==
    /\ At(t, "recording")
    /\ Record
    /\ told' = told \cup {serving[t].n}
    /\ answered' = answered + 1
    /\ Ends(t)
    /\ UNCHANGED <<accounts, requests, errors, throttle, now, faults, made, cut>>

-------------------------------------------------------------------------------
(* Requests of a principal *)

\* Mutant: the first administrator's role is taken for granted.
AuthenticateTrusting(t) ==
    /\ At(t, "entering")
    /\ \/ Goes(t, "reporting")
       \/ \E u \in User, route \in Route :
             LET as == IF u = FirstAdmin THEN "admin" ELSE role[u]
             IN IF Allowed(as, route)
                THEN serving' = [serving EXCEPT ![t] =
                        [stage |-> "acting", n |-> serving[t].n, user |-> u, role |-> as,
                         route |-> route]]
                ELSE Goes(t, "reporting")
    /\ UNCHANGED <<accounts, audit, counters, throttle, now, faults, changes, cut>>

\* resolve_request_principal, which may refuse, and the permission check; the role
\* read here counts, whatever becomes of the account.
Authenticate(t) ==
    /\ At(t, "entering")
    /\ \/ Goes(t, "reporting")
       \/ \E u \in User, route \in Route :
             IF Allowed(role[u], route)
             THEN serving' = [serving EXCEPT ![t] =
                     [stage |-> "acting", n |-> serving[t].n, user |-> u, role |-> role[u],
                      route |-> route]]
             ELSE Goes(t, "reporting")
    /\ UNCHANGED <<accounts, audit, counters, throttle, now, faults, changes, cut>>

\* A GET: the answer comes from one snapshot.
Read(t) ==
    /\ At(t, "acting")
    /\ serving[t].route \in Reading
    /\ answered' = answered + 1
    /\ Ends(t)
    /\ UNCHANGED <<accounts, audit, requests, errors, throttle, now, faults, changes, cut>>

\* The service refuses: validation, a row that is not there, a conflict.
Reject(t) ==
    /\ At(t, "acting")
    /\ Goes(t, "reporting")
    /\ UNCHANGED <<accounts, audit, counters, throttle, now, faults, changes, cut>>

\* update_user: some administrator remains.
SetsRole ==
    \E u \in User, r \in Given :
       /\ role' = [role EXCEPT ![u] = r]
       /\ \E v \in User : role'[v] = "admin"
       /\ since' = [since EXCEPT ![u] = requests]

\* cleanup_retention, as far as the audit log goes.
Cleans == log' = {e \in log : now - e.at <= AuditAge}

\* Mutant: the entry is written first.
ActAfterRecord(t) ==
    /\ At(t, "acting")
    /\ serving[t].route \notin Reading
    /\ Record
    /\ told' = told \cup {serving[t].n}
    /\ \/ Goes(t, "reporting") /\ UNCHANGED <<made, counters>>
       \/ Ends(t) /\ Makes(t) /\ answered' = answered + 1 /\ UNCHANGED <<requests, errors>>
    /\ UNCHANGED <<accounts, throttle, now, faults, cut>>

\* The one transaction that makes the change.
Act(t) ==
    /\ At(t, "acting")
    /\ serving[t].route \notin Reading
    /\ IF serving[t].route = "users" THEN SetsRole ELSE UNCHANGED accounts
    /\ IF serving[t].route = "cleanup" THEN Cleans ELSE UNCHANGED log
    /\ Makes(t)
    /\ Goes(t, "recording")
    /\ UNCHANGED <<recorded, written, counters, throttle, now, faults, told, cut>>

-------------------------------------------------------------------------------
(* Logins *)

\* _ensure_login_not_rate_limited.  A password of the wrong form is refused after
\* that, and is no failure.
Admit(t) ==
    /\ At(t, "entering")
    /\ failures' = Pruned
    /\ until' = [u \in User |-> Standing(u)]
    /\ \/ Goes(t, "reporting")
       \/ \E u \in Tried :
             /\ ~Limited(u)
             /\ serving' = [serving EXCEPT ![t] =
                   [stage |-> "verifying", n |-> serving[t].n, user |-> u]]
    /\ UNCHANGED <<accounts, audit, counters, now, faults, changes, cut>>

\* _login_mutate; the throttle's lock is not held.
Verify(t) ==
    /\ At(t, "verifying")
    /\ \/ /\ serving' = [serving EXCEPT ![t].stage = "failed"]
          /\ UNCHANGED made
       \/ /\ serving' = [serving EXCEPT ![t].stage = "clearing"]
          /\ Makes(t)
    /\ UNCHANGED <<accounts, audit, counters, throttle, now, faults, told, cut>>

\* Mutant: one failure too many.
RecordFailedLate(t) ==
    /\ At(t, "failed")
    /\ LET u == serving[t].user
           recent == Recent(u) \cup {[at |-> now, n |-> serving[t].n]}
       IN /\ failures' = [Pruned EXCEPT ![u] = recent]
          /\ until' = [v \in User |-> IF v = u /\ Cardinality(recent) > Limit
                                      THEN now + Cooldown ELSE Standing(v)]
    /\ Goes(t, "reporting")
    /\ UNCHANGED <<accounts, audit, counters, now, faults, changes, cut>>

\* _record_failed_login
RecordFailed(t) ==
    /\ At(t, "failed")
    /\ LET u == serving[t].user
           recent == Recent(u) \cup {[at |-> now, n |-> serving[t].n]}
       IN /\ failures' = [Pruned EXCEPT ![u] = recent]
          /\ until' = [v \in User |-> IF v = u /\ Cardinality(recent) >= Limit
                                      THEN now + Cooldown ELSE Standing(v)]
    /\ Goes(t, "reporting")
    /\ UNCHANGED <<accounts, audit, counters, now, faults, changes, cut>>

\* _clear_failed_login
ClearFailed(t) ==
    /\ At(t, "clearing")
    /\ failures' = [failures EXCEPT ![serving[t].user] = {}]
    /\ until' = [until EXCEPT ![serving[t].user] = 0]
    /\ Goes(t, "recording")
    /\ UNCHANGED <<accounts, audit, counters, now, faults, changes, cut>>

-------------------------------------------------------------------------------
(* Faults and time *)

\* A transaction fails for a reason of the database's: it is rolled back, and the
\* exception is answered with 500, unless it is the error that could not be counted.
StoreFails(t) ==
    /\ faults < MaxFaults
    /\ faults' = faults + 1
    /\ \/ /\ \E stage \in {"entering", "verifying", "acting", "recording", "reporting"} :
                At(t, stage)
          /\ Goes(t, "erring")
       \/ /\ At(t, "erring")
          /\ Ends(t)
    /\ cut' = cut \cup {serving[t].n}
    /\ UNCHANGED <<accounts, audit, counters, throttle, now, changes>>

\* The process stops and starts again: threads and the throttle are in its memory.
Restart ==
    /\ faults < MaxFaults
    /\ faults' = faults + 1
    /\ cut' = cut \cup {serving[t].n : t \in Busy}
    /\ serving' = [t \in Thread |-> Idle]
    /\ failures' = [u \in User |-> {}]
    /\ until' = [u \in User |-> 0]
    /\ UNCHANGED <<accounts, audit, counters, now, changes>>

Tick ==
    /\ now < MaxTime
    /\ now' = now + 1
    /\ UNCHANGED <<accounts, audit, counters, throttle, serving, faults, changes, cut>>

-------------------------------------------------------------------------------

Init ==
    /\ role = [u \in User |-> IF u = FirstAdmin THEN "admin" ELSE NewRole]
    /\ since = [u \in User |-> 0]
    /\ log = {}
    /\ recorded = 0
    /\ written = {}
    /\ requests = 0
    /\ errors = 0
    /\ answered = 0
    /\ failures = [u \in User |-> {}]
    /\ until = [u \in User |-> 0]
    /\ serving = [t \in Thread |-> Idle]
    /\ now = 0
    /\ faults = 0
    /\ made = {}
    /\ told = {}
    /\ cut = {}

LoginStep(t) == Admit(t) \/ Verify(t) \/ RecordFailed(t) \/ ClearFailed(t)

PrincipalStep(t) == Authenticate(t) \/ Read(t) \/ Reject(t) \/ Act(t)

EndStep(t) == Report(t) \/ AnswerError(t) \/ RecordChange(t)

\* What a thread does with its request.
Step(t) == LoginStep(t) \/ PrincipalStep(t) \/ EndStep(t)

Next ==
    \/ \E t \in Thread : Arrive(t) \/ Step(t) \/ StoreFails(t)
    \/ Restart
    \/ Tick

\* A thread that has a request goes on with it; clients and faults need not come.
Fair(t) == WF_vars(Step(t))

Fairness == \A t \in Thread : Fair(t)

Spec == Init /\ [][Next]_vars /\ Fairness

-------------------------------------------------------------------------------

\* Every part of the state keeps its type, the log keeps within MAX_AUDIT_LOGS, and
\* no request has a number that was not handed out.
TypeOK ==
    /\ role \in [User -> Role]
    /\ since \in [User -> 0..requests]
    /\ log \subseteq written
    /\ written \subseteq Entry
    /\ IsFiniteSet(written)
    /\ Cardinality(log) <= MaxLogs
    /\ recorded \in Nat
    /\ requests \in Nat
    /\ errors \in Nat
    /\ answered \in Nat
    /\ failures \in [User -> SUBSET Failure]
    /\ \A u \in User : \A f \in failures[u] : f.at <= now /\ f.n \in 1..requests
    /\ until \in [User -> Nat]
    /\ serving \in [Thread -> Request \cup {Idle}]
    /\ \A t \in Busy : serving[t].n \in 1..requests
    /\ now \in Nat
    /\ faults \in Nat
    /\ made \subseteq 1..requests
    /\ told \subseteq 1..requests
    /\ cut \subseteq 1..requests

\* Every change is in the audit log, or on its way there, or a failed transaction or
\* a restart has come between the change and its entry (audit.py:45); and the log
\* reports no success of a request that changed nothing.
ChangesTraced ==
    /\ told \subseteq made
    /\ made \subseteq told \cup cut
                  \cup {serving[t].n : t \in {s \in Thread : At(s, "clearing") \/ At(s, "recording")}}

\* Every request is in hand, answered, or counted as an error, and in one way only;
\* a request that is none of these was hit by a failed transaction or a restart.
RequestsAccounted ==
    LET ended == answered + errors + Cardinality(Busy)
    IN ended <= requests /\ requests - ended <= Cardinality(cut)

\* The roles meant for each kind of change, as in the matrix of PERMISSIONS.md but for
\* groups: the matrix leaves them to administrators, PERMISSION_SETS to operators too.
Matrix(route) ==
    IF route \in {"users", "cleanup"} THEN {"admin"}
    ELSE IF route \in {"groups", "refresh", "alerts"} THEN {"operator", "admin"}
    ELSE Role

\* A principal acts under a role that is meant for the change, and that its account
\* still has, unless the account's role was set after the request arrived (app.py:229).
ChangesPermitted ==
    \A t \in Thread :
       At(t, "acting") =>
          LET q == serving[t]
          IN /\ q.route \notin Reading => q.role \in Matrix(q.route)
             /\ q.role = role[q.user] \/ q.n <= since[q.user]

\* Numbers of audit entries are never reused, by whatever order of requests, cuts,
\* cleanups and restarts, and follow the clock.
AuditIdsDistinct ==
    /\ Cardinality(written) = recorded
    /\ \A e, f \in written : (e.id = f.id => e = f) /\ (e.id < f.id => e.at <= f.at)

\* An entry that is no longer in the log is older than audit_log_days, or MaxLogs
\* entries as recent have been made since or with it.
LossExplained ==
    \A e \in written \ log :
       \/ now - e.at > AuditAge
       \/ Cardinality({f \in written \ {e} : f.at >= e.at}) >= MaxLogs

\* The throttle is read before and written after the password check (auth.py:96).
\* Even so the failures of an account within the window stay below the limit, but
\* for those of the other requests that were admitted before the last of them.
ThrottleBounds ==
    \A u \in User :
       Cardinality({f \in failures[u] : now - f.at < Window}) <= Limit + Cardinality(Thread) - 1

\* Whatever fails, no request keeps its thread for ever.
EveryRequestEnds ==
    \A t \in Thread : (serving[t] # Idle) ~> (serving[t] = Idle)

===============================================================================

# HomeInfra Control Center: a TLA+ model

HomeInfra is a small monitoring server for a home network: it keeps an inventory of devices in
SQLite, collects metrics from them over SSH, raises alerts, and serves all of it over HTTP to
authenticated users. This directory holds TLA+ modules of its core, configurations to check them
with TLC, and proofs checked by TLAPS.

    tlc -workers 2 -config collections.cfg MonitoringMC     # check one run
    tlapm Monitoring_proofs.tla                             # check the proofs of a module

## The system

| Component | State | Operations | Shared with |
|---|---|---|---|
| `monitoring.py` MonitoringService | tables `device_groups`, `devices`, `collection_records`, `alerts` | create / change / delete groups and devices, test, refresh and scheduled collection, resolve an alert | store, collector service |
| `operations.py` HomeInfraService | `retention_settings`, `collection_settings` | retention cleanup, settings | store |
| `auth.py` AuthService | tables `users`, `sessions`; failed logins in memory | bootstrap, login, logout, token resolution, user management, throttle | store, HTTP server |
| `persistence.py` SQLiteStore | the database file | opening with schema, import and seeding, `snapshot`, `update` (one serialised transaction) | everybody, and other stores on the file |
| `scheduler.py` CollectionScheduler | one thread, `_stop` event | sleep, collect the devices that are due | monitoring |
| `app.py` HomeInfraApp and server | a thread per request, request counters | authenticate, dispatch, count, audit | all services |
| `collector_service.py`, `collectors.py` | none between calls | run probes in phases, retry, classify errors | SSH |
| `audit.py` AuditService | table `audit_logs` | record, list | store |
| `parsers.py`, `risk.py`, `alerts.py`, `metrics.py`, `contracts.py`, `errors.py` | none | pure functions and views | |
| `mock_data.py` | MockStore, seed data | as SQLiteStore, without transactions | tests |
| `static/app.js` | browser state | a client of the API | HTTP |

Components meet in the store. `SQLiteStore.update` holds one lock, reads every table, lets a
callback change that copy, writes everything back and rolls back on any exception; so each
handler is atomic. What is hard lies between transactions:

* a collection reads its device, spends seconds on SSH without the lock, and applies the result
  to whatever the tables hold by then;
* a request is authenticated in one transaction and handled in another;
* the scheduler works through an old snapshot with a single thread, while requests run;
* ids are "highest plus one" and are used again after a deletion;
* `INSERT OR REPLACE` together with foreign keys decides what an id in the
  body of a PATCH does;
* a request is counted, authenticated, carried out, audited and, when it fails, counted as an
  error in separate transactions, any of which may fail;
* a collection opens a connection at up to fifteen places, each with retries of its own, and goes
  on without the answers of most of them;
* an update empties and refills every table in fourteen statements, an opening has a dozen more and
  may import an earlier format; a second store may be open on the same file;
* the process may stop anywhere.

What makes each component correct: no deletion of a group or device is refused for what refers to it;
a collection undoes nothing that was edited meanwhile; alerts say what the last collection said; nothing but the cap or a deletion takes
the evidence of an active alert; an administrator always remains; sessions end exactly for a
reason; the scheduler neither hurries nor starves a device; a collection's verdict is what the
host answered, and it comes after a bounded number of connections; a change leaves an audit
entry unless a fault comes between; the audit log loses only what its age or its cap explains;
the login throttle holds although it is not locked around the password check; an update is whole or
nothing, and an opening ends with a complete database whatever it found. The hazards behind these are listed,
each at its line, in `PROJECT.json`.

## Modules

| Module | Models |
|---|---|
| `NumberedRows` | the id rule `_next_numbered_id` and the caps `[:n]` of the tables |
| `Monitoring` | groups, devices, records, alerts, collections in flight, cleanup, restart |
| `AlertBoard` | abstract: what the alert table promises to a reader |
| `Auth` | accounts, sessions, requests in flight |
| `Access` | abstract: accounts and tokens as the users of the system see them |
| `Scheduler` | the collection thread, time, and the requests that disturb it |
| `Session` | abstract: a collection as its caller sees it, one call and four results |
| `Collector` | one collection: probes, phases, connections, error buckets, verdict |
| `AtomicStore` | abstract: what services rely on when they call `update` |
| `StoreRows` | rows, foreign keys and changes, as far as a transaction tells them apart |
| `Store` | opening, import and update of the database, statement by statement |
| `Requests` | the way of a request: permissions, login throttle, audit log, counters, faults |
| `MonitoringMC`, `SchedulerMC`, `CollectorMC`, `StoreMC` | request bodies, `last_seen` values, machines, files for TLC |
| `*_proofs` | theorems about the module they are named after |
| `Measures` | what it means that a number counts down to a goal, for the liveness theorems |

`Monitoring` and `Auth` extend `NumberedRows`; `Monitoring` instantiates `AlertBoard`, `Auth`
instantiates `Access`, `Collector` instantiates `Session`, `Store` instantiates `AtomicStore`; the
last two extend `StoreRows`. What
`AtomicStore` promises is what makes a handler one action elsewhere; what `Session` promises is what
`Monitoring` and `Scheduler` assume of a collection: the one applies one of its results (`Outcome`),
the other waits until it ends.

### Monitoring

A handler is an action named after it, and its end is `Commit`, which is `SQLiteStore.update`:
the next tables are written only if the foreign keys of the schema hold, otherwise nothing
changes and the caller gets an error (the action is not enabled). What a handler is about to write
is an operator of its own, a record of the tables (`GroupDeleted`, `DeviceDeleted`,
`CollectionApplied`, `AlertResolved`, `Cleaned`), so that `RequestsAccepted` can say of each that the
foreign keys let it pass. `StartCollection` and
`FinishCollection` are the two transactions of `_collect`; `flights` holds what the first one
read. `FinishCollection` contains all of `_apply_collection_success` or `_failure`: the record
and its cap, the device row, and `_reconcile_alerts`. `LoseCollection` is a result that arrives
for a deleted device, or any exception that is no `CollectorError`.

Kept: status, verification, connection and group of a device, ids, the codes a record calls for,
the group and record of an alert. Left out: names, tags, metric values, messages, timestamps
(record ids grow with `collected_at`). Resolved alerts matter only because their foreign key ties
the device's id, so of them only the set `closed` of their devices is kept.

### Auth

`users` and `sessions` are the tables. `Authenticate` is `resolve_principal`; the principal stays
in `requests` until an action handles the request, `EndRequest` being every request that changes
nothing here. Each session also remembers the password it was opened with, and each request its
token; no code reads these two, they serve to state properties.

What users see of this is `Access`: an account has a password (`Passwords`) and can log in or not
(`Enabled`), a token is good or not (`Open`, the sessions that have not expired). Numbers of
sessions, expired rows that nobody has cleaned up yet, requests between their two transactions and
restarts do not show. `ImplementsAccess` says that the tables are that service.

### Scheduler

`Wake` is the snapshot with the choice of the due devices, `Begin` / `Skip` / `Finish` one
iteration of the loop, `EndPass` the return to `_stop.wait`. Time is counted in ticks; the age of
`last_seen` saturates at the interval. A `last_seen` may be absent, an age, in the future, or a
time without UTC offset, which `_parse_last_seen` accepts and the subtraction after it does not.
`last` is a history variable. One interval serves all devices, and names give no order: the
devices behind an unreadable one are any set. With the collector switched off globally no device
is ever due; the module is about the other modes. `Monitoring` and `Scheduler` both contain the
requests on devices, each with the part of the row it is about.

### Collector

`site` is the call of `execute_commands` under way, in the order of the code; `Batch` is what is
sent there, and each action is a call together with what `collect` does with the answers and
where it goes next. `ConnectFails` is a retry, `PassedOver` an exhausted call whose error the code
swallows, `Abort` one whose error it lets through. The host is chosen at the start: its tools, its
filesystems, its drives, and answers of its own (`odd`) that differ from what the tools suggest.
An answer is whether the probe's parser finds something in the output, and the class of the error
`ErrorBuckets.classify` puts it in. Buckets are sets; the payload's values are left out. A
collection is assumed not to be stopped by an exception of a parser or of a call that is no
`CollectorError`; `Monitoring` has that case (`LoseCollection`).

### Requests

Each thread of the server works on at most one request, and each transaction of a request is an
action: `Arrive` (`mark_request`), `Authenticate`, `Act`, `RecordChange` (the audit entry after the
change), `Report` and `AnswerError` (`record_api_error`, `mark_error`); `Admit`, `Verify`,
`RecordFailed` and `ClearFailed` are `AuthService.login` and its throttle. `StoreFails` rolls one
transaction back, `Restart` ends every thread and the throttle. What a request is about is chosen
where the code first looks at it. Of the changes only those that matter here have an effect: the
role of an account, and the cleanup of the log. `since`, `written`, `made`, `told`, `cut` and
`answered` are history variables. Left out: a `mark_request` that fails, and a client that is gone
when its answer is written; `audit_log_days` is a constant.

### Store

`file` is the committed database, `work[i]` what the open transaction of store `i` sees, `pc` and
`pos` the statement it is at. Each action is one statement, but that the statements of one table
(all its INSERTs), of the configuration and of the seeding count as one. The opening goes from
`CreateTable` to `CommitStart` (`_initialize`), the update from `Ask` to `CommitUpdate`; `Start` is
the constructor. Python's driver opens a transaction at the first INSERT, UPDATE or DELETE, so changes
of the schema commit by themselves before (`WriteSchema`) and belong to the transaction after.
`Refuse` is a statement that foreign keys refuse, `TimeOut` a wait for the other store that takes
longer than `timeout`, `Fail` any other exception, `Crash` the end of the process. Whether a
statement is refused is computed statement by statement, as foreign keys that are not deferred are
checked.

A row is its id, its parent, and whether a device carries a password or an inline key that its kind
of authentication does not use, which is all that opening and rewriting look at. A file is new, of an
earlier version (a column or keys of the configuration are missing), or in the Phase 1 format, with
tables that are missing or do not parse, before or after a first attempt to import it. The import is
assumed to have the file to itself (second condition of `Start`): two processes that both import are
nowhere provided for. The uniqueness of user names, which `AuthService` sees to, and the cut of rows beyond
5000 on reading are left out.

## Runs

| Run | Question | Bounds |
|---|---|---|
| `collections` | alerts, records and devices under late results, deletion, cleanup, id reuse | 2 devices, 1 collection in flight, 3 record ids, cap 2 |
| `concurrent` | two collections of one device and edits between; refinement of `AlertBoard` | 1 device, 2 in flight, 2 connections, 2 thresholds |
| `groups` | renames, moves and deletions of groups and devices; nobody is refused for good, no device is lost | 3 groups, 2 names, 2 devices, 1 record |
| `default_group` | is the default group always there? refuted | as `groups` |
| `sessions` | accounts and sessions with requests in flight; refinement of `Access` | 2 accounts, 2 requests, cap 2, lifetime 2, 3 tokens, 2 passwords |
| `logout` | does a logout end its own session? refuted | as `sessions` |
| `scheduler` | spacing of successful collections; passes end; every selected device is collected again and again | 2 devices, interval 2, tick 1, bodies with no or a naive `last_seen` |
| `interval` | spacing of all collections: refuted | as `scheduler`, every `last_seen` in bodies |
| `unreadable` | no starvation beside an unreadable device: refuted | 2 devices, interval 1, tick 0 |
| `collector` | verdict, buckets, connections and refinement of `Session` | 4 kinds of machine, 1 odd probe beside an old system, 1 retry, 1 lost call |
| `store` | opening, import, updates, with stops and failures at every statement | 2 stores, 10 files, 6 changes, 7 rows |
| `requests` | audit log, counters, permissions and throttle under interleaving and faults | 2 threads, 2 accounts, 3 requests, 1 fault, log of 2, clock 0..1 |

Why the bounds suffice. Three record ids against a cap of two let the cap drop a row, and cleanup
free an id that is then handed out again. Two collections in flight are the least that can end in
either order. Three groups make a rename to a free id, to a taken id, and of the default group
differ. Two accounts are the least with which "the last administrator" can be missed by two
requests at once; three tokens for two session rows reach the cap and reuse a number. Two devices
let one be slow, gone or unreadable while the other waits. `MaxRecordId`, `MaxTokens`,
`MaxPasswords` and `MaxTime` bound what a behaviour can use up; they stand in guards, and the
theorems hold for all their values. No symmetry is used.

In `collector` each machine has one probe out of order, at one place of each kind the code treats
alike, and an old system has three commands that fail before their second form is asked; with one
more lost call this is an error, a fallback and a loss in one collection. In `requests` three
requests are the least with which the audit log of two entries overflows while another request is
between its change and its entry; limit, window and cooldown of one tick let an account be locked,
wait and try again. In `store` there is one row for each end of each foreign key, a device listed
twice, changes that drop a parent but not its children, and changes of which one puts the parents
that another one refers to; two stores are the least of which one reads what the other replaces.
Deadlock is not checked in `collector`, where the collection ends, nor in `requests`, where requests, faults and the clock are bounded.

### Fairness

Four modules state fairness. In `Scheduler`, time passes (`WF Tick`). The thread keeps running and a
collection ends (`WF Collect`): SSH calls have timeouts, retries are bounded, and the loop catches
what they raise. A snapshot may fail, but not every one from some time on (`SF Wake`). No request
is fair. `EveryDeviceCollected` is checked with `last_seen` values in request bodies that are
absent or without offset (rows with every value are there from the start); bodies that write the
current time over and over would legitimately postpone a device. `ScheduledSpacing` is proved for all
values.

In `Collector` the one thread always gets to its next step (`WF Next`): connecting and reading have
timeouts, and a command that closed its output is taken to exit, since `recv_exit_status` has none.
In `Requests` each thread that has a request goes on with it (`WF Step(t)`): threads of
`ThreadingHTTPServer` are independent, and every transaction ends by commit or rollback. Clients,
faults and the clock are not fair; `EveryRequestEnds` holds without them.

In `Store` each store that is opening or updating gets to the end of its next statement
(`WF Step(i)`), by executing it, by being refused, or after the timeout; nothing is assumed about who
gets the right to write, so a store that never does must raise.

### What the refuted properties say

* `UngroupedExists`: PATCH gives the default group a new id, and until the next start
  creations without a group and deletions of groups fail.
* `LogoutEndsOwnSession`: session numbers are reused and a logout goes by number. What remains true
  is `LogoutSparesOlder`: the session it hits instead is a later one.
* `IntervalRespected`: a failed collection leaves `last_seen` alone, so an offline device is tried
  at each tick, not at its interval.
* `OneFailureDoesNotStopTheRest`: the comparison of times stands outside the `try` block.

## Proofs

All theorems hold for every value of the constants under the named assumptions of the modules:
`None` is no row, the default group is a group, caps and the lifetime of sessions are positive, threshold codes differ from
the two availability codes, files are consistent, data to be imported have distinct ids, and `Running` is no result.

* `NumberedRows_proofs`: the cap keeps at most n rows, and drops only rows older than all it keeps;
  below the cap it drops none, at the cap exactly the oldest; and a next number always exists.
* `Monitoring_proofs`. `RequestsAlwaysAccepted` says that what each handler is about to write
  satisfies the foreign keys again, row by row, and that `NextIdExists` gives a new record its number.
  That they hold before the handler is only a lemma (`ReferencesAlwaysResolve`), since `Commit` checks
  them and nothing else writes these tables but `Restart`, which adds a group. The central
  theorem is `AlertsAlwaysExplained`. `ActiveAlertsExplained` is inductive together with `TypeOK`
  and finiteness of `records`, which the lemmas about the cap need: a new record is
  the newest of its device, and its alerts replace the earlier ones; the cap drops the oldest
  records, so when it drops the record an alert refers to, the device has no other; cleanup keeps
  exactly the records that alerts refer to, besides a suffix of the history.
  The action properties follow from the actions and the types; `EditsAlwaysOutlive` rests on
  `CollectionApplied` being given the row of the device at that moment. `MonitoringImplementsBoard` maps
  `open` to the active codes per device; collections and deletions are `Report`, a resolution is
  `Resolve`, everything else stutters. `OneVerdictAlways` carries the abstract invariant over.
* `Auth_proofs`: `SessionTable` joins the three session invariants, because uniqueness is needed
  to bound the table, and the bound of tokens by `issued` to keep them unique. `AdminRemains` is
  inductive by itself, given the types: the check of the last administrator is inside the
  transaction, so a stale principal does no harm to it. `LogoutSparesOlder` needs `Numbering`:
  among the sessions of the table number and token grow together, and every session with an older
  token than a request has a lower number than the one the request holds, even when the request's
  own session has ended and its number was given away.
  `AuthImplementsAccess` maps each transaction: `Login` is `LogIn`, where the cap at first takes no
  row because some have expired, or takes the oldest, which `Numbering` makes the one with the oldest
  token; `Authenticate` and `Restart` stutter, `Logout` is `LogOut` of whichever session has the
  number, or stutters. `OnlyActiveAlways` and `TokensStayDead` then need only the actions of `Access`.
* `Scheduler_proofs`: `ScheduledSpacing` needs `Inv`: after a success, `last_seen` is at least as
  recent as that success, a device still to be visited in the pass has waited for its interval,
  and the device being collected has had its turn. Every request that replaces `last_seen` starts
  a new history. `NoDeviceStarves` is `EveryDeviceCollected` (see Liveness).
* `Collector_proofs`: `EffortBounded` counts for each place the calls that can come before it.
  `VerdictFollowsAnswers` needs an invariant on the way: the blocking buckets hold just the probes
  refused or failed among the answers received so far; df counts only once its three forms have
  stayed silent (`DfPending`), by the first error, which waits in `dfAnswer`.
  `ShownToolsApply` needs `Shown`: before the capabilities are known only baseline names are missing,
  afterwards every missing name of a shown tool was said absent by the host, or is one of btrfs's
  once its filesystems are known.
  `CollectionIsSession` is the safety part of `ImplementsSession`: every step returns one of the
  four results or stutters; `CollectionReturns` is the whole of it (see Liveness).
* `Requests_proofs`: `ChangesTraced` holds because `Act` and `Verify` leave a request at the
  transaction that enters it, with a number of its own. Audit ids are bounded by `recorded`, which
  gives their uniqueness; `LossExplained` follows for each dropped entry from the rows that stayed.
  `ThrottleBounds` rests on a count: failures in the window together with the threads that have
  been admitted for the account stay below `Limit + |Thread|`, and whenever an account may be
  admitted its failures are below `Limit`. The latter needs `Cooldown >= Window`, an assumption the
  code's constants satisfy: with a shorter cooldown an account would be admitted while its window
  is still full. `RequestsAccounted` needs distinct numbers in hand and counts those a fault hit.
  `EveryRequestComesToItsEnd`: `Left` counts the steps a thread may still need, at most five;
  `StepNearer` and `NeverFurther` make fairness take the request down to none (see Liveness).

* `Store_proofs`: `Inv` says of every place what the transaction there has done: which tables are
  created, imported, emptied or filled (the lemmas on the four orders say that each is a permutation
  with parents, or children, first), that what is filled in is the change applied to the file, and
  that a transaction has lost nothing the file has. It holds for each store by itself, since the file
  changes only when no other store has a transaction open (`OneWriter`), and then only gains
  (`Undisturbed`), or when no other store is open at all (`SoleImporter`). `StoreIsAtomic` is the whole of `ImplementsAtomicStore`: `CommitUpdate` is `Grant`,
  a failure or stop of an update is `Refuse`, `CommitStart` is `Seed` or shows nothing, and neither
  does any other statement. `EveryCallComesBack` counts statements in the same way, at most 21 for an
  opening; that the measure falls at the ends of the loops over tables rests on `Inv`.

### Liveness

Five properties of the runs are liveness: `EveryRequestEnds`, `EveryCallReturns`, `PassesEnd`,
`EveryDeviceCollected`, and the return in `ImplementsSession`. All five are theorems, under hypotheses
that say nothing of the system but only what the provers do not know of the logic:

* What `ENABLED` means, `[]GuardsSuffice` (`[]GuardsDecide` in `Collector_proofs`): in states of the
  right types, when the guard of an action is true, the action is enabled. Each action assigns every
  variable once, and its choices are from sets that are not empty in such states, so this follows from
  the form of the actions. In `Scheduler` and `Collector` the guards are a matter of types: a pass
  that goes on has a device to finish, to begin, to skip, or none left; at each place some action takes
  the answers as they come. Where guards are about the data, that they hold is proved:
  `AlwaysReady` of `Requests_proofs` and `Store_proofs` shows it for every place a request or a
  store can be at: a full audit log has an oldest entry to make room (`OldestEntry`), and rows with
  a common id can be brought down to one each (`ReplacedExists`).
* That a natural number cannot fall for ever, `Descent(m, G)` of module `Measures`: if m is always
  natural and from each of its values comes to be smaller unless G comes first, then G comes again
  and again. It holds of every behaviour, but is an induction over a temporal formula. Where a
  measure has a bound in numbers (at most five steps of a request, 21 statements of a store) it is
  unrolled and no hypothesis. That each measure is natural and does fall is proved in all cases.

`NoDeviceStarves` needs three measures: `Left`, two steps for each device still in the pass, gives
`PassesEnd` (`EveryPassEnds`); `wait` gives, with `SF Wake`, that snapshots never cease (`WakesForever`); and
`Young(d)`, the ticks until d is due. A device that stays eligible and that nobody collects only
grows older or has its `last_seen` cleared (`SeenAges`), so it becomes due and stays so (`DueKept`); the
next snapshot takes it up (`WakeLists`); and it leaves the pass by its collection and in no other way
(`StaysListed`), while the pass does end. It assumes finitely many devices and, like the run, request
bodies without ages: `SeenAges` is where the proof would fail otherwise.

`CollectionReturns` counts the attempts left: `NextPlace` says that every step either spends one at the
same place or goes to a later place, `LeftFalls` that what is left falls by it.

Only proved: `SessionsBounded`, the cap of the session table, which no run lists because
`ImplementsAccess` says when the cap takes a session and which.

Only model-checked: the refuted properties. Every property of the passing runs is a theorem, the
liveness ones under the hypotheses above.

## Where code and documents differ

Besides the refuted properties, these were met while modelling; no run states them.

* The matrix of PERMISSIONS.md leaves the creation and deletion of devices and every change of
  groups to administrators; `PERMISSION_SETS` grants operators `devices:*` and `groups:*`.
* PERMISSIONS.md says that all key writes enter the audit log; the entry is written in a later
  transaction and may be missing after a fault (`ChangesTraced` says when).
* `_safe_execute` is documented as used when SSH is already up; every call opens a new connection.
* `elapsed` is the time of the sleep between the two samples, not the time between the samples.
* Request ids come from a counter in memory and repeat after a restart, unlike audit ids.
* A body that cannot be parsed is counted as an error and never audited.
* A NAS whose btrfs is not there lists its btrfs metrics both as not applicable and as unavailable.
* SECURITY.md says that stored passwords of password devices are replaced at the first load;
  `_scrub_legacy_plaintext_credentials` keeps them, as its comment and the tests say.
* A table of Phase 1 that does not parse is imported as empty, and the original is dropped.
* An import of Phase 1 data without the default group is not seeded with it before the next start.
* `ensure_confirmation` and `mark_high_risk_denied` have no caller.

## Plan

What could follow: `Monitoring` and `Scheduler` composed, a scheduled collection being a
`StartCollection` followed by a `Session`; the settings as state.

Not modelled and not planned: parsers (pure strings), password hashing, Paramiko and the network,
the codecs of columns, the loss of answered transactions with the power (`synchronous=NORMAL`; a
stop is one of the process, and what SQLite has committed is there afterwards), MockStore (a test double without transactions), the
frontend, deployment scripts. `PROJECT.json` gives the reason for each.

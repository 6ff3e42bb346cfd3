--------------------------------- MODULE Store ---------------------------------
(***************************************************************************)
(* SQLiteStore (persistence.py) statement by statement: how it prepares    *)
(* the database when it is opened, in whatever state the file is, and how  *)
(* it replaces the contents of all tables within one transaction.          *)
(*                                                                         *)
(* The process may stop before any statement and any statement may fail;   *)
(* what the open transaction has written is lost then.  A store serialises *)
(* its own callers with a lock.  Several stores may be open on one file,   *)
(* since save_device and get_device (monitoring.py) open one of their own; *)
(* SQLite lets one of them write at a time and makes the others wait.      *)
(***************************************************************************)
EXTENDS StoreRows, Naturals

CONSTANTS
    Instance,        \* stores opened on the database
    File,            \* contents the file may have when the first one is opened
    ConfigKey        \* keys of app_config

VARIABLES
    file,            \* the committed database
    work,            \* instance -> what its open transaction sees, or None
    pc,              \* instance -> the statement it is at
    pos,             \* instance -> the table that statement is about, by its place
    asked,           \* instance -> the change it has been asked for, or None
    state            \* instance -> the rows it is about to write, or None

vars == <<file, work, pc, pos, asked, state>>

-------------------------------------------------------------------------------
(* The database *)

Rows == {rows \in [Table -> SUBSET UNION {Row[t] : t \in Table}] :
            \A t \in Table : rows[t] \subseteq Row[t]}

\* `garbled`: tables whose JSON does not parse.  `missing`: tables without a row
\* in app_state.  The other tables are lists of rows.
Legacy == [rows : Rows, garbled : SUBSET Table, missing : SUBSET Table]

\* `tables` have been created, `column` says that devices has the column
\* `verified`, `legacy` is the contents of app_state when there is such a table.
Database == [rows : Rows, tables : SUBSET (Table \cup {"app_config"}),
             config : SUBSET ConfigKey, column : BOOLEAN, legacy : Legacy \cup {None}]

\* Mutant: what stands for missing groups stands for any missing table.
ImportedDefaulted(legacy) ==
    [t \in Table |->
        IF t \in legacy.garbled THEN {}
        ELSE IF t \notin legacy.missing THEN legacy.rows[t] ELSE {DefaultGroup}]

\* The state an app_state table stands for.
Imported(legacy) ==
    [t \in Table |->
        IF t \in legacy.garbled THEN {}
        ELSE IF t \notin legacy.missing THEN legacy.rows[t]
        ELSE IF t = "device_groups" THEN {DefaultGroup} ELSE {}]

ASSUME FileAssumption ==
    /\ File \subseteq Database
    /\ None \notin Database \cup Rows \cup Legacy
    /\ \A f \in File : ReferencesHold(f.rows) /\ IdsDistinct(f.rows)
    /\ \A f \in File : "devices" \notin f.tables => f.rows["devices"] = {}
    /\ \A f \in File : f.legacy # None =>
          /\ f.rows = NoRows
          /\ "devices" \in f.tables => f.column
          /\ IdsDistinct(f.legacy.rows)

-------------------------------------------------------------------------------
(* Statements *)

CreateOrder == <<"device_groups", "devices", "collection_records", "alerts", "users",
                 "sessions", "audit_logs", "app_config">>

ImportOrder == <<"device_groups", "devices", "collection_records", "alerts", "users",
                 "sessions", "audit_logs">>

\* Mutant: the order of the tables as they are declared.
DeleteAsDeclared == <<"device_groups", "devices", "collection_records", "alerts", "users",
                      "sessions", "audit_logs">>

DeleteOrder == <<"collection_records", "alerts", "sessions", "audit_logs", "devices",
                 "device_groups", "users">>

InsertOrder == <<"device_groups", "devices", "users", "collection_records", "alerts",
                 "sessions", "audit_logs">>

\* SQLite lets one connection write at a time.
CanWrite(i) == \A j \in Instance \ {i} : work[j] = None

\* What the connection of i sees.
Seen(i) == IF work[i] = None THEN file ELSE work[i]

Goto(i, place) == pc' = [pc EXCEPT ![i] = place]

\* A statement that opens a transaction or belongs to an open one.
Write(i, db) ==
    /\ CanWrite(i)
    /\ work' = [work EXCEPT ![i] = db]
    /\ UNCHANGED file

\* A statement that commits by itself when no transaction is open, as changes
\* of the schema do.
WriteSchema(i, db) ==
    IF work[i] = None
    THEN CanWrite(i) /\ file' = db /\ UNCHANGED work
    ELSE Write(i, db)

Commit(i) ==
    /\ file' = work[i]
    /\ work' = [work EXCEPT ![i] = None]

\* Mutant: a failure halfway is committed like a success.
AbandonCommitting(i, place) ==
    /\ file' = Seen(i)
    /\ work' = [work EXCEPT ![i] = None]
    /\ asked' = [asked EXCEPT ![i] = None]
    /\ state' = [state EXCEPT ![i] = None]
    /\ pos' = [pos EXCEPT ![i] = 1]
    /\ Goto(i, place)

\* The connection is closed, or rolled back: the transaction leaves no trace.
Abandon(i, place) ==
    /\ work' = [work EXCEPT ![i] = None]
    /\ asked' = [asked EXCEPT ![i] = None]
    /\ state' = [state EXCEPT ![i] = None]
    /\ pos' = [pos EXCEPT ![i] = 1]
    /\ Goto(i, place)
    /\ UNCHANGED file

\* Foreign keys let DELETE FROM t pass.
Deletable(rows, t) ==
    \A ref \in References \ Cascades : ref[2] = t => rows[ref[1]] = {}

Deleted(rows, t) ==
    [u \in Table |-> IF u = t \/ <<u, t>> \in Cascades THEN {} ELSE rows[u]]

\* Mutant: PRAGMA foreign_keys is left off.
InsertableUnchecked(db, t, new) == t = "devices" /\ new # {} => db.column

\* The columns exist and foreign keys let the rows in.
Insertable(db, t, new) ==
    /\ \A r \in new : Anchored(db.rows, t, r)
    /\ t = "devices" /\ new # {} => db.column

-------------------------------------------------------------------------------
(* Opening a store: _initialize *)

\* Assumed of those who open stores of their own (init_store, save_device and
\* get_device): no store is opened while another one imports app_state.
Start(i) ==
    /\ pc[i] = "down"
    /\ file.legacy # None => \A j \in Instance : pc[j] = "down"
    /\ Goto(i, "ddl")
    /\ UNCHANGED <<file, work, pos, asked, state>>

\* Mutant: CREATE TABLE without IF NOT EXISTS.
CreateTableOnce(i) ==
    /\ pc[i] = "ddl"
    /\ CreateOrder[pos[i]] \notin file.tables
    /\ LET t == CreateOrder[pos[i]]
       IN WriteSchema(i, [file EXCEPT !.tables = @ \cup {t}, !.column = @ \/ t = "devices"])
    /\ pos' = [pos EXCEPT ![i] = IF @ < 8 THEN @ + 1 ELSE 1]
    /\ Goto(i, IF pos[i] < 8 THEN "ddl" ELSE "legacy")
    /\ UNCHANGED <<asked, state>>

\* CREATE TABLE IF NOT EXISTS.
CreateTable(i) ==
    /\ pc[i] = "ddl"
    /\ LET t == CreateOrder[pos[i]]
       IN WriteSchema(i, [file EXCEPT !.tables = @ \cup {t},
                                      !.column = @ \/ (t = "devices" /\ t \notin file.tables)])
    /\ pos' = [pos EXCEPT ![i] = IF @ < 8 THEN @ + 1 ELSE 1]
    /\ Goto(i, IF pos[i] < 8 THEN "ddl" ELSE "legacy")
    /\ UNCHANGED <<asked, state>>

LookForLegacy(i) ==
    /\ pc[i] = "legacy"
    /\ Goto(i, IF file.legacy # None THEN "import" ELSE "seed")
    /\ UNCHANGED <<file, work, pos, asked, state>>

\* _migrate_from_legacy: the configuration comes first, with defaults for the
\* keys that app_state lacks.
ImportConfig(i) ==
    /\ pc[i] = "import"
    /\ work[i] = None
    /\ Write(i, [file EXCEPT !.config = ConfigKey])
    /\ UNCHANGED <<pc, pos, asked, state>>

ImportTable(i) ==
    /\ pc[i] = "import"
    /\ work[i] # None
    /\ LET t == ImportOrder[pos[i]]
           new == Imported(work[i].legacy)[t]
       IN /\ Insertable(work[i], t, new)
          /\ \E kept \in Replaced(new) : Write(i, [work[i] EXCEPT !.rows[t] = kept])
    /\ pos' = [pos EXCEPT ![i] = IF @ < 7 THEN @ + 1 ELSE 1]
    /\ Goto(i, IF pos[i] < 7 THEN "import" ELSE "drop")
    /\ UNCHANGED <<asked, state>>

\* DROP TABLE app_state, within the transaction of the import.
DropLegacy(i) ==
    /\ pc[i] = "drop"
    /\ Write(i, [work[i] EXCEPT !.legacy = None])
    /\ Goto(i, "column")
    /\ UNCHANGED <<pos, asked, state>>

\* Mutant: the configuration is left to the first change of a setting.
SeedGroupOnly(i) ==
    /\ pc[i] = "seed"
    /\ LET groups == file.rows["device_groups"]
       IN IF \E g \in groups : g.id = DefaultGroup.id THEN UNCHANGED <<file, work>>
          ELSE Write(i, [file EXCEPT !.rows["device_groups"] = @ \cup {DefaultGroup}])
    /\ Goto(i, "column")
    /\ UNCHANGED <<pos, asked, state>>

\* _seed_config.  What another store writes between its SELECTs and its INSERTs
\* makes a plain INSERT fail and INSERT OR IGNORE pass: the first is Fail.
SeedConfig(i) ==
    /\ pc[i] = "seed"
    /\ LET groups == file.rows["device_groups"]
           seeded == IF \E g \in groups : g.id = DefaultGroup.id THEN groups
                     ELSE groups \cup {DefaultGroup}
           db == [file EXCEPT !.config = ConfigKey, !.rows["device_groups"] = seeded]
       IN IF db = file THEN UNCHANGED <<file, work>> ELSE Write(i, db)
    /\ Goto(i, "column")
    /\ UNCHANGED <<pos, asked, state>>

\* _ensure_devices_schema.  A column that another store adds between the look and
\* the ALTER TABLE makes it fail: that is Fail.
EnsureColumn(i) ==
    /\ pc[i] = "column"
    /\ IF Seen(i).column THEN UNCHANGED <<file, work>>
       ELSE WriteSchema(i, [Seen(i) EXCEPT !.column = TRUE])
    /\ Goto(i, "scrub")
    /\ UNCHANGED <<pos, asked, state>>

\* _scrub_legacy_plaintext_credentials.
Scrub(i) ==
    /\ pc[i] = "scrub"
    /\ Write(i, [Seen(i) EXCEPT !.rows = Loaded(@)])
    /\ Goto(i, "opened")
    /\ UNCHANGED <<pos, asked, state>>

CommitStart(i) ==
    /\ pc[i] = "opened"
    /\ Commit(i)
    /\ Goto(i, "idle")
    /\ UNCHANGED <<pos, asked, state>>

-------------------------------------------------------------------------------
(* SQLiteStore.update *)

Ask(i, c) ==
    /\ pc[i] = "idle"
    /\ asked' = [asked EXCEPT ![i] = c]
    /\ Goto(i, "begin")
    /\ UNCHANGED <<file, work, pos, state>>

\* Mutant: a plain BEGIN, which lets another store write after the tables have
\* been read.
BeginDeferred(i) ==
    /\ pc[i] = "begin"
    /\ work' = [work EXCEPT ![i] = file]
    /\ state' = [state EXCEPT ![i] = Mutated(asked[i], Loaded(file.rows))]
    /\ Goto(i, "delete")
    /\ UNCHANGED <<file, pos, asked>>

\* BEGIN IMMEDIATE takes the right to write; only then the tables are read, with
\* _build_state_from_tables, and the mutator runs.
Begin(i) ==
    /\ pc[i] = "begin"
    /\ Write(i, file)
    /\ state' = [state EXCEPT ![i] = Mutated(asked[i], Loaded(file.rows))]
    /\ Goto(i, "delete")
    /\ UNCHANGED <<pos, asked>>

\* _persist_state_to_tables.  The configuration is written between the two.
DeleteTable(i) ==
    /\ pc[i] = "delete"
    /\ LET t == DeleteOrder[pos[i]]
       IN /\ Deletable(work[i].rows, t)
          /\ Write(i, [work[i] EXCEPT !.rows = Deleted(@, t),
                                      !.config = IF pos[i] < 7 THEN @ ELSE ConfigKey])
    /\ pos' = [pos EXCEPT ![i] = IF @ < 7 THEN @ + 1 ELSE 1]
    /\ Goto(i, IF pos[i] < 7 THEN "delete" ELSE "insert")
    /\ UNCHANGED <<asked, state>>

InsertTable(i) ==
    /\ pc[i] = "insert"
    /\ LET t == InsertOrder[pos[i]]
       IN /\ Insertable(work[i], t, state[i][t])
          /\ \E kept \in Replaced(state[i][t]) : Write(i, [work[i] EXCEPT !.rows[t] = kept])
    /\ pos' = [pos EXCEPT ![i] = IF @ < 7 THEN @ + 1 ELSE 1]
    /\ Goto(i, IF pos[i] < 7 THEN "insert" ELSE "commit")
    /\ UNCHANGED <<asked, state>>

CommitUpdate(i) ==
    /\ pc[i] = "commit"
    /\ Commit(i)
    /\ asked' = [asked EXCEPT ![i] = None]
    /\ state' = [state EXCEPT ![i] = None]
    /\ Goto(i, "idle")
    /\ UNCHANGED pos

-------------------------------------------------------------------------------
(* Failures *)

Opening == {"ddl", "legacy", "import", "drop", "seed", "column", "scrub", "opened"}

Updating == {"begin", "delete", "insert", "commit"}

\* The next statement of i is one that foreign keys or the schema refuse.
Refused(i) ==
    \/ /\ pc[i] = "import" /\ work[i] # None
       /\ LET t == ImportOrder[pos[i]]
          IN ~Insertable(work[i], t, Imported(work[i].legacy)[t])
    \/ /\ pc[i] = "delete"
       /\ ~Deletable(work[i].rows, DeleteOrder[pos[i]])
    \/ /\ pc[i] = "insert"
       /\ ~Insertable(work[i], InsertOrder[pos[i]], state[i][InsertOrder[pos[i]]])

\* An exception: the constructor lets it pass and the process ends, update
\* rolls back and raises it to its caller.
Raise(i) == Abandon(i, IF pc[i] \in Updating THEN "idle" ELSE "down")

Refuse(i) == Refused(i) /\ Raise(i)

\* Mutant: no timeout, the store waits until it is its turn.
WaitOnly(i) ==
    /\ pc[i] \in Opening \cup Updating
    /\ ~CanWrite(i)
    /\ UNCHANGED vars

\* The other store keeps the right to write for longer than `timeout`.
TimeOut(i) ==
    /\ pc[i] \in Opening \cup Updating
    /\ ~CanWrite(i)
    /\ Raise(i)

\* Any other reason: the mutator raises, the disk is full, ...
Fail(i) == pc[i] \in Opening \cup Updating /\ Raise(i)

Crash(i) == pc[i] # "down" /\ Abandon(i, "down")

-------------------------------------------------------------------------------

Init ==
    /\ file \in File
    /\ work = [i \in Instance |-> None]
    /\ pc = [i \in Instance |-> "down"]
    /\ pos = [i \in Instance |-> 1]
    /\ asked = [i \in Instance |-> None]
    /\ state = [i \in Instance |-> None]

\* The next statement of an opening or of an update, however it ends.
Step(i) ==
    \/ CreateTable(i)
    \/ LookForLegacy(i)
    \/ ImportConfig(i)
    \/ ImportTable(i)
    \/ DropLegacy(i)
    \/ SeedConfig(i)
    \/ EnsureColumn(i)
    \/ Scrub(i)
    \/ CommitStart(i)
    \/ Begin(i)
    \/ DeleteTable(i)
    \/ InsertTable(i)
    \/ CommitUpdate(i)
    \/ Refuse(i)
    \/ TimeOut(i)

Next ==
    \E i \in Instance :
        \/ Start(i)
        \/ \E c \in Change : Ask(i, c)
        \/ Step(i)
        \/ Fail(i)
        \/ Crash(i)

Fair(i) == WF_vars(Step(i))

Fairness == \A i \in Instance : Fair(i)

Spec == Init /\ [][Next]_vars /\ Fairness

-------------------------------------------------------------------------------
(* Properties *)

TypeOK ==
    /\ file \in Database
    /\ work \in [Instance -> Database \cup {None}]
    /\ pc \in [Instance -> {"down", "idle"} \cup Opening \cup Updating]
    /\ pos \in [Instance -> 1 .. 8]
    /\ asked \in [Instance -> Change \cup {None}]
    /\ state \in [Instance -> Rows \cup {None}]

\* Whatever the file was when the stores were opened, and wherever they stopped
\* before, a store that serves finds every table, every key of the configuration
\* and the column `verified`, no credentials left over and no app_state.
ServesPrepared ==
    (\E i \in Instance : pc[i] \in {"idle"} \cup Updating) =>
        /\ file.tables = Table \cup {"app_config"}
        /\ file.config = ConfigKey
        /\ file.column
        /\ file.legacy = None
        /\ \A t \in Table : \A r \in file.rows[t] : ~r.stray

\* The statements of a transaction come in an order in which foreign keys are in
\* the way only of a state that violates them: neither clearing the tables nor
\* filling them again is refused halfway when the state to be written is sound.
StatementsFit ==
    \A i \in Instance :
        /\ pc[i] = "delete" => ~Refused(i)
        /\ pc[i] = "insert" /\ ReferencesHold(state[i]) => ~Refused(i)
        /\ pc[i] = "import" /\ ReferencesHold(Imported(file.legacy)) => ~Refused(i)

\* No crash, failure or second store leaves a row in the file without the row it
\* refers to, or two rows of one id.
FileSound == ReferencesHold(file.rows) /\ IdsDistinct(file.rows)

\* Every update makes its change to the latest state, as a whole or not at all;
\* opening, importing and crashing do not show.
Promise == INSTANCE AtomicStore WITH
    data <- IF file.legacy # None THEN Loaded(Imported(file.legacy)) ELSE Loaded(file.rows)

ImplementsAtomicStore == Promise!Spec

\* An opening and an update end, even when another store keeps writing: they
\* succeed or raise.
EveryCallReturns ==
    \A i \in Instance : pc[i] \in Opening \cup Updating ~> pc[i] \in {"idle", "down"}

===============================================================================

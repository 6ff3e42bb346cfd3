------------------------------- MODULE StoreRows -------------------------------
(***************************************************************************)
(* The rows SQLiteStore (persistence.py) keeps, as far as a transaction    *)
(* can tell them apart: the id, the row they refer to, and whether a       *)
(* device row carries a password or an inline key that its kind of         *)
(* authentication does not use.  The path of a key file, which is cleared  *)
(* on reading only, is left out; every other column is part of what        *)
(* distinguishes two rows.                                                 *)
(***************************************************************************)
EXTENDS FiniteSets

CONSTANTS
    Id,              \* primary keys
    Row,             \* table -> rows that are considered
    Change,          \* what a mutator does: rows it drops by id, rows it puts
    DefaultGroup,    \* the row of grp-ungrouped
    None             \* nothing

Table == {"device_groups", "devices", "collection_records", "alerts", "users", "sessions",
          "audit_logs"}

\* The foreign keys, child and parent.
References == {<<"devices", "device_groups">>, <<"collection_records", "devices">>,
               <<"alerts", "devices">>, <<"sessions", "users">>}

\* The foreign keys with ON DELETE CASCADE.
Cascades == References \ {<<"devices", "device_groups">>}

NoRows == [t \in Table |-> {}]

\* _normalize_loaded_device_credentials.
Cleaned(r) == [id |-> r.id, parent |-> r.parent, stray |-> FALSE]

ASSUME RowsAssumption ==
    /\ Row \in [Table -> SUBSET [id : Id, parent : Id \cup {None}, stray : BOOLEAN]]
    /\ \A t \in Table : \A r \in Row[t] : Cleaned(r) \in Row[t]
    /\ \A t \in Table \ {"devices"} : \A r \in Row[t] : ~r.stray
    /\ DefaultGroup \in Row["device_groups"]

ASSUME ChangeAssumption ==
    /\ \A c \in Change, t \in Table : c.put[t] \subseteq {r \in Row[t] : ~r.stray}
    /\ None \notin Change

-------------------------------------------------------------------------------

\* A row of table t has its parent in `rows`.
Anchored(rows, t, r) ==
    \A ref \in References : ref[1] = t => \E p \in rows[ref[2]] : p.id = r.parent

ReferencesHold(rows) == \A t \in Table : \A r \in rows[t] : Anchored(rows, t, r)

OneRowPerId(S) == \A r, s \in S : r.id = s.id => r = s

IdsDistinct(rows) == \A t \in Table : OneRowPerId(rows[t])

\* What INSERT OR REPLACE leaves of a list of rows: the last one of every id.
Replaced(S) == {K \in SUBSET S : OneRowPerId(K) /\ \A r \in S : \E k \in K : k.id = r.id}

\* _build_state_from_tables.
Loaded(rows) == [t \in Table |-> {Cleaned(r) : r \in rows[t]}]

\* What a mutator makes of the state it is given.
Mutated(change, rows) ==
    [t \in Table |-> {r \in rows[t] : r.id \notin change.drop[t]} \cup change.put[t]]

===============================================================================

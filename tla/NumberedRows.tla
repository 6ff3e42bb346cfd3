----------------------------- MODULE NumberedRows -----------------------------
(***************************************************************************)
(* Rows that carry a number as `id`.  The tables of HomeInfra number their *)
(* rows alike: collection records and alerts in monitoring.py, users and   *)
(* sessions in auth.py, and the tables with a cap keep their newest rows.  *)
(***************************************************************************)
EXTENDS Naturals, FiniteSets

\* Mutant: rows are numbered by counting them.
IsRowCount(n, rows) == n = Cardinality(rows) + 1

\* _next_numbered_id: one above the highest id still in the table, so that the
\* id of a deleted row is handed out again when that row was the highest.
IsNextId(n, rows) ==
    /\ \A x \in rows : x.id < n
    /\ n = 1 \/ \E x \in rows : x.id = n - 1

\* rows[:n] of a list kept newest first.
Newest(rows, n) == {x \in rows : Cardinality({y \in rows : y.id > x.id}) < n}

===============================================================================

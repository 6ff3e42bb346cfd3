-------------------------------- MODULE StoreMC --------------------------------
(***************************************************************************)
(* Instances of Store for TLC.  A group besides the default one, a device  *)
(* that refers to it, a record and an alert of the device, an account with *)
(* a session: one row of each kind is enough for every foreign key.        *)
(***************************************************************************)
EXTENDS Store, TLC

ARow(id, parent) == [id |-> id, parent |-> parent, stray |-> FALSE]

MCDefault == ARow("ungrouped", None)
Rack == ARow("rack", None)
Nas == ARow("nas", "rack")
NasMoved == ARow("nas", "ungrouped")
NasStray == [Nas EXCEPT !.stray = TRUE]
Sample == ARow("col-1", "nas")
Alarm == ARow("alert-1", "nas")
Admin == ARow("admin", None)
Login == ARow("ses-1", "admin")

MCId == {"ungrouped", "rack", "nas", "col-1", "alert-1", "admin", "ses-1"}

Of(g, d, c, a, u, s) ==
    [device_groups |-> g, devices |-> d, collection_records |-> c, alerts |-> a,
     users |-> u, sessions |-> s, audit_logs |-> {}]

MCRow == Of({MCDefault, Rack}, {Nas, NasMoved, NasStray}, {Sample}, {Alarm}, {Admin}, {Login})

Put(rows) == [put |-> rows, drop |-> NoRows]
Drop(rows) == [put |-> NoRows, drop |-> [t \in Table |-> {r.id : r \in rows[t]}]]

\* Sound changes, a device listed twice, and changes that break a reference.
MCChange ==
    {Put(Of({Rack}, {}, {}, {}, {Admin}, {})),
     Put(Of({}, {Nas}, {Sample}, {}, {}, {Login})),
     Put(Of({}, {NasMoved}, {}, {Alarm}, {}, {})),
     Drop(Of({}, {Nas}, {Sample}, {Alarm}, {}, {Login})),
     Drop(Of({Rack}, {}, {}, {}, {}, {})),
     Drop(Of({}, {}, {}, {}, {Admin}, {}))}

TwoChanges ==
    {Put(Of({Rack}, {Nas}, {Sample}, {}, {}, {})),
     Put(Of({}, {NasMoved}, {}, {Alarm}, {}, {}))}

Full == Of({MCDefault, Rack}, {NasStray}, {Sample}, {Alarm}, {Admin}, {Login})

All == Table \cup {"app_config"}

New == [rows |-> NoRows, tables |-> {}, config |-> {}, column |-> FALSE, legacy |-> None]

\* Written by an earlier version: no column `verified`, a key of app_config less.
Older == [rows |-> Full, tables |-> All, config |-> {"started_at"}, column |-> FALSE,
          legacy |-> None]

\* In the format of Phase 1, before or after a first attempt to import it.
Phase1(rows, garbled, missing) ==
    {[New EXCEPT !.legacy = [rows |-> rows, garbled |-> garbled, missing |-> missing]],
     [New EXCEPT !.tables = All, !.column = TRUE,
                 !.legacy = [rows |-> rows, garbled |-> garbled, missing |-> missing]]}

NormalFiles == {New, Older}

MCFile ==
    NormalFiles
    \cup Phase1(Full, {}, {})
    \cup Phase1(Full, {"collection_records"}, {"audit_logs"})
    \cup Phase1(Full, {"devices"}, {})
    \cup Phase1(Full, {}, {"device_groups"})

===============================================================================

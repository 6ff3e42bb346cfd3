----------------------------- MODULE MonitoringMC -----------------------------
(***************************************************************************)
(* The request bodies considered in the runs of Monitoring: one per kind   *)
(* of change update_device tells apart.                                    *)
(***************************************************************************)
EXTENDS Monitoring

NoChange == [id |-> None, group |-> None, conn |-> None, status |-> None, verified |-> None]

\* Another id, free or taken.
Renames == {[NoChange EXCEPT !.id = d] : d \in DeviceId}

\* Another group.
Moves == {[NoChange EXCEPT !.group = g] : g \in GroupId}

\* Collection switched off and on again.
Switches == {[NoChange EXCEPT !.status = s] : s \in {"disabled", "unknown"}}

\* New connection settings, alone or with a status in the same body.
Repoints == {[NoChange EXCEPT !.conn = c, !.status = s] : c \in Conn, s \in {None, "disabled", "online"}}

RenamesAndSwitches == Renames \cup Switches
RenamesAndMoves == Renames \cup Moves
SwitchesAndRepoints == Switches \cup Repoints

===============================================================================

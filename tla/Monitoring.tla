------------------------------ MODULE Monitoring ------------------------------
(***************************************************************************)
(* The monitoring state of HomeInfra: device groups, devices, collection   *)
(* records and alerts, as MonitoringService (monitoring.py) changes them   *)
(* through the transactions of SQLiteStore (persistence.py), together with *)
(* retention cleanup (operations.py) and a restart of the process.         *)
(*                                                                         *)
(* A request handler is one transaction, hence one action, except for a    *)
(* collection: it reads the device, talks to it over SSH for seconds       *)
(* without holding the store's lock, and applies the result in a second    *)
(* transaction.  Everything else may happen in between, so a collection is *)
(* two actions, with what it read kept in `flights`.                       *)
(***************************************************************************)
EXTENDS Naturals, FiniteSets, NumberedRows

CONSTANTS
    DeviceId,        \* device ids
    GroupId,         \* device group ids
    GroupName,       \* device group names
    Ungrouped,       \* UNGROUPED_GROUP_ID
    UngroupedName,   \* the name _seed_config gives that group
    Conn,            \* connection settings: host, port, user and credentials
    ThresholdCode,   \* codes evaluate_threshold_alerts and SMART checks raise
    Worker,          \* threads that can run a collection
    DevicePatch,     \* bodies of PATCH /devices/{id} that are considered
    MaxRecords,      \* the cap of collection_records (5000 in the code)
    MaxRecordId,     \* bound: record ids handed out in one behaviour
    None             \* no row, no collection running, field not in the body

VARIABLES
    groups,          \* group id -> name of the row, or None
    devices,         \* device id -> row, or None
    records,         \* set of collection_records rows
    alerts,          \* set of the alerts rows that are active
    closed,          \* devices that still have resolved alerts in the table
    flights          \* worker -> the collection it is running, or None

vars == <<groups, devices, records, alerts, closed, flights>>

-------------------------------------------------------------------------------
(* Rows *)

Status == {"online", "offline", "warning", "unknown", "disabled", "unavailable"}

AlertCode == ThresholdCode \cup {"device_offline", "collection_failed"}

DeviceRow == [group : GroupId, conn : Conn, status : Status, verified : BOOLEAN]

RecordId == 1 .. MaxRecordId

\* `codes` are the alert codes the record's status and payload call for.
Record == [id : RecordId, device : DeviceId, codes : SUBSET AlertCode]

\* Active alerts are kept in full.  A resolved one is never read again, but its
\* row ties its device's id until cleanup or the device's deletion removes it:
\* `closed` is all that is kept of it.
Alert == [device : DeviceId, code : AlertCode, group : GroupId, record : RecordId]

Flight == [device : DeviceId, conn : Conn]

Patch == [id : DeviceId \cup {None}, group : GroupId \cup {None},
          conn : Conn \cup {None}, status : Status \cup {None},
          verified : BOOLEAN \cup {None}]

ASSUME ConstantsAssumption ==
    /\ Ungrouped \in GroupId
    /\ UngroupedName \in GroupName
    /\ {"device_offline", "collection_failed"} \cap ThresholdCode = {}
    /\ DevicePatch \subseteq Patch
    /\ MaxRecords \in Nat \ {0}
    /\ MaxRecordId \in Nat

ASSUME NoneAssumption ==
    /\ None \notin GroupName
    /\ None \notin DeviceRow
    /\ None \notin Flight
    /\ None \notin DeviceId
    /\ None \notin GroupId

-------------------------------------------------------------------------------
(* The store *)

\* The tables as a transaction reads them: what the callback of update gets a
\* copy of, changes and hands back.
Tables == [groups |-> groups, devices |-> devices, records |-> records,
           alerts |-> alerts, closed |-> closed]

\* The foreign keys the persisted state has to satisfy.
ForeignKeysHold(t) ==
    /\ \A d \in DeviceId : t.devices[d] # None => t.groups[t.devices[d].group] # None
    /\ \A r \in t.records : t.devices[r.device] # None
    /\ \A a \in t.alerts : t.devices[a.device] # None
    /\ \A d \in t.closed : t.devices[d] # None

\* The end of a transaction: the new state is written, or, when a foreign key
\* is violated, rolled back and reported to the caller, which changes nothing.
Commit(t) ==
    /\ ForeignKeysHold(t)
    /\ groups' = t.groups
    /\ devices' = t.devices
    /\ records' = t.records
    /\ alerts' = t.alerts
    /\ closed' = t.closed

\* dict.update for one field of a request body.
Given(field, old) == IF field = None THEN old ELSE field

-------------------------------------------------------------------------------
(* Device groups *)

CreateGroup(g, name) ==
    /\ groups[g] = None
    /\ \A h \in GroupId : groups[h] # name
    /\ Commit([Tables EXCEPT !.groups = [groups EXCEPT ![g] = name]])
    /\ UNCHANGED flights

\* PATCH /device-groups/{id}.  The body may carry a new id.  A row that takes the
\* id of another group and that group's row are both written with INSERT OR
\* REPLACE: the one sorted last, by sort_order and name, is the one that is kept.
UpdateGroup(g, newId, newName) ==
    /\ groups[g] # None
    /\ newId # None \/ newName # None
    /\ newName # None => \A h \in GroupId \ {g} : groups[h] # newName
    /\ LET id == Given(newId, g)
           name == Given(newName, groups[g])
       IN \E kept \in {name} \cup (IF id # g THEN {groups[id]} \ {None} ELSE {}) :
            Commit([Tables EXCEPT !.groups = [groups EXCEPT ![g] = None, ![id] = kept]])
    /\ UNCHANGED flights

\* Mutant: the devices of the group are deleted with it.
GroupDeletedCascading(g) ==
    LET gone == {d \in DeviceId : devices[d] # None /\ devices[d].group = g}
    IN [Tables EXCEPT
           !.groups = [groups EXCEPT ![g] = None],
           !.devices = [d \in DeviceId |-> IF d \in gone THEN None ELSE devices[d]],
           !.records = {r \in records : r.device \notin gone},
           !.alerts = {a \in alerts : a.device \notin gone},
           !.closed = closed \ gone]

\* What delete_device_group writes: the devices and alerts of the group become
\* those of the default one.
GroupDeleted(g) ==
    [Tables EXCEPT
        !.groups = [groups EXCEPT ![g] = None],
        !.devices = [d \in DeviceId |->
                        IF devices[d] # None /\ devices[d].group = g
                        THEN [devices[d] EXCEPT !.group = Ungrouped]
                        ELSE devices[d]],
        !.alerts = {IF a.group = g THEN [a EXCEPT !.group = Ungrouped] ELSE a : a \in alerts}]

DeleteGroup(g) ==
    /\ groups[g] # None
    /\ g # Ungrouped
    /\ groups[Ungrouped] # None
    /\ Commit(GroupDeleted(g))
    /\ UNCHANGED flights

-------------------------------------------------------------------------------
(* Devices *)

\* How _prepare_device_creation_state lets a new device start: collection is
\* disabled, the collector cannot verify, or quick_verify reached the device.
CreationState ==
    {[status |-> "disabled", verified |-> FALSE],
     [status |-> "unknown", verified |-> FALSE],
     [status |-> "online", verified |-> TRUE]}

CreateDevice(d, g, c, start) ==
    /\ groups[g] # None
    /\ devices[d] = None
    /\ Commit([Tables EXCEPT
                 !.devices = [devices EXCEPT ![d] = [group |-> g, conn |-> c,
                                                     status |-> start.status,
                                                     verified |-> start.verified]]])
    /\ UNCHANGED flights

\* The row update_device computes: new connection settings are unverified, and
\* the device's status unknown until a collection says otherwise.
Merged(row, p) ==
    LET status == Given(p.status, row.status)
    IN [group |-> Given(p.group, row.group),
        conn |-> Given(p.conn, row.conn),
        status |-> IF p.conn # None /\ status # "disabled" THEN "unknown" ELSE status,
        verified |-> IF p.conn # None THEN FALSE ELSE Given(p.verified, row.verified)]

\* PATCH /devices/{id}.  As for a group, a body that carries the id of another
\* device leaves one of the two rows, and a new id breaks the foreign keys of
\* the device's records and alerts, so that Commit refuses it.
UpdateDevice(d, p) ==
    /\ devices[d] # None
    /\ p.group # None => groups[p.group] # None
    /\ LET id == Given(p.id, d)
           row == Merged(devices[d], p)
       IN \E kept \in {row} \cup (IF id # d THEN {devices[id]} \ {None} ELSE {}) :
            Commit([Tables EXCEPT !.devices = [devices EXCEPT ![d] = None, ![id] = kept]])
    /\ UNCHANGED flights

\* Mutant: the alerts of the device are left in the table.
DeviceDeletedOnly(d) ==
    [Tables EXCEPT !.devices = [devices EXCEPT ![d] = None],
                   !.records = {r \in records : r.device # d}]

\* What delete_device writes: the device goes with its records and alerts.
DeviceDeleted(d) ==
    [Tables EXCEPT !.devices = [devices EXCEPT ![d] = None],
                   !.records = {r \in records : r.device # d},
                   !.alerts = {a \in alerts : a.device # d},
                   !.closed = closed \ {d}]

DeleteDevice(d) ==
    /\ devices[d] # None
    /\ Commit(DeviceDeleted(d))
    /\ UNCHANGED flights

-------------------------------------------------------------------------------
(* Collections *)

\* What the collector can come back with.  A collection that reached the device
\* is healthy, or a warning when some probe failed; a CollectorError is critical
\* (the device cannot be reached) or a warning (credentials, timeout).  The
\* status "disabled" of _apply_collection_failure is only ever raised by
\* DisabledCollector, with which _collect does not start a collection.
Outcome ==
    [ok : {TRUE}, status : {"healthy", "warning"}, checks : SUBSET ThresholdCode]
        \cup [ok : {FALSE}, status : {"critical", "warning"}, checks : {{}}]

\* Mutant: thresholds are evaluated whenever the device was reached.
CodesWhenReached(o) ==
    IF o.ok THEN o.checks
    ELSE IF o.status = "critical" THEN {"device_offline"}
    ELSE {"collection_failed"}

\* The alerts a collection calls for: thresholds count only when every probe
\* succeeded.
Codes(o) ==
    IF o.status = "healthy" THEN o.checks
    ELSE IF o.status = "critical" THEN {"device_offline"}
    ELSE {"collection_failed"}

\* Mutant: the collector's status is stored as it came.
ObservedAsReported(row, o) == [row EXCEPT !.status = o.status, !.verified = o.ok]

\* The device row after a collection.
Observed(row, o) ==
    IF o.ok
    THEN [row EXCEPT !.status = IF o.status = "healthy" THEN "online" ELSE "warning",
                     !.verified = TRUE]
    ELSE IF o.status = "critical"
    THEN [row EXCEPT !.status = "offline", !.verified = FALSE]
    ELSE [row EXCEPT !.status = "warning"]

\* _reconcile_alerts: every active alert of the device is resolved by the
\* system, then the alerts this record calls for are raised.  Nothing of the
\* device is active at that point, so _upsert_alert inserts; its other branch
\* serves a code found twice in one collection, which a set absorbs.
Raised(d, g, id, codes) ==
    {[device |-> d, code |-> c, group |-> g, record |-> id] : c \in codes}

\* Mutant: the alerts of earlier collections stay active.
ReconcileAppending(as, d, g, id, codes) == as \cup Raised(d, g, id, codes)

Reconcile(as, d, g, id, codes) == {a \in as : a.device # d} \cup Raised(d, g, id, codes)

Autoclosed(as, d) == {a.device : a \in as} \cap {d}

\* The first half of _collect: test, refresh and scheduled collections alike
\* read the device and go to it.
StartCollection(w, d) ==
    /\ flights[w] = None
    /\ devices[d] # None
    /\ devices[d].status # "disabled"
    /\ flights' = [flights EXCEPT ![w] = [device |-> d, conn |-> devices[d].conn]]
    /\ UNCHANGED <<groups, devices, records, alerts, closed>>

\* What _apply_collection_success or _apply_collection_failure writes for device d
\* when the record of outcome o gets the number id.
CollectionApplied(d, row, o, id) ==
    [Tables EXCEPT
        !.devices = [devices EXCEPT ![d] = Observed(row, o)],
        !.records = Newest(records \cup {[id |-> id, device |-> d, codes |-> Codes(o)]},
                           MaxRecords),
        !.alerts = Reconcile(alerts, d, row.group, id, Codes(o)),
        !.closed = closed \cup Autoclosed(alerts, d)]

\* Mutant: the row is written back from what the collection read at its start.
FinishUnchecked(w, o) ==
    /\ flights[w] # None
    /\ LET d == flights[w].device
           row == IF devices[d] # None THEN devices[d]
                  ELSE [group |-> Ungrouped, conn |-> flights[w].conn,
                        status |-> "unknown", verified |-> FALSE]
       IN \E id \in RecordId :
             /\ IsNextId(id, records)
             /\ Commit(CollectionApplied(d, row, o, id))
    /\ flights' = [flights EXCEPT ![w] = None]

\* Mutant: the row is written back with the connection that was read at the start.
FinishFromCopy(w, o) ==
    /\ flights[w] # None
    /\ LET d == flights[w].device
       IN /\ devices[d] # None
          /\ \E id \in RecordId :
                /\ IsNextId(id, records)
                /\ Commit(CollectionApplied(d, [devices[d] EXCEPT !.conn = flights[w].conn], o, id))
    /\ flights' = [flights EXCEPT ![w] = None]

\* The second half: the result is applied to the row that has the device's id by
\* then.
FinishCollection(w, o) ==
    /\ flights[w] # None
    /\ LET d == flights[w].device
       IN /\ devices[d] # None
          /\ \E id \in RecordId :
                /\ IsNextId(id, records)
                /\ Commit(CollectionApplied(d, devices[d], o, id))
    /\ flights' = [flights EXCEPT ![w] = None]

\* A collection that leaves nothing: its device is gone by the time the result
\* arrives, or an error that is no CollectorError ends it or rolls it back.
LoseCollection(w) ==
    /\ flights[w] # None
    /\ flights' = [flights EXCEPT ![w] = None]
    /\ UNCHANGED <<groups, devices, records, alerts, closed>>

-------------------------------------------------------------------------------
(* Alerts, retention, restart *)

\* What resolve_alert writes.
AlertResolved(a) ==
    [Tables EXCEPT !.alerts = alerts \ {a}, !.closed = closed \cup {a.device}]

ResolveAlert(a) ==
    /\ a \in alerts
    /\ Commit(AlertResolved(a))
    /\ UNCHANGED flights

\* Mutant: records behind active alerts are cut like any other.
CleanedUnprotected(cutoff, expired) ==
    [Tables EXCEPT !.records = {r \in records : r.id >= cutoff}, !.closed = closed \ expired]

\* What cleanup_retention writes.  Record ids grow with collected_at, so the cutoff
\* of the history is a record id; resolved alerts are cut by the time they were
\* resolved, which the model does not keep, hence those of any set of devices.
Cleaned(cutoff, expired) ==
    LET protected == {a.record : a \in alerts}
    IN [Tables EXCEPT !.records = {r \in records : r.id \in protected \/ r.id >= cutoff},
                      !.closed = closed \ expired]

Cleanup(cutoff, expired) ==
    /\ Commit(Cleaned(cutoff, expired))
    /\ UNCHANGED flights

\* The process stops, in the middle of anything, and starts again: collections
\* under way are lost and _seed_config puts the default group back.
Restart ==
    /\ groups' = [groups EXCEPT ![Ungrouped] = IF @ = None THEN UngroupedName ELSE @]
    /\ flights' = [w \in Worker |-> None]
    /\ UNCHANGED <<devices, records, alerts, closed>>

-------------------------------------------------------------------------------

Init ==
    /\ groups = [g \in GroupId |-> IF g = Ungrouped THEN UngroupedName ELSE None]
    /\ devices = [d \in DeviceId |-> None]
    /\ records = {}
    /\ alerts = {}
    /\ closed = {}
    /\ flights = [w \in Worker |-> None]

GroupNext ==
    \E g \in GroupId :
        \/ \E name \in GroupName : CreateGroup(g, name)
        \/ \E id \in GroupId \cup {None}, name \in GroupName \cup {None} :
              UpdateGroup(g, id, name)
        \/ DeleteGroup(g)

DeviceNext ==
    \E d \in DeviceId :
        \/ \E g \in GroupId, c \in Conn, start \in CreationState : CreateDevice(d, g, c, start)
        \/ \E p \in DevicePatch : UpdateDevice(d, p)
        \/ DeleteDevice(d)

CollectionNext ==
    \E w \in Worker :
        \/ \E d \in DeviceId : StartCollection(w, d)
        \/ \E o \in Outcome : FinishCollection(w, o)
        \/ LoseCollection(w)

MaintenanceNext ==
    \/ \E a \in alerts : ResolveAlert(a)
    \/ \E cutoff \in 1 .. MaxRecordId + 1, expired \in SUBSET closed : Cleanup(cutoff, expired)
    \/ Restart

Next == GroupNext \/ DeviceNext \/ CollectionNext \/ MaintenanceNext

Spec == Init /\ [][Next]_vars

-------------------------------------------------------------------------------
(* Properties *)

\* Every row has the shape its table gives it.
TypeOK ==
    /\ groups \in [GroupId -> GroupName \cup {None}]
    /\ devices \in [DeviceId -> DeviceRow \cup {None}]
    /\ records \subseteq Record
    /\ alerts \subseteq Alert
    /\ closed \subseteq DeviceId
    /\ flights \in [Worker -> Flight \cup {None}]

\* Foreign keys never refuse a request that leaves the ids alone, whatever went
\* before: what the deletion of a group or a device, an arriving result, the
\* resolution of an alert or a cleanup is about to write always satisfies them, and
\* there is always a number for the new record.  Only a change of ids is refused.
RequestsAccepted ==
    /\ \A g \in GroupId :
          groups[g] # None /\ g # Ungrouped /\ groups[Ungrouped] # None =>
              ForeignKeysHold(GroupDeleted(g))
    /\ \A d \in DeviceId : devices[d] # None => ForeignKeysHold(DeviceDeleted(d))
    /\ \A w \in Worker, o \in Outcome :
          flights[w] # None /\ devices[flights[w].device] # None =>
              LET d == flights[w].device
              IN \E id \in 1 .. MaxRecordId + 1 :
                    /\ IsNextId(id, records)
                    /\ ForeignKeysHold(CollectionApplied(d, devices[d], o, id))
    /\ \A a \in alerts : ForeignKeysHold(AlertResolved(a))
    /\ \A cutoff \in 1 .. MaxRecordId + 1, expired \in SUBSET closed :
          ForeignKeysHold(Cleaned(cutoff, expired))

Evidence(a) == {r \in records : r.device = a.device}

\* An active alert is backed by the newest record of its device, which calls for
\* it, unless the device has no record left: alerts and history tell one story
\* across concurrent collections, manual resolution, the record cap, cleanup and
\* the reuse of record ids.
ActiveAlertsExplained ==
    \A a \in alerts :
        \/ Evidence(a) = {}
        \/ \E r \in Evidence(a) :
              /\ r.id = a.record
              /\ a.code \in r.codes
              /\ \A q \in Evidence(a) : q.id <= r.id

\* The record behind an active alert disappears only with its device, or pushed
\* out by a new record when the table is at its cap; cleanup never takes it.
EvidenceKept ==
    [][\A a \in alerts, r \in records :
          r.device = a.device /\ r.id = a.record /\ r \notin records' =>
              \/ devices'[r.device] = None
              \/ Cardinality(records) >= MaxRecords /\ records' \ records # {}]_vars

\* The late result of a collection never brings a deleted device back.
DeletedStaysDeleted ==
    [][\A d \in DeviceId :
          devices[d] = None /\ devices'[d] # None => flights' = flights]_vars

\* What requests change of a device while it is being collected stays as they left
\* it: although a collection works on a copy that is seconds old, neither its
\* result nor its loss takes away a device or touches the group or the
\* connection of any, and of the others nothing at all.
EditsOutliveCollections ==
    [][flights' # flights =>
          \A d \in DeviceId : devices[d] # None =>
              /\ devices'[d] # None
              /\ devices'[d].group = devices[d].group
              /\ devices'[d].conn = devices[d].conn
              /\ devices'[d] # devices[d] =>
                    \E w \in Worker :
                       flights[w] # None /\ flights'[w] = None /\ flights[w].device = d]_vars

\* A change of groups loses no device and changes nothing of it but its group:
\* the devices of a deleted group, and only those, end up ungrouped.
GroupChangesKeepDevices ==
    [][groups' # groups =>
          \A d \in DeviceId :
              \/ devices'[d] = devices[d]
              \/ /\ devices[d] # None
                 /\ groups'[devices[d].group] = None
                 /\ devices'[d] = [devices[d] EXCEPT !.group = Ungrouped]]_vars

ActiveCodes(d) == {a.code : a \in {b \in alerts : b.device = d}}

\* Right after a collection is applied, the device's status and its active alerts
\* agree: offline exactly with device_offline, a warning exactly with
\* collection_failed, online with threshold alerts at most; and no device is
\* verified while it is offline.
StatusMatchesAlerts ==
    [][\A w \in Worker, d \in DeviceId :
          flights[w] # None /\ flights'[w] = None /\ records' # records /\ flights[w].device = d =>
              /\ devices'[d].status = "offline" <=> ActiveCodes(d)' = {"device_offline"}
              /\ devices'[d].status = "warning" <=> ActiveCodes(d)' = {"collection_failed"}
              /\ devices'[d].status = "online" <=> ActiveCodes(d)' \subseteq ThresholdCode
              /\ devices'[d].status = "offline" => ~devices'[d].verified]_vars

\* The default group is there: devices created without a group and the devices of
\* deleted groups need it.  Refuted: PATCH may give it another id.
UngroupedExists == groups[Ungrouped] # None

\* The alert table implements the board of AlertBoard.
Board == INSTANCE AlertBoard
           WITH Device <- DeviceId,
                open <- [d \in DeviceId |-> ActiveCodes(d)]

ImplementsBoard == Board!Spec

===============================================================================

-------------------------- MODULE Monitoring_proofs ---------------------------
(***************************************************************************)
(* Proofs about Monitoring, for every number of groups, devices, workers   *)
(* and records.                                                            *)
(***************************************************************************)
EXTENDS Monitoring, NumberedRows_proofs, FiniteSetTheorems, TLAPS

-------------------------------------------------------------------------------
(* What the operators on rows return *)

LEMMA ObservedType ==
    ASSUME NEW row \in DeviceRow, NEW o \in Outcome
    PROVE  Observed(row, o) \in DeviceRow
BY DEF DeviceRow, Outcome, Observed, Status

LEMMA CodesType ==
    ASSUME NEW o \in Outcome
    PROVE  Codes(o) \subseteq AlertCode
BY DEF Outcome, Codes, AlertCode

LEMMA MergedType ==
    ASSUME NEW row \in DeviceRow, NEW p \in DevicePatch
    PROVE  Merged(row, p) \in DeviceRow
<1> p \in Patch
  BY ConstantsAssumption
<1>1. /\ Given(p.group, row.group) \in GroupId
      /\ Given(p.conn, row.conn) \in Conn
      /\ Given(p.status, row.status) \in Status
      /\ p.conn = None => Given(p.verified, row.verified) \in BOOLEAN
  BY DEF Given, Patch, DeviceRow
<1> QED BY <1>1 DEF Merged, DeviceRow, Status

LEMMA RaisedType ==
    ASSUME NEW d \in DeviceId, NEW g \in GroupId, NEW id \in RecordId,
           NEW codes \in SUBSET AlertCode
    PROVE  Raised(d, g, id, codes) \subseteq Alert
BY DEF Raised, Alert

-------------------------------------------------------------------------------
(* Type correctness *)

LEMMA TypeInit == Init => TypeOK
<1> SUFFICES ASSUME Init PROVE TypeOK
  OBVIOUS
<1> QED BY ConstantsAssumption DEF Init, TypeOK

\* A transaction that computes rows of the right shape leaves the store so.
LEMMA CommitType ==
    ASSUME NEW t, Commit(t),
           t.groups \in [GroupId -> GroupName \cup {None}],
           t.devices \in [DeviceId -> DeviceRow \cup {None}],
           t.records \in SUBSET Record, t.alerts \in SUBSET Alert, t.closed \in SUBSET DeviceId,
           flights' \in [Worker -> Flight \cup {None}]
    PROVE  TypeOK'
BY DEF TypeOK, Commit

LEMMA TypeNext == TypeOK /\ [Next]_vars => TypeOK'
<1> SUFFICES ASSUME TypeOK, [Next]_vars PROVE TypeOK'
  OBVIOUS
<1> USE ConstantsAssumption
<1>1. ASSUME NEW g \in GroupId, NEW name \in GroupName, CreateGroup(g, name)
      PROVE  TypeOK'
  BY <1>1, CommitType DEF CreateGroup, Tables, TypeOK
<1>2. ASSUME NEW g \in GroupId, NEW id \in GroupId \cup {None},
             NEW name \in GroupName \cup {None}, UpdateGroup(g, id, name)
      PROVE  TypeOK'
  <2> DEFINE i == Given(id, g)
             nm == Given(name, groups[g])
  <2>1. i \in GroupId /\ nm \in GroupName
    BY <1>2 DEF Given, UpdateGroup, TypeOK
  <2>2. PICK kept \in {nm} \cup (IF i # g THEN {groups[i]} \ {None} ELSE {}) :
          Commit([Tables EXCEPT !.groups = [groups EXCEPT ![g] = None, ![i] = kept]])
    BY <1>2 DEF UpdateGroup
  <2>3. kept \in GroupName \cup {None}
    BY <2>1, <2>2 DEF TypeOK
  <2> HIDE DEF i, nm
  <2>4. [groups EXCEPT ![g] = None, ![i] = kept] \in [GroupId -> GroupName \cup {None}]
    BY <2>1, <2>3 DEF TypeOK
  <2>5. flights' \in [Worker -> Flight \cup {None}]
    BY <1>2 DEF UpdateGroup, TypeOK
  <2> QED BY <2>2, <2>4, <2>5, CommitType DEF TypeOK, Tables
<1>3. ASSUME NEW g \in GroupId, DeleteGroup(g)
      PROVE  TypeOK'
  <2> DEFINE ds == [d \in DeviceId |->
                      IF devices[d] # None /\ devices[d].group = g
                      THEN [devices[d] EXCEPT !.group = Ungrouped]
                      ELSE devices[d]]
             as == {IF a.group = g THEN [a EXCEPT !.group = Ungrouped] ELSE a : a \in alerts}
  <2>1. ds \in [DeviceId -> DeviceRow \cup {None}]
    BY DEF TypeOK, DeviceRow
  <2>2. as \subseteq Alert
    BY DEF TypeOK, Alert
  <2>3. [groups EXCEPT ![g] = None] \in [GroupId -> GroupName \cup {None}]
    BY DEF TypeOK
  <2>4. /\ Commit([Tables EXCEPT !.groups = [groups EXCEPT ![g] = None], !.devices = ds,
                                 !.alerts = as])
        /\ flights' = flights
    BY <1>3 DEF DeleteGroup, GroupDeleted
  <2> HIDE DEF ds, as
  <2> QED BY <2>1, <2>2, <2>3, <2>4, CommitType DEF TypeOK, Tables
<1>4. ASSUME NEW d \in DeviceId, NEW g \in GroupId, NEW c \in Conn,
             NEW start \in CreationState, CreateDevice(d, g, c, start)
      PROVE  TypeOK'
  <2>1. start.status \in Status /\ start.verified \in BOOLEAN
    <3>1. CASE start = [status |-> "disabled", verified |-> FALSE]
      BY <3>1 DEF Status
    <3>2. CASE start = [status |-> "unknown", verified |-> FALSE]
      BY <3>2 DEF Status
    <3>3. CASE start = [status |-> "online", verified |-> TRUE]
      BY <3>3 DEF Status
    <3> QED BY <3>1, <3>2, <3>3 DEF CreationState
  <2>2. [group |-> g, conn |-> c, status |-> start.status, verified |-> start.verified]
            \in DeviceRow
    BY <2>1 DEF DeviceRow
  <2> QED BY <1>4, <2>2, CommitType DEF CreateDevice, TypeOK, Tables
<1>5. ASSUME NEW d \in DeviceId, NEW p \in DevicePatch, UpdateDevice(d, p)
      PROVE  TypeOK'
  <2> DEFINE i == Given(p.id, d)
             row == Merged(devices[d], p)
  <2>1. i \in DeviceId
    BY p \in Patch DEF Given, Patch
  <2>2. devices[d] \in DeviceRow
    BY <1>5 DEF UpdateDevice, TypeOK
  <2>3. row \in DeviceRow
    BY <2>2, MergedType
  <2>4. /\ flights' = flights
        /\ \E kept \in {row} \cup (IF i # d THEN {devices[i]} \ {None} ELSE {}) :
              Commit([Tables EXCEPT !.devices = [devices EXCEPT ![d] = None, ![i] = kept]])
    BY <1>5 DEF UpdateDevice
  <2> HIDE DEF i, row
  <2>5. PICK kept \in {row} \cup (IF i # d THEN {devices[i]} \ {None} ELSE {}) :
          Commit([Tables EXCEPT !.devices = [devices EXCEPT ![d] = None, ![i] = kept]])
    BY <2>4
  <2>6. kept \in DeviceRow \cup {None}
    BY <2>1, <2>3, <2>5 DEF TypeOK
  <2>7. [devices EXCEPT ![d] = None, ![i] = kept] \in [DeviceId -> DeviceRow \cup {None}]
    BY <2>1, <2>6 DEF TypeOK
  <2> QED BY <2>4, <2>5, <2>7, CommitType DEF TypeOK, Tables
<1>6. ASSUME NEW d \in DeviceId, DeleteDevice(d)
      PROVE  TypeOK'
  <2>1. Commit(DeviceDeleted(d)) /\ flights' = flights
    BY <1>6 DEF DeleteDevice
  <2>2. /\ {r \in records : r.device # d} \in SUBSET Record
        /\ {a \in alerts : a.device # d} \in SUBSET Alert
        /\ closed \ {d} \in SUBSET DeviceId
        /\ [devices EXCEPT ![d] = None] \in [DeviceId -> DeviceRow \cup {None}]
    BY DEF TypeOK
  <2> QED BY <2>1, <2>2, CommitType DEF DeviceDeleted, Tables, TypeOK
<1>7. ASSUME NEW w \in Worker, NEW d \in DeviceId, StartCollection(w, d)
      PROVE  TypeOK'
  <2> [device |-> d, conn |-> devices[d].conn] \in Flight
    BY <1>7 DEF StartCollection, TypeOK, DeviceRow, Flight
  <2> QED BY <1>7 DEF StartCollection, TypeOK
<1>8. ASSUME NEW w \in Worker, NEW o \in Outcome, FinishCollection(w, o)
      PROVE  TypeOK'
  <2> DEFINE d == flights[w].device
  <2>1. d \in DeviceId /\ devices[d] \in DeviceRow
    BY <1>8 DEF FinishCollection, TypeOK, Flight
  <2>2. PICK id \in RecordId :
          Commit(CollectionApplied(d, devices[d], o, id))
    BY <1>8 DEF FinishCollection
  <2>3. flights' \in [Worker -> Flight \cup {None}]
    BY <1>8 DEF FinishCollection, TypeOK
  <2> HIDE DEF d
  <2>4. [devices EXCEPT ![d] = Observed(devices[d], o)] \in [DeviceId -> DeviceRow \cup {None}]
    BY <2>1, ObservedType DEF TypeOK
  <2>5. Newest(records \cup {[id |-> id, device |-> d, codes |-> Codes(o)]}, MaxRecords)
            \in SUBSET Record
    BY <2>1, CodesType, NewestSubset DEF TypeOK, Record
  <2>6. Reconcile(alerts, d, devices[d].group, id, Codes(o)) \in SUBSET Alert
    BY <2>1, CodesType, RaisedType DEF TypeOK, Reconcile, DeviceRow
  <2>7. closed \cup Autoclosed(alerts, d) \in SUBSET DeviceId
    BY <2>1 DEF TypeOK, Autoclosed
  <2>8. groups \in [GroupId -> GroupName \cup {None}]
    BY DEF TypeOK
  <2> QED BY <2>2, <2>3, <2>4, <2>5, <2>6, <2>7, <2>8, CommitType
         DEF CollectionApplied, Tables
<1>9. ASSUME NEW w \in Worker, LoseCollection(w)
      PROVE  TypeOK'
  BY <1>9 DEF LoseCollection, TypeOK
<1>10. ASSUME NEW a \in alerts, ResolveAlert(a)
       PROVE  TypeOK'
  <2> a.device \in DeviceId
    BY DEF TypeOK, Alert
  <2>1. Commit(AlertResolved(a)) /\ flights' = flights
    BY <1>10 DEF ResolveAlert
  <2>2. /\ alerts \ {a} \in SUBSET Alert
        /\ closed \cup {a.device} \in SUBSET DeviceId
    BY DEF TypeOK, Alert
  <2> QED BY <2>1, <2>2, CommitType DEF AlertResolved, Tables, TypeOK
<1>11. ASSUME NEW cutoff, NEW expired, Cleanup(cutoff, expired)
       PROVE  TypeOK'
  <2> DEFINE rs == {r \in records : r.id \in {a.record : a \in alerts} \/ r.id >= cutoff}
  <2>1. /\ Commit([Tables EXCEPT !.records = rs, !.closed = closed \ expired])
        /\ flights' = flights
    BY <1>11 DEF Cleanup, Cleaned
  <2>2. rs \in SUBSET Record /\ closed \ expired \in SUBSET DeviceId
    BY DEF TypeOK
  <2> HIDE DEF rs
  <2> QED BY <2>1, <2>2, CommitType DEF TypeOK, Tables
<1>12. ASSUME Restart
       PROVE  TypeOK'
  BY <1>12 DEF Restart, TypeOK
<1>13. ASSUME UNCHANGED vars
       PROVE  TypeOK'
  BY <1>13 DEF vars, TypeOK
<1> QED
  BY <1>1, <1>2, <1>3, <1>4, <1>5, <1>6, <1>7, <1>8, <1>9, <1>10, <1>11, <1>12, <1>13
     DEF Next, GroupNext, DeviceNext, CollectionNext, MaintenanceNext

\* The tables and the collections under way always have the shape TypeOK gives them.
THEOREM TypeCorrect == Spec => []TypeOK
BY TypeInit, TypeNext, PTL DEF Spec

-------------------------------------------------------------------------------
(* What the requests leave alone *)

LEMMA GroupFrame ==
    ASSUME NEW g
    PROVE  /\ \A name : CreateGroup(g, name) => UNCHANGED <<devices, records, alerts, closed>>
           /\ \A id, name : UpdateGroup(g, id, name) => UNCHANGED <<devices, records, alerts, closed>>
           /\ DeleteGroup(g) => UNCHANGED <<records, closed>>
<1>1. ASSUME NEW name, CreateGroup(g, name) PROVE UNCHANGED <<devices, records, alerts, closed>>
  BY <1>1 DEF CreateGroup, Commit, Tables
<1>2. ASSUME NEW id, NEW name, UpdateGroup(g, id, name)
      PROVE  UNCHANGED <<devices, records, alerts, closed>>
  <2>1. PICK gs : Commit([Tables EXCEPT !.groups = gs])
    BY <1>2 DEF UpdateGroup
  <2> QED BY <2>1 DEF Commit, Tables
<1>3. ASSUME DeleteGroup(g) PROVE UNCHANGED <<records, closed>>
  BY <1>3 DEF DeleteGroup, GroupDeleted, Commit, Tables
<1> QED BY <1>1, <1>2, <1>3

LEMMA DeviceFrame ==
    ASSUME NEW d
    PROVE  /\ \A g, c, start : CreateDevice(d, g, c, start) =>
                                   UNCHANGED <<groups, records, alerts, closed>>
           /\ \A p : UpdateDevice(d, p) => UNCHANGED <<groups, records, alerts, closed>>
           /\ DeleteDevice(d) => UNCHANGED groups
<1>1. ASSUME NEW g, NEW c, NEW start, CreateDevice(d, g, c, start)
      PROVE  UNCHANGED <<groups, records, alerts, closed>>
  BY <1>1 DEF CreateDevice, Commit, Tables
<1>2. ASSUME NEW p, UpdateDevice(d, p) PROVE UNCHANGED <<groups, records, alerts, closed>>
  <2>1. PICK ds : Commit([Tables EXCEPT !.devices = ds])
    BY <1>2 DEF UpdateDevice
  <2> QED BY <2>1 DEF Commit, Tables
<1>3. ASSUME DeleteDevice(d) PROVE UNCHANGED groups
  BY <1>3 DEF DeleteDevice, DeviceDeleted, Commit, Tables
<1> QED BY <1>1, <1>2, <1>3

LEMMA CollectionFrame ==
    ASSUME NEW w
    PROVE  /\ \A d : StartCollection(w, d) => UNCHANGED <<groups, devices, records, alerts, closed>>
           /\ \A o : FinishCollection(w, o) => UNCHANGED groups
           /\ LoseCollection(w) => UNCHANGED <<groups, devices, records, alerts, closed>>
<1>1. ASSUME NEW o, FinishCollection(w, o) PROVE UNCHANGED groups
  BY <1>1 DEF FinishCollection, CollectionApplied, Commit, Tables
<1> QED BY <1>1 DEF StartCollection, LoseCollection

LEMMA MaintenanceFrame ==
    /\ \A a : ResolveAlert(a) => UNCHANGED <<groups, devices, records>>
    /\ \A cutoff, expired : Cleanup(cutoff, expired) => UNCHANGED <<groups, devices, alerts>>
    /\ Restart => UNCHANGED <<devices, records, alerts, closed>>
<1>1. ASSUME NEW a, ResolveAlert(a) PROVE UNCHANGED <<groups, devices, records>>
  BY <1>1 DEF ResolveAlert, AlertResolved, Commit, Tables
<1>2. ASSUME NEW cutoff, NEW expired, Cleanup(cutoff, expired)
      PROVE  UNCHANGED <<groups, devices, alerts>>
  BY <1>2 DEF Cleanup, Cleaned, Commit, Tables
<1> QED BY <1>1, <1>2 DEF Restart

-------------------------------------------------------------------------------
(* References *)

\* No device is in a group that does not exist, no record and no alert belongs to a
\* device that does not exist: what the store checks at each commit, for the tables as
\* they are.
ReferencesResolve ==
    /\ \A d \in DeviceId : devices[d] # None => groups[devices[d].group] # None
    /\ \A r \in records : devices[r.device] # None
    /\ \A a \in alerts : devices[a.device] # None
    /\ \A d \in closed : devices[d] # None

\* Every commit leaves the references whole, and nothing else takes a row away.
LEMMA ReferencesNext ==
    TypeOK /\ ReferencesResolve /\ [Next]_vars => ReferencesResolve'
<1> SUFFICES ASSUME TypeOK, ReferencesResolve, [Next]_vars PROVE ReferencesResolve'
  OBVIOUS
<1>1. ASSUME NEW t, Commit(t)
      PROVE  ReferencesResolve'
  BY <1>1 DEF Commit, ForeignKeysHold, ReferencesResolve
<1>2. ASSUME UNCHANGED <<groups, devices, records, alerts, closed>>
      PROVE  ReferencesResolve'
  BY <1>2 DEF ReferencesResolve
<1>3. CASE GroupNext
  BY <1>1, <1>3 DEF GroupNext, CreateGroup, UpdateGroup, DeleteGroup
<1>4. CASE DeviceNext
  BY <1>1, <1>4 DEF DeviceNext, CreateDevice, UpdateDevice, DeleteDevice
<1>5. CASE CollectionNext
  BY <1>1, <1>2, <1>5
     DEF CollectionNext, StartCollection, FinishCollection, LoseCollection
<1>6. CASE MaintenanceNext
  <2>1. ASSUME Restart PROVE ReferencesResolve'
    <3>1. \A g \in GroupId : groups[g] # None => groups'[g] # None
      BY <2>1, ConstantsAssumption, NoneAssumption DEF Restart, TypeOK
    <3>2. \A d \in DeviceId : devices[d] # None => devices[d].group \in GroupId
      BY DEF TypeOK, DeviceRow
    <3> QED BY <2>1, <3>1, <3>2 DEF Restart, ReferencesResolve
  <2> QED BY <1>1, <1>6, <2>1 DEF MaintenanceNext, ResolveAlert, Cleanup
<1>7. CASE UNCHANGED vars
  BY <1>2, <1>7 DEF vars
<1> QED BY <1>3, <1>4, <1>5, <1>6, <1>7 DEF Next

LEMMA ReferencesAlwaysResolve == Spec => []ReferencesResolve
<1>1. Init => ReferencesResolve
  BY DEF Init, ReferencesResolve
<1> QED BY <1>1, TypeCorrect, ReferencesNext, PTL DEF Spec

-------------------------------------------------------------------------------
(* Requests that keep the ids are not refused *)

LEMMA GroupDeletionAccepted ==
    ASSUME TypeOK, ReferencesResolve, NEW g \in GroupId,
           groups[g] # None, g # Ungrouped, groups[Ungrouped] # None
    PROVE  ForeignKeysHold(GroupDeleted(g))
<1> DEFINE t == GroupDeleted(g)
           Moved(a) == IF a.group = g THEN [a EXCEPT !.group = Ungrouped] ELSE a
<1>1. /\ t.groups = [groups EXCEPT ![g] = None]
      /\ t.devices = [d \in DeviceId |->
                        IF devices[d] # None /\ devices[d].group = g
                        THEN [devices[d] EXCEPT !.group = Ungrouped]
                        ELSE devices[d]]
      /\ t.records = records
      /\ t.alerts = {Moved(a) : a \in alerts}
      /\ t.closed = closed
  BY DEF GroupDeleted, Tables
<1>2. \A a \in alerts : Moved(a).device = a.device /\ a.device \in DeviceId
  BY DEF TypeOK, Alert
<1>3. \A r \in records : r.device \in DeviceId
  BY DEF TypeOK, Record
<1>4. closed \subseteq DeviceId
  BY DEF TypeOK
<1>5. ASSUME NEW d \in DeviceId, devices[d] # None
      PROVE  t.devices[d] # None /\ t.groups[t.devices[d].group] # None
  <2>1. devices[d] \in DeviceRow /\ devices[d].group \in GroupId
    BY <1>5 DEF TypeOK, DeviceRow
  <2>2. [devices[d] EXCEPT !.group = Ungrouped] \in DeviceRow
    BY <2>1, ConstantsAssumption DEF DeviceRow
  <2>3. groups[devices[d].group] # None
    BY <1>5 DEF ReferencesResolve
  <2>4. CASE devices[d].group = g
    <3>1. t.devices[d] = [devices[d] EXCEPT !.group = Ungrouped]
      BY <1>1, <1>5, <2>4
    <3>2. t.devices[d].group = Ungrouped
      BY <2>1, <3>1 DEF DeviceRow
    <3>3. t.groups[Ungrouped] = groups[Ungrouped]
      BY <1>1, ConstantsAssumption DEF TypeOK
    <3> QED BY <2>2, <3>1, <3>2, <3>3, NoneAssumption
  <2>5. CASE devices[d].group # g
    <3>1. t.devices[d] = devices[d]
      BY <1>1, <2>5
    <3>2. t.groups[devices[d].group] = groups[devices[d].group]
      BY <1>1, <2>1, <2>5 DEF TypeOK
    <3> QED BY <1>5, <2>3, <3>1, <3>2
  <2> QED BY <2>4, <2>5
<1>6. \A d \in DeviceId : devices[d] = None => t.devices[d] = None
  BY <1>1
<1> HIDE DEF t, Moved
<1>7. \A a \in t.alerts : t.devices[a.device] # None
  BY <1>1, <1>2, <1>5 DEF ReferencesResolve
<1> QED BY <1>1, <1>3, <1>4, <1>5, <1>6, <1>7 DEF ForeignKeysHold, ReferencesResolve, t

LEMMA DeviceDeletionAccepted ==
    ASSUME TypeOK, ReferencesResolve, NEW d \in DeviceId
    PROVE  ForeignKeysHold(DeviceDeleted(d))
<1> DEFINE t == DeviceDeleted(d)
<1>1. /\ t.groups = groups
      /\ t.devices = [devices EXCEPT ![d] = None]
      /\ t.records = {r \in records : r.device # d}
      /\ t.alerts = {a \in alerts : a.device # d}
      /\ t.closed = closed \ {d}
  BY DEF DeviceDeleted, Tables
<1>2. \A e \in DeviceId : t.devices[e] = IF e = d THEN None ELSE devices[e]
  BY <1>1 DEF TypeOK
<1>3. /\ \A r \in records : r.device \in DeviceId
      /\ \A a \in alerts : a.device \in DeviceId
      /\ closed \subseteq DeviceId
  BY DEF TypeOK, Record, Alert
<1> HIDE DEF t
<1> QED BY <1>1, <1>2, <1>3 DEF ForeignKeysHold, ReferencesResolve, t

\* The result of a collection of a device that is there, under any number.
LEMMA ResultAccepted ==
    ASSUME TypeOK, ReferencesResolve, NEW d \in DeviceId, devices[d] # None,
           NEW o \in Outcome, NEW id
    PROVE  ForeignKeysHold(CollectionApplied(d, devices[d], o, id))
<1> DEFINE new == [id |-> id, device |-> d, codes |-> Codes(o)]
           t == CollectionApplied(d, devices[d], o, id)
<1>1. /\ t.groups = groups
      /\ t.devices = [devices EXCEPT ![d] = Observed(devices[d], o)]
      /\ t.records \subseteq records \cup {new}
      /\ t.alerts \subseteq alerts \cup Raised(d, devices[d].group, id, Codes(o))
      /\ t.closed = closed \cup Autoclosed(alerts, d)
  BY NewestSubset DEF CollectionApplied, Tables, Reconcile
<1>2. devices[d] \in DeviceRow
  BY DEF TypeOK
<1>3. Observed(devices[d], o) \in DeviceRow /\ Observed(devices[d], o).group = devices[d].group
  BY <1>2, ObservedType DEF Observed, DeviceRow
<1>4. \A e \in DeviceId : /\ t.devices[e] = None <=> devices[e] = None
                          /\ devices[e] # None => t.devices[e].group = devices[e].group
  BY <1>1, <1>3, NoneAssumption DEF TypeOK
<1>5. /\ \A r \in t.records : r.device = d \/ r \in records
      /\ \A a \in t.alerts : a.device = d \/ a \in alerts
      /\ \A e \in t.closed : e = d \/ e \in closed
  BY <1>1 DEF Raised, Autoclosed
<1>6. /\ \A r \in records : r.device \in DeviceId
      /\ \A a \in alerts : a.device \in DeviceId
      /\ closed \subseteq DeviceId
  BY DEF TypeOK, Record, Alert
<1>7. \A e \in DeviceId : t.devices[e] # None => t.groups[t.devices[e].group] # None
  BY <1>1, <1>4 DEF ReferencesResolve
<1> HIDE DEF t, new
<1>8. /\ \A r \in t.records : t.devices[r.device] # None
      /\ \A a \in t.alerts : t.devices[a.device] # None
      /\ \A e \in t.closed : t.devices[e] # None
  BY <1>4, <1>5, <1>6 DEF ReferencesResolve
<1> QED BY <1>7, <1>8 DEF ForeignKeysHold, t

\* Whatever renames, moves, late results and cleanups went before, foreign keys
\* refuse no deletion, no result, no resolution and no cleanup.
THEOREM RequestsAlwaysAccepted == Spec => []RequestsAccepted
<1>1. ASSUME TypeOK, ReferencesResolve PROVE RequestsAccepted
  <2> USE <1>1
  <2>1. ASSUME NEW w \in Worker, NEW o \in Outcome,
               flights[w] # None, devices[flights[w].device] # None
        PROVE  \E id \in 1 .. MaxRecordId + 1 :
                  /\ IsNextId(id, records)
                  /\ ForeignKeysHold(CollectionApplied(flights[w].device,
                                                       devices[flights[w].device], o, id))
    <3>1. flights[w].device \in DeviceId
      BY <2>1 DEF TypeOK, Flight
    <3>2. PICK id \in 1 .. MaxRecordId + 1 : IsNextId(id, records)
      BY NextIdExists, ConstantsAssumption DEF TypeOK, Record, RecordId
    <3> QED BY <2>1, <3>1, <3>2, ResultAccepted
  <2>2. ASSUME NEW a \in alerts PROVE ForeignKeysHold(AlertResolved(a))
    BY DEF ForeignKeysHold, AlertResolved, Tables, ReferencesResolve
  <2>3. ASSUME NEW cutoff, NEW expired PROVE ForeignKeysHold(Cleaned(cutoff, expired))
    BY DEF ForeignKeysHold, Cleaned, Tables, ReferencesResolve
  <2> QED BY <2>1, <2>2, <2>3, GroupDeletionAccepted, DeviceDeletionAccepted DEF RequestsAccepted
<1> QED BY <1>1, TypeCorrect, ReferencesAlwaysResolve, PTL

-------------------------------------------------------------------------------
(* Alerts and their records *)

\* The inductive invariant behind ActiveAlertsExplained: that the table is finite
\* is what makes its cap drop the oldest rows.
Consistent ==
    /\ TypeOK
    /\ IsFiniteSet(records)
    /\ ActiveAlertsExplained

\* An alert's evidence is unaffected as long as no record of its device comes or
\* goes.
LEMMA SameEvidence ==
    ASSUME ActiveAlertsExplained,
           \A a \in alerts' : \E b \in alerts :
              /\ a.device = b.device /\ a.code = b.code /\ a.record = b.record
              /\ Evidence(a)' = Evidence(b)
    PROVE  ActiveAlertsExplained'
<1> SUFFICES ASSUME NEW a \in alerts', Evidence(a)' # {}
             PROVE  \E r \in Evidence(a)' :
                       /\ r.id = a.record
                       /\ a.code \in r.codes
                       /\ \A q \in Evidence(a)' : q.id <= r.id
  BY DEF ActiveAlertsExplained
<1>1. PICK b \in alerts : /\ a.code = b.code /\ a.record = b.record
                          /\ Evidence(a)' = Evidence(b)
  OBVIOUS
<1> QED BY <1>1 DEF ActiveAlertsExplained

\* A collection of d: the new record is the newest of all, the other devices keep
\* the newest record they have if they keep any.
LEMMA FinishExplained ==
    ASSUME Consistent, NEW w \in Worker, NEW o \in Outcome, FinishCollection(w, o)
    PROVE  IsFiniteSet(records') /\ ActiveAlertsExplained'
<1> DEFINE d == flights[w].device
<1>1. PICK id \in RecordId :
        /\ IsNextId(id, records)
        /\ records' = Newest(records \cup {[id |-> id, device |-> d, codes |-> Codes(o)]},
                             MaxRecords)
        /\ alerts' = Reconcile(alerts, d, devices[d].group, id, Codes(o))
  BY DEF FinishCollection, CollectionApplied, Commit, Tables
<1> DEFINE new == [id |-> id, device |-> d, codes |-> Codes(o)]
           all == records \cup {new}
<1>2. IsFiniteSet(all)
  BY FS_AddElement DEF Consistent
<1>3. \A y \in all : y.id \in Nat
  BY DEF Consistent, TypeOK, Record, RecordId
<1>4. \A y \in all : y.id <= new.id
  <2>1. new.id = id /\ id \in Nat
    BY DEF RecordId
  <2>2. ASSUME NEW y \in records PROVE y.id <= id
    <3>1. y.id < id
      BY <1>1 DEF IsNextId
    <3> QED BY <1>3, <2>1, <3>1
  <2> QED BY <2>1, <2>2
<1>5. records' = Newest(all, MaxRecords)
  BY <1>1
<1>6. MaxRecords \in Nat \ {0}
  BY ConstantsAssumption
<1> HIDE DEF all
<1>7. new \in all
  BY DEF all
<1>8. new \in records'
  BY <1>3, <1>4, <1>5, <1>6, <1>7, NewestKeepsTop
<1>9. records' \subseteq all
  BY <1>5, NewestSubset
<1>10. IsFiniteSet(records')
  BY <1>2, <1>9, FS_Subset
<1>11. ASSUME NEW a \in alerts', Evidence(a)' # {}
       PROVE  \E r \in Evidence(a)' :
                 /\ r.id = a.record
                 /\ a.code \in r.codes
                 /\ \A q \in Evidence(a)' : q.id <= r.id
  <2>1. CASE a \in Raised(d, devices[d].group, id, Codes(o))
    <3>1. a.device = d /\ a.record = id /\ a.code \in Codes(o)
      BY <2>1 DEF Raised
    <3>2. new \in Evidence(a)'
      BY <1>8, <3>1 DEF Evidence
    <3>3. \A q \in Evidence(a)' : q.id <= new.id
      BY <1>4, <1>9 DEF Evidence
    <3> QED BY <3>1, <3>2, <3>3
  <2>2. CASE a \in alerts /\ a.device # d
    <3>1. Evidence(a)' \subseteq Evidence(a)
      BY <1>9, <2>2 DEF Evidence, all
    <3>2. PICK r \in Evidence(a) : /\ r.id = a.record
                                   /\ a.code \in r.codes
                                   /\ \A q \in Evidence(a) : q.id <= r.id
      BY <1>11, <2>2, <3>1 DEF Consistent, ActiveAlertsExplained
    <3>3. PICK q : q \in Evidence(a)'
      BY <1>11
    <3>4. q \in Newest(all, MaxRecords) /\ q.id <= r.id /\ r \in all
      BY <1>5, <3>1, <3>2, <3>3 DEF Evidence, all
    <3>5. r \in records'
      BY <1>2, <1>3, <1>5, <1>6, <3>4, NewestUpClosed
    <3>6. r \in Evidence(a)'
      BY <3>2, <3>5 DEF Evidence
    <3> QED BY <3>1, <3>2, <3>6
  <2> QED BY <1>1, <2>1, <2>2 DEF Reconcile
<1> QED BY <1>10, <1>11 DEF ActiveAlertsExplained

LEMMA ConsistentNext == Consistent /\ [Next]_vars => Consistent'
<1> SUFFICES ASSUME Consistent, [Next]_vars
             PROVE  IsFiniteSet(records') /\ ActiveAlertsExplained'
  BY TypeNext DEF Consistent
<1> USE DEF Consistent
<1>1. ASSUME UNCHANGED <<records, alerts>>
      PROVE  IsFiniteSet(records') /\ ActiveAlertsExplained'
  BY <1>1 DEF ActiveAlertsExplained, Evidence
<1>2. CASE GroupNext
  <2>1. ASSUME NEW g \in GroupId, DeleteGroup(g)
        PROVE  IsFiniteSet(records') /\ ActiveAlertsExplained'
    <3> DEFINE Moved(b) == IF b.group = g THEN [b EXCEPT !.group = Ungrouped] ELSE b
    <3>1. records' = records /\ alerts' = {Moved(b) : b \in alerts}
      BY <2>1 DEF DeleteGroup, GroupDeleted, Commit, Tables
    <3>2. \A b \in alerts : /\ Moved(b).device = b.device
                            /\ Moved(b).code = b.code
                            /\ Moved(b).record = b.record
      BY DEF TypeOK, Alert
    <3> HIDE DEF Moved
    <3>3. \A a \in alerts' : \E b \in alerts :
            /\ a.device = b.device /\ a.code = b.code /\ a.record = b.record
            /\ Evidence(a)' = Evidence(b)
      BY <3>1, <3>2 DEF Evidence
    <3> QED BY <3>1, <3>3, SameEvidence
  <2> QED BY <1>1, <1>2, <2>1, GroupFrame DEF GroupNext
<1>3. CASE DeviceNext
  <2>1. ASSUME NEW d \in DeviceId, DeleteDevice(d)
        PROVE  IsFiniteSet(records') /\ ActiveAlertsExplained'
    <3>1. /\ records' = {r \in records : r.device # d}
          /\ alerts' = {a \in alerts : a.device # d}
      BY <2>1 DEF DeleteDevice, DeviceDeleted, Commit, Tables
    <3>2. IsFiniteSet(records')
      BY <3>1, FS_Subset, records' \subseteq records
    <3>3. \A a \in alerts' : a \in alerts /\ Evidence(a)' = Evidence(a)
      BY <3>1 DEF Evidence
    <3> QED BY <3>2, <3>3, SameEvidence
  <2> QED BY <1>1, <1>3, <2>1, DeviceFrame DEF DeviceNext
<1>4. CASE CollectionNext
  BY <1>1, <1>4, FinishExplained DEF CollectionNext, StartCollection, LoseCollection
<1>5. CASE MaintenanceNext
  <2>1. ASSUME NEW a \in alerts, ResolveAlert(a)
        PROVE  IsFiniteSet(records') /\ ActiveAlertsExplained'
    BY <2>1, SameEvidence DEF ResolveAlert, AlertResolved, Commit, Tables, Evidence
  <2>2. ASSUME NEW cutoff, NEW expired, Cleanup(cutoff, expired)
        PROVE  IsFiniteSet(records') /\ ActiveAlertsExplained'
    <3>1. /\ records' = {r \in records : r.id \in {a.record : a \in alerts} \/ r.id >= cutoff}
          /\ alerts' = alerts
      BY <2>2 DEF Cleanup, Cleaned, Commit, Tables
    <3>2. IsFiniteSet(records')
      BY <3>1, FS_Subset, records' \subseteq records
    <3>3. ASSUME NEW a \in alerts, Evidence(a)' # {}
          PROVE  \E r \in Evidence(a)' :
                    /\ r.id = a.record
                    /\ a.code \in r.codes
                    /\ \A q \in Evidence(a)' : q.id <= r.id
      <4>1. Evidence(a)' \subseteq Evidence(a)
        BY <3>1 DEF Evidence
      <4>2. PICK r \in Evidence(a) : /\ r.id = a.record
                                     /\ a.code \in r.codes
                                     /\ \A q \in Evidence(a) : q.id <= r.id
        BY <3>3, <4>1 DEF ActiveAlertsExplained
      <4>3. r \in Evidence(a)'
        BY <3>1, <4>2 DEF Evidence
      <4> QED BY <4>1, <4>2, <4>3
    <3> QED BY <3>1, <3>2, <3>3 DEF ActiveAlertsExplained
  <2> QED BY <1>1, <1>5, <2>1, <2>2 DEF MaintenanceNext, Restart
<1>6. CASE UNCHANGED vars
  BY <1>1, <1>6 DEF vars
<1> QED BY <1>2, <1>3, <1>4, <1>5, <1>6 DEF Next

LEMMA ConsistentAlways == Spec => []Consistent
<1>1. Init => Consistent
  BY TypeInit, FS_EmptySet DEF Init, Consistent, ActiveAlertsExplained
<1> QED BY <1>1, ConsistentNext, PTL DEF Spec

\* Every active alert is backed by the newest record of its device, or the device
\* has no record at all.
THEOREM AlertsAlwaysExplained == Spec => []ActiveAlertsExplained
BY ConsistentAlways, PTL DEF Consistent

-------------------------------------------------------------------------------
(* What a step never does *)

\* A result that arrives after its device was deleted is thrown away.
THEOREM ResultsNeverRevive == Spec => DeletedStaysDeleted
<1> DEFINE A == \A d \in DeviceId : devices[d] = None /\ devices'[d] # None => flights' = flights
<1>1. ASSUME TypeOK, [Next]_vars PROVE A
  <2>1. ASSUME UNCHANGED flights PROVE A
    BY <2>1
  <2>2. ASSUME UNCHANGED devices PROVE A
    BY <2>2
  <2>3. CASE GroupNext
    BY <2>1, <2>3 DEF GroupNext, CreateGroup, UpdateGroup, DeleteGroup
  <2>4. CASE DeviceNext
    BY <2>1, <2>4 DEF DeviceNext, CreateDevice, UpdateDevice, DeleteDevice
  <2>5. CASE CollectionNext
    <3>1. ASSUME NEW w \in Worker, NEW o \in Outcome, FinishCollection(w, o) PROVE A
      <4>1. /\ devices' = [devices EXCEPT ![flights[w].device] = Observed(@, o)]
            /\ devices[flights[w].device] # None
        BY <3>1 DEF FinishCollection, CollectionApplied, Commit, Tables
      <4> QED BY <1>1, <4>1 DEF TypeOK
    <3> QED BY <2>2, <2>5, <3>1 DEF CollectionNext, StartCollection, LoseCollection
  <2>6. CASE MaintenanceNext
    BY <2>1, <2>2, <2>6, MaintenanceFrame DEF MaintenanceNext
  <2>7. CASE UNCHANGED vars
    BY <2>1, <2>7 DEF vars
  <2> QED BY <1>1, <2>3, <2>4, <2>5, <2>6, <2>7 DEF Next
<1> QED BY <1>1, TypeCorrect, PTL DEF Spec, DeletedStaysDeleted

\* A result writes the row that is there when it arrives, and of it only the status and
\* whether it is verified.
THEOREM EditsAlwaysOutlive == Spec => EditsOutliveCollections
<1> DEFINE A == flights' # flights =>
                  \A d \in DeviceId : devices[d] # None =>
                      /\ devices'[d] # None
                      /\ devices'[d].group = devices[d].group
                      /\ devices'[d].conn = devices[d].conn
                      /\ devices'[d] # devices[d] =>
                            \E w \in Worker :
                               flights[w] # None /\ flights'[w] = None /\ flights[w].device = d
<1>1. ASSUME TypeOK, [Next]_vars PROVE A
  <2>1. ASSUME UNCHANGED flights PROVE A
    BY <2>1
  <2>2. ASSUME UNCHANGED devices PROVE A
    BY <2>2
  <2>3. CASE GroupNext
    BY <2>1, <2>3 DEF GroupNext, CreateGroup, UpdateGroup, DeleteGroup
  <2>4. CASE DeviceNext
    BY <2>1, <2>4 DEF DeviceNext, CreateDevice, UpdateDevice, DeleteDevice
  <2>5. CASE CollectionNext
    <3>1. ASSUME NEW w \in Worker, NEW o \in Outcome, FinishCollection(w, o) PROVE A
      <4> DEFINE e == flights[w].device
      <4>1. /\ devices' = [devices EXCEPT ![e] = Observed(@, o)]
            /\ flights[w] # None /\ flights' = [flights EXCEPT ![w] = None]
            /\ devices[e] # None /\ e \in DeviceId
        BY <1>1, <3>1 DEF FinishCollection, CollectionApplied, Commit, Tables, TypeOK, Flight
      <4>2. devices[e] \in DeviceRow
        BY <1>1, <4>1 DEF TypeOK
      <4>3. /\ Observed(devices[e], o) \in DeviceRow
            /\ Observed(devices[e], o).group = devices[e].group
            /\ Observed(devices[e], o).conn = devices[e].conn
        BY <4>2, ObservedType DEF Observed, DeviceRow
      <4>4. flights'[w] = None
        BY <1>1, <4>1 DEF TypeOK
      <4>5. devices'[e] = Observed(devices[e], o) /\ \A d \in DeviceId \ {e} : devices'[d] = devices[d]
        BY <1>1, <4>1 DEF TypeOK
      <4> HIDE DEF e
      <4>6. devices'[e] # None
        BY <4>3, <4>5, NoneAssumption
      <4> QED BY <4>1, <4>3, <4>4, <4>5, <4>6 DEF e
    <3> QED BY <2>2, <2>5, <3>1 DEF CollectionNext, StartCollection, LoseCollection
  <2>6. CASE MaintenanceNext
    BY <2>1, <2>2, <2>6, MaintenanceFrame DEF MaintenanceNext
  <2>7. CASE UNCHANGED vars
    BY <2>1, <2>7 DEF vars
  <2> QED BY <1>1, <2>3, <2>4, <2>5, <2>6, <2>7 DEF Next
<1> QED BY <1>1, TypeCorrect, PTL DEF Spec, EditsOutliveCollections

\* Groups come and go without taking a device along.
THEOREM GroupsNeverTakeDevices == Spec => GroupChangesKeepDevices
<1> DEFINE A == groups' # groups =>
                  \A d \in DeviceId :
                      \/ devices'[d] = devices[d]
                      \/ /\ devices[d] # None
                         /\ groups'[devices[d].group] = None
                         /\ devices'[d] = [devices[d] EXCEPT !.group = Ungrouped]
<1>1. ASSUME TypeOK, [Next]_vars PROVE A
  <2>1. ASSUME UNCHANGED devices \/ UNCHANGED groups PROVE A
    BY <2>1
  <2>2. CASE GroupNext
    <3>1. ASSUME NEW g \in GroupId, DeleteGroup(g) PROVE A
      <4>1. groups'[g] = None
        BY <1>1, <3>1 DEF DeleteGroup, GroupDeleted, Commit, Tables, TypeOK
      <4>2. \A d \in DeviceId :
              devices'[d] = IF devices[d] # None /\ devices[d].group = g
                            THEN [devices[d] EXCEPT !.group = Ungrouped]
                            ELSE devices[d]
        BY <3>1 DEF DeleteGroup, GroupDeleted, Commit, Tables
      <4> QED BY <4>1, <4>2
    <3> QED BY <2>1, <2>2, <3>1, GroupFrame DEF GroupNext
  <2>3. CASE DeviceNext
    BY <2>1, <2>3, DeviceFrame DEF DeviceNext
  <2>4. CASE CollectionNext
    BY <2>1, <2>4, CollectionFrame DEF CollectionNext
  <2>5. CASE MaintenanceNext
    BY <2>1, <2>5, MaintenanceFrame DEF MaintenanceNext
  <2>6. CASE UNCHANGED vars
    BY <2>1, <2>6 DEF vars
  <2> QED BY <1>1, <2>2, <2>3, <2>4, <2>5, <2>6 DEF Next
<1> QED BY <1>1, TypeCorrect, PTL DEF Spec, GroupChangesKeepDevices

\* The record behind an active alert goes with its device or for a newer record at
\* the cap, never by cleanup.
THEOREM EvidenceAlwaysKept == Spec => EvidenceKept
<1> DEFINE A == \A a \in alerts, r \in records :
                  r.device = a.device /\ r.id = a.record /\ r \notin records' =>
                      \/ devices'[r.device] = None
                      \/ Cardinality(records) >= MaxRecords /\ records' \ records # {}
<1>1. ASSUME Consistent, [Next]_vars PROVE A
  <2> USE DEF Consistent
  <2>1. ASSUME UNCHANGED records PROVE A
    BY <2>1
  <2>2. CASE GroupNext
    BY <2>1, <2>2, GroupFrame DEF GroupNext
  <2>3. CASE DeviceNext
    <3>1. ASSUME NEW d \in DeviceId, DeleteDevice(d) PROVE A
      <4>1. /\ records' = {r \in records : r.device # d}
            /\ devices' = [devices EXCEPT ![d] = None]
        BY <3>1 DEF DeleteDevice, DeviceDeleted, Commit, Tables
      <4> QED BY <1>1, <4>1 DEF TypeOK
    <3> QED BY <2>1, <2>3, <3>1, DeviceFrame DEF DeviceNext
  <2>4. CASE CollectionNext
    <3>1. ASSUME NEW w \in Worker, NEW o \in Outcome, FinishCollection(w, o),
                 NEW r \in records, r \notin records'
          PROVE  Cardinality(records) >= MaxRecords /\ records' \ records # {}
      <4> DEFINE d == flights[w].device
      <4>1. PICK id \in RecordId :
              /\ IsNextId(id, records)
              /\ records' = Newest(records \cup {[id |-> id, device |-> d,
                                                  codes |-> Codes(o)]}, MaxRecords)
        BY <3>1 DEF FinishCollection, CollectionApplied, Commit, Tables
      <4> DEFINE new == [id |-> id, device |-> d, codes |-> Codes(o)]
                 all == records \cup {new}
      <4>2. IsFiniteSet(all) /\ \A y \in all : y.id \in Nat
        BY <1>1, FS_AddElement DEF TypeOK, Record, RecordId
      <4>3. new.id = id /\ id \in Nat
        BY DEF RecordId
      <4>4. \A y \in records : y.id < id /\ y.id \in Nat
        BY <4>1, <4>2 DEF IsNextId
      <4>5. MaxRecords \in Nat \ {0}
        BY ConstantsAssumption
      <4>6. new \in records'
        <5>1. \A y \in all : y.id <= new.id
          BY <4>3, <4>4
        <5>2. new \in all
          OBVIOUS
        <5> HIDE DEF all
        <5> QED BY <4>1, <4>2, <4>5, <5>1, <5>2, NewestKeepsTop DEF all
      <4>7. new \notin records
        <5> SUFFICES ASSUME new \in records PROVE FALSE
          OBVIOUS
        <5>1. new.id < id
          BY <4>4
        <5> QED BY <4>3, <5>1
      <4>8. Cardinality(records) >= MaxRecords
        <5>1. IsFiniteSet(records)
          BY <1>1
        <5> HIDE DEF new
        <5> QED BY <3>1, <4>1, <4>3, <4>4, <4>5, <4>7, <5>1, NewestDropsOldest DEF new
      <4> QED BY <4>6, <4>7, <4>8
    <3> QED BY <2>1, <2>4, <3>1 DEF CollectionNext, StartCollection, LoseCollection
  <2>5. CASE MaintenanceNext
    <3>1. ASSUME NEW cutoff, NEW expired, Cleanup(cutoff, expired) PROVE A
      <4>1. records' = {r \in records : r.id \in {a.record : a \in alerts} \/ r.id >= cutoff}
        BY <3>1 DEF Cleanup, Cleaned, Commit, Tables
      <4> QED BY <4>1
    <3> QED BY <2>1, <2>5, <3>1, MaintenanceFrame DEF MaintenanceNext
  <2>6. CASE UNCHANGED vars
    BY <2>1, <2>6 DEF vars
  <2> QED BY <1>1, <2>2, <2>3, <2>4, <2>5, <2>6 DEF Next
<1> QED BY <1>1, ConsistentAlways, PTL DEF Spec, EvidenceKept

-------------------------------------------------------------------------------
(* One verdict per collection *)

\* A collection leaves exactly its own codes open on its device and touches no
\* other device's alerts.
LEMMA FinishCodes ==
    ASSUME TypeOK, NEW w \in Worker, NEW o \in Outcome, FinishCollection(w, o)
    PROVE  /\ flights[w].device \in DeviceId
           /\ devices[flights[w].device] # None
           /\ devices' = [devices EXCEPT ![flights[w].device] = Observed(@, o)]
           /\ \A d \in DeviceId :
                ActiveCodes(d)' = IF d = flights[w].device THEN Codes(o) ELSE ActiveCodes(d)
<1> DEFINE f == flights[w].device
<1>1. f \in DeviceId /\ devices[f] # None
  BY DEF FinishCollection, TypeOK, Flight
<1>2. PICK id \in RecordId :
        /\ devices' = [devices EXCEPT ![f] = Observed(@, o)]
        /\ alerts' = Reconcile(alerts, f, devices[f].group, id, Codes(o))
  BY DEF FinishCollection, CollectionApplied, Commit, Tables
<1> DEFINE g == devices[f].group
<1>3. alerts' = {a \in alerts : a.device # f} \cup Raised(f, g, id, Codes(o))
  BY <1>2 DEF Reconcile
<1>4. \A a \in Raised(f, g, id, Codes(o)) : a.device = f /\ a.code \in Codes(o)
  BY DEF Raised
<1>5. \A c \in Codes(o) : \E a \in Raised(f, g, id, Codes(o)) : a.device = f /\ a.code = c
  <2> TAKE c \in Codes(o)
  <2> DEFINE a == [device |-> f, code |-> c, group |-> g, record |-> id]
  <2>1. a \in Raised(f, g, id, Codes(o))
    BY DEF Raised
  <2>2. a.device = f /\ a.code = c
    OBVIOUS
  <2> QED BY <2>1, <2>2
<1> HIDE DEF f, g
<1>6. ASSUME NEW d \in DeviceId
      PROVE  ActiveCodes(d)' = IF d = f THEN Codes(o) ELSE ActiveCodes(d)
  <2>1. CASE d = f
    BY <1>3, <1>4, <1>5, <2>1 DEF ActiveCodes
  <2>2. CASE d # f
    BY <1>3, <1>4, <2>2 DEF ActiveCodes
  <2> QED BY <2>1, <2>2
<1> QED BY <1>1, <1>2, <1>6 DEF f

\* The status a collection stores and the alerts it leaves open say the same.
THEOREM StatusAlwaysMatches == Spec => StatusMatchesAlerts
<1> DEFINE A == \A w \in Worker, d \in DeviceId :
                  flights[w] # None /\ flights'[w] = None /\ records' # records
                     /\ flights[w].device = d =>
                      /\ devices'[d].status = "offline" <=> ActiveCodes(d)' = {"device_offline"}
                      /\ devices'[d].status = "warning" <=> ActiveCodes(d)' = {"collection_failed"}
                      /\ devices'[d].status = "online" <=> ActiveCodes(d)' \subseteq ThresholdCode
                      /\ devices'[d].status = "offline" => ~devices'[d].verified
<1>1. ASSUME TypeOK, [Next]_vars PROVE A
  <2>1. ASSUME UNCHANGED flights \/ UNCHANGED records PROVE A
    BY <2>1
  <2>2. CASE CollectionNext
    <3>1. ASSUME NEW w \in Worker, NEW o \in Outcome, FinishCollection(w, o) PROVE A
      <4> SUFFICES ASSUME NEW v \in Worker, NEW d \in DeviceId,
                          flights[v] # None, flights'[v] = None, flights[v].device = d
                   PROVE
                      /\ devices'[d].status = "offline" <=> ActiveCodes(d)' = {"device_offline"}
                      /\ devices'[d].status = "warning" <=> ActiveCodes(d)' = {"collection_failed"}
                      /\ devices'[d].status = "online" <=> ActiveCodes(d)' \subseteq ThresholdCode
                      /\ devices'[d].status = "offline" => ~devices'[d].verified
        OBVIOUS
      <4> DEFINE row == Observed(devices[d], o)
      <4>1. v = w
        BY <1>1, <3>1 DEF FinishCollection, TypeOK
      <4>2. /\ d \in DeviceId
            /\ devices[d] \in DeviceRow
            /\ devices'[d] = row
            /\ ActiveCodes(d)' = Codes(o)
        BY <1>1, <3>1, <4>1, FinishCodes DEF TypeOK
      <4>3. /\ row.status = IF o.status = "critical" THEN "offline"
                            ELSE IF o.status = "warning" THEN "warning" ELSE "online"
            /\ Codes(o) = IF o.status = "critical" THEN {"device_offline"}
                          ELSE IF o.status = "warning" THEN {"collection_failed"} ELSE o.checks
            /\ o.checks \subseteq ThresholdCode
            /\ o.status \in {"healthy", "warning", "critical"}
        BY <4>2 DEF Outcome, Observed, Codes, DeviceRow
      <4>4. o.status = "critical" => row.verified = FALSE
        BY <4>2 DEF Outcome, Observed, DeviceRow
      <4>5. /\ "device_offline" \notin ThresholdCode
            /\ "collection_failed" \notin ThresholdCode
        BY ConstantsAssumption
      <4> HIDE DEF row
      <4>6. CASE o.status = "critical"
        BY <4>2, <4>3, <4>4, <4>5, <4>6
      <4>7. CASE o.status = "warning"
        BY <4>2, <4>3, <4>5, <4>7
      <4>8. CASE o.status = "healthy"
        BY <4>2, <4>3, <4>5, <4>8
      <4> QED BY <4>3, <4>6, <4>7, <4>8
    <3>2. ASSUME NEW w \in Worker, NEW e \in DeviceId, StartCollection(w, e) PROVE A
      BY <2>1, <3>2 DEF StartCollection
    <3> QED BY <2>1, <2>2, <3>1, <3>2 DEF CollectionNext, LoseCollection
  <2>3. CASE GroupNext
    BY <2>1, <2>3 DEF GroupNext, CreateGroup, UpdateGroup, DeleteGroup
  <2>4. CASE DeviceNext
    BY <2>1, <2>4 DEF DeviceNext, CreateDevice, UpdateDevice, DeleteDevice
  <2>5. CASE MaintenanceNext
    BY <2>1, <2>5 DEF MaintenanceNext, ResolveAlert, Cleanup, Restart
  <2>6. CASE UNCHANGED vars
    BY <2>1, <2>6 DEF vars
  <2> QED BY <1>1, <2>2, <2>3, <2>4, <2>5, <2>6 DEF Next
<1> QED BY <1>1, TypeCorrect, PTL DEF Spec, StatusMatchesAlerts

-------------------------------------------------------------------------------
(* Refinement of AlertBoard *)

\* The abstract board, as Monitoring shows it.
open == [d \in DeviceId |-> ActiveCodes(d)]

LEMMA BoardInit == Init => Board!Init
BY DEF Init, Board!Init, ActiveCodes

\* Steps that keep the alerts, or only change the group shown on them, keep the
\* board; a collection and the deletion of a device report a verdict; an operator
\* resolves one code.
LEMMA BoardNext == TypeOK /\ [Next]_vars => [Board!Next]_open
<1> SUFFICES ASSUME TypeOK, [Next]_vars PROVE Board!Next \/ open' = open
  BY DEF open
<1>1. ASSUME \A d \in DeviceId : ActiveCodes(d)' = ActiveCodes(d) PROVE open' = open
  BY <1>1 DEF open
<1>2. ASSUME UNCHANGED alerts PROVE open' = open
  BY <1>1, <1>2 DEF ActiveCodes
<1>3. ASSUME NEW f \in DeviceId, NEW codes \in Board!Verdict,
             \A d \in DeviceId : ActiveCodes(d)' = IF d = f THEN codes ELSE ActiveCodes(d)
      PROVE  Board!Next
  <2>1. open' = [open EXCEPT ![f] = codes]
    BY <1>3 DEF open
  <2> QED BY <2>1 DEF Board!Next, Board!Report, open
<1>4. CASE GroupNext
  <2>1. ASSUME NEW g \in GroupId, DeleteGroup(g) PROVE open' = open
    <3> DEFINE Moved(b) == IF b.group = g THEN [b EXCEPT !.group = Ungrouped] ELSE b
    <3>1. alerts' = {Moved(b) : b \in alerts}
      BY <2>1 DEF DeleteGroup, GroupDeleted, Commit, Tables
    <3>2. \A b \in alerts : Moved(b).device = b.device /\ Moved(b).code = b.code
      BY DEF TypeOK, Alert
    <3> HIDE DEF Moved
    <3>3. \A d \in DeviceId : ActiveCodes(d)' = ActiveCodes(d)
      BY <3>1, <3>2 DEF ActiveCodes
    <3> QED BY <1>1, <3>3
  <2> QED BY <1>2, <1>4, <2>1, GroupFrame DEF GroupNext
<1>5. CASE DeviceNext
  <2>1. ASSUME NEW f \in DeviceId, DeleteDevice(f) PROVE Board!Next
    <3>1. alerts' = {a \in alerts : a.device # f}
      BY <2>1 DEF DeleteDevice, DeviceDeleted, Commit, Tables
    <3>2. \A d \in DeviceId : ActiveCodes(d)' = IF d = f THEN {} ELSE ActiveCodes(d)
      BY <3>1 DEF ActiveCodes
    <3>3. {} \in Board!Verdict
      BY DEF Board!Verdict
    <3> QED BY <1>3, <3>2, <3>3
  <2> QED BY <1>2, <1>5, <2>1, DeviceFrame DEF DeviceNext
<1>6. CASE CollectionNext
  <2>1. ASSUME NEW w \in Worker, NEW o \in Outcome, FinishCollection(w, o) PROVE Board!Next
    <3>1. Codes(o) \in Board!Verdict
      <4>1. \/ Codes(o) \in SUBSET ThresholdCode
            \/ Codes(o) = {"device_offline"}
            \/ Codes(o) = {"collection_failed"}
        BY DEF Codes, Outcome
      <4> QED BY <4>1 DEF Board!Verdict
    <3> QED BY <1>3, <2>1, <3>1, FinishCodes
  <2> QED BY <1>2, <1>6, <2>1 DEF CollectionNext, StartCollection, LoseCollection
<1>7. CASE MaintenanceNext
  <2>1. ASSUME NEW a \in alerts, ResolveAlert(a) PROVE Board!Next \/ open' = open
    <3>1. alerts' = alerts \ {a} /\ a.device \in DeviceId
      BY <2>1 DEF ResolveAlert, AlertResolved, Commit, Tables, TypeOK, Alert
    <3>2. CASE \E b \in alerts \ {a} : b.device = a.device /\ b.code = a.code
      <4>1. \A d \in DeviceId : ActiveCodes(d)' = ActiveCodes(d)
        BY <3>1, <3>2 DEF ActiveCodes
      <4> QED BY <1>1, <4>1
    <3>3. CASE ~\E b \in alerts \ {a} : b.device = a.device /\ b.code = a.code
      <4>1. \A d \in DeviceId :
              ActiveCodes(d)' = IF d = a.device THEN ActiveCodes(d) \ {a.code}
                                ELSE ActiveCodes(d)
        BY <3>1, <3>3 DEF ActiveCodes
      <4>2. open' = [open EXCEPT ![a.device] = @ \ {a.code}]
        BY <3>1, <4>1 DEF open
      <4>3. a.code \in open[a.device]
        BY <3>1 DEF open, ActiveCodes
      <4> QED BY <3>1, <4>2, <4>3 DEF Board!Next, Board!Resolve, open
    <3> QED BY <3>2, <3>3
  <2> QED BY <1>2, <1>7, <2>1, MaintenanceFrame DEF MaintenanceNext
<1>8. CASE UNCHANGED vars
  BY <1>2, <1>8 DEF vars
<1> QED BY <1>4, <1>5, <1>6, <1>7, <1>8 DEF Next

\* The alert table of any number of devices and collectors keeps AlertBoard's
\* promise.
THEOREM MonitoringImplementsBoard == Spec => ImplementsBoard
BY BoardInit, BoardNext, TypeCorrect, PTL DEF Spec, ImplementsBoard, Board!Spec, open

\* Hence no device is ever shown as unreachable and as running hot at once.
THEOREM OneVerdictAlways == Spec => []Board!OneVerdict
<1>1. Board!Init => Board!OneVerdict
  BY DEF Board!Init, Board!OneVerdict, Board!Verdict
<1>2. TypeOK /\ Board!OneVerdict /\ [Next]_vars => Board!OneVerdict'
  <2> SUFFICES ASSUME TypeOK, Board!OneVerdict, [Next]_vars PROVE Board!OneVerdict'
    OBVIOUS
  <2> DEFINE Shown(d) == \E verdict \in Board!Verdict : open[d] \subseteq verdict
  <2>1. \A d \in DeviceId : Shown(d)
    BY DEF Board!OneVerdict, open
  <2>2. CASE open' = open
    BY <2>1, <2>2 DEF Board!OneVerdict, open
  <2>3. CASE Board!Next
    <3>1. PICK f \in DeviceId : \/ \E verdict \in Board!Verdict : Board!Report(f, verdict)
                                \/ \E c \in open[f] : Board!Resolve(f, c)
      BY <2>3 DEF Board!Next, open
    <3>2. \A d \in DeviceId \ {f} : open'[d] = open[d]
      BY <3>1 DEF Board!Report, Board!Resolve, open
    <3>3. \E verdict \in Board!Verdict : open'[f] \subseteq verdict
      BY <2>1, <3>1 DEF Board!Report, Board!Resolve, open
    <3> QED BY <2>1, <3>2, <3>3 DEF Board!OneVerdict, open
  <2> QED BY <2>2, <2>3, BoardNext
<1> QED BY <1>1, <1>2, BoardInit, TypeCorrect, PTL DEF Spec

===============================================================================

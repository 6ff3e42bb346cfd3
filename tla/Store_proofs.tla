----------------------------- MODULE Store_proofs -----------------------------
(***************************************************************************)
(* Proofs about Store, for any rows, changes, files and any number of      *)
(* stores opened on one file.                                              *)
(***************************************************************************)
EXTENDS Store, TLAPS

-------------------------------------------------------------------------------
(* The four orders *)

\* The tables an order has been through when it is at place k.
Done(order, k) == {order[j] : j \in 1 .. k - 1}

\* An order is a permutation of the tables.
Permutation(order) ==
    /\ Done(order, 1) = {}
    /\ Done(order, 8) = Table
    /\ \A k \in 1 .. 7 :
          /\ order[k] \in Table \ Done(order, k)
          /\ Done(order, k + 1) = Done(order, k) \cup {order[k]}
          /\ Done(order, k) \subseteq Table

\* Parents come before their children.
ParentsFirst(order) ==
    \A k \in 1 .. 7, ref \in References : ref[1] = order[k] => ref[2] \in Done(order, k)

\* Children that are not deleted along come before their parents.
ChildrenFirst(order) ==
    \A k \in 1 .. 7, ref \in References \ Cascades :
        ref[2] = order[k] => ref[1] \in Done(order, k)

LEMMA Places == \A k \in 1 .. 7 : k = 1 \/ k = 2 \/ k = 3 \/ k = 4 \/ k = 5 \/ k = 6 \/ k = 7
  OBVIOUS

LEMMA DoneOf ==
    ASSUME NEW order
    PROVE  /\ Done(order, 1) = {}
           /\ Done(order, 2) = {order[1]}
           /\ Done(order, 3) = {order[1], order[2]}
           /\ Done(order, 4) = {order[1], order[2], order[3]}
           /\ Done(order, 5) = {order[1], order[2], order[3], order[4]}
           /\ Done(order, 6) = {order[1], order[2], order[3], order[4], order[5]}
           /\ Done(order, 7) = {order[1], order[2], order[3], order[4], order[5], order[6]}
           /\ Done(order, 8) = {order[1], order[2], order[3], order[4], order[5], order[6],
                                order[7]}
  BY DEF Done

LEMMA InsertOrderSound == Permutation(InsertOrder) /\ ParentsFirst(InsertOrder)
  <1> DEFINE o == InsertOrder
  <1>1. /\ o[1] = "device_groups" /\ o[2] = "devices" /\ o[3] = "users"
        /\ o[4] = "collection_records" /\ o[5] = "alerts" /\ o[6] = "sessions"
        /\ o[7] = "audit_logs"
    BY DEF InsertOrder
  <1> HIDE DEF o
  <1>2. Permutation(o)
    <2>1. \A k \in 1 .. 7 : o[k] \in Table \ Done(o, k)
      BY <1>1, Places, DoneOf DEF Table
    <2>2. \A k \in 1 .. 7 : Done(o, k + 1) = Done(o, k) \cup {o[k]}
      BY DEF Done
    <2>3. \A k \in 1 .. 7 : Done(o, k) \subseteq Table
      BY <1>1, Places, DoneOf DEF Table
    <2>4. Done(o, 1) = {} /\ Done(o, 8) = Table
      BY <1>1, DoneOf DEF Table
    <2> QED BY <2>1, <2>2, <2>3, <2>4 DEF Permutation
  <1>3. ParentsFirst(o)
    BY <1>1, Places, DoneOf DEF ParentsFirst, References
  <1> QED BY <1>2, <1>3 DEF o

LEMMA DeleteOrderSound == Permutation(DeleteOrder) /\ ChildrenFirst(DeleteOrder)
  <1> DEFINE o == DeleteOrder
  <1>1. /\ o[1] = "collection_records" /\ o[2] = "alerts" /\ o[3] = "sessions"
        /\ o[4] = "audit_logs" /\ o[5] = "devices" /\ o[6] = "device_groups" /\ o[7] = "users"
    BY DEF DeleteOrder
  <1> HIDE DEF o
  <1>2. Permutation(o)
    <2>1. \A k \in 1 .. 7 : o[k] \in Table \ Done(o, k)
      BY <1>1, Places, DoneOf DEF Table
    <2>2. \A k \in 1 .. 7 : Done(o, k + 1) = Done(o, k) \cup {o[k]}
      BY DEF Done
    <2>3. \A k \in 1 .. 7 : Done(o, k) \subseteq Table
      BY <1>1, Places, DoneOf DEF Table
    <2>4. Done(o, 1) = {} /\ Done(o, 8) = Table
      BY <1>1, DoneOf DEF Table
    <2> QED BY <2>1, <2>2, <2>3, <2>4 DEF Permutation
  <1>3. ChildrenFirst(o)
    BY <1>1, Places, DoneOf DEF ChildrenFirst, References, Cascades
  <1> QED BY <1>2, <1>3 DEF o

LEMMA ImportOrderSound == Permutation(ImportOrder) /\ ParentsFirst(ImportOrder)
  <1> DEFINE o == ImportOrder
  <1>1. /\ o[1] = "device_groups" /\ o[2] = "devices" /\ o[3] = "collection_records"
        /\ o[4] = "alerts" /\ o[5] = "users" /\ o[6] = "sessions" /\ o[7] = "audit_logs"
    BY DEF ImportOrder
  <1> HIDE DEF o
  <1>2. Permutation(o)
    <2>1. \A k \in 1 .. 7 : o[k] \in Table \ Done(o, k)
      BY <1>1, Places, DoneOf DEF Table
    <2>2. \A k \in 1 .. 7 : Done(o, k + 1) = Done(o, k) \cup {o[k]}
      BY DEF Done
    <2>3. \A k \in 1 .. 7 : Done(o, k) \subseteq Table
      BY <1>1, Places, DoneOf DEF Table
    <2>4. Done(o, 1) = {} /\ Done(o, 8) = Table
      BY <1>1, DoneOf DEF Table
    <2> QED BY <2>1, <2>2, <2>3, <2>4 DEF Permutation
  <1>3. ParentsFirst(o)
    BY <1>1, Places, DoneOf DEF ParentsFirst, References
  <1> QED BY <1>2, <1>3 DEF o

Everything == Table \cup {"app_config"}

LEMMA CreateOrderSound ==
    /\ \A k \in 1 .. 8 : CreateOrder[k] \in Everything
    /\ {CreateOrder[k] : k \in 1 .. 8} = Everything
  <1>1. /\ CreateOrder[1] = "device_groups" /\ CreateOrder[2] = "devices"
        /\ CreateOrder[3] = "collection_records" /\ CreateOrder[4] = "alerts"
        /\ CreateOrder[5] = "users" /\ CreateOrder[6] = "sessions"
        /\ CreateOrder[7] = "audit_logs" /\ CreateOrder[8] = "app_config"
    BY DEF CreateOrder
  <1>2. {CreateOrder[k] : k \in 1 .. 8} =
           {CreateOrder[1], CreateOrder[2], CreateOrder[3], CreateOrder[4], CreateOrder[5],
            CreateOrder[6], CreateOrder[7], CreateOrder[8]}
    OBVIOUS
  <1>3. \A k \in 1 .. 8 : CreateOrder[k] \in {CreateOrder[j] : j \in 1 .. 8}
    OBVIOUS
  <1>4. {CreateOrder[k] : k \in 1 .. 8} = Everything
    BY <1>1, <1>2 DEF Everything, Table
  <1> QED BY <1>3, <1>4

-------------------------------------------------------------------------------
(* Rows *)

Sound(rows) == ReferencesHold(rows) /\ IdsDistinct(rows)

Clean(rows) == \A t \in Table : \A r \in rows[t] : ~r.stray

LEMMA RowFields ==
    \A t \in Table : \A r \in Row[t] :
        /\ r \in [id : Id, parent : Id \cup {None}, stray : BOOLEAN]
        /\ Cleaned(r) \in Row[t]
  BY RowsAssumption

\* A set of rows per table is a state of the tables.
LEMMA RowsIntro ==
    ASSUME NEW rows, rows = [t \in Table |-> rows[t]], \A t \in Table : rows[t] \subseteq Row[t]
    PROVE  rows \in Rows
  <1>1. \A t \in Table : rows[t] \in SUBSET UNION {Row[u] : u \in Table}
    OBVIOUS
  <1>2. rows \in [Table -> SUBSET UNION {Row[u] : u \in Table}]
    BY <1>1
  <1> QED BY <1>2 DEF Rows

LEMMA RowsElim ==
    ASSUME NEW rows \in Rows
    PROVE  /\ rows = [t \in Table |-> rows[t]]
           /\ \A t \in Table : rows[t] \subseteq Row[t]
  BY DEF Rows

LEMMA NoRowsSound == NoRows \in Rows /\ Sound(NoRows) /\ Clean(NoRows)
  <1>1. NoRows \in Rows
    <2>1. NoRows = [t \in Table |-> NoRows[t]]
      BY DEF NoRows
    <2>2. \A t \in Table : NoRows[t] \subseteq Row[t]
      BY DEF NoRows
    <2> QED BY <2>1, <2>2, RowsIntro
  <1> QED
    BY <1>1 DEF NoRows, Sound, Clean, ReferencesHold, IdsDistinct, OneRowPerId

\* One table replaced.
LEMMA RowsExcept ==
    ASSUME NEW rows \in Rows, NEW t \in Table, NEW S
    PROVE  [rows EXCEPT ![t] = S] = [u \in Table |-> IF u = t THEN S ELSE rows[u]]
  BY RowsElim

LEMMA RowsWith ==
    ASSUME NEW rows \in Rows, NEW t \in Table, NEW S, S \subseteq Row[t]
    PROVE  [u \in Table |-> IF u = t THEN S ELSE rows[u]] \in Rows
  <1> DEFINE new == [u \in Table |-> IF u = t THEN S ELSE rows[u]]
  <1>1. \A u \in Table : new[u] \subseteq Row[u]
    BY RowsElim
  <1>2. new = [u \in Table |-> new[u]]
    OBVIOUS
  <1> HIDE DEF new
  <1>3. new \in Rows
    BY <1>1, <1>2, RowsIntro
  <1> QED BY <1>3 DEF new

LEMMA RowsUpdate ==
    ASSUME NEW rows \in Rows, NEW t \in Table, NEW S, S \subseteq Row[t]
    PROVE  /\ [rows EXCEPT ![t] = S] \in Rows
           /\ [rows EXCEPT ![t] = S][t] = S
           /\ \A u \in Table \ {t} : [rows EXCEPT ![t] = S][u] = rows[u]
  <1>1. [rows EXCEPT ![t] = S] = [u \in Table |-> IF u = t THEN S ELSE rows[u]]
    BY RowsExcept
  <1>2. [u \in Table |-> IF u = t THEN S ELSE rows[u]] \in Rows
    BY RowsWith
  <1> QED BY <1>1, <1>2

\* Reading the rows changes neither ids nor references.
LEMMA LoadedRows ==
    ASSUME NEW rows \in Rows
    PROVE  /\ Loaded(rows) \in Rows
           /\ Clean(Loaded(rows))
           /\ Clean(rows) => Loaded(rows) = rows
           /\ Loaded(Loaded(rows)) = Loaded(rows)
           /\ Sound(rows) => Sound(Loaded(rows))
  <1> DEFINE new == Loaded(rows)
  <1>1. new = [t \in Table |-> {Cleaned(r) : r \in rows[t]}]
    BY DEF Loaded
  <1> HIDE DEF new
  <1>2. \A t \in Table : \A r \in rows[t] :
           /\ Cleaned(r) \in Row[t]
           /\ Cleaned(r).id = r.id
           /\ Cleaned(r).parent = r.parent
           /\ ~Cleaned(r).stray
           /\ ~r.stray => Cleaned(r) = r
    <2> SUFFICES ASSUME NEW t \in Table, NEW r \in rows[t]
                 PROVE  /\ Cleaned(r) \in Row[t]
                        /\ Cleaned(r).id = r.id
                        /\ Cleaned(r).parent = r.parent
                        /\ ~Cleaned(r).stray
                        /\ ~r.stray => Cleaned(r) = r
      OBVIOUS
    <2>1. r \in Row[t]
      BY RowsElim
    <2>2. r \in [id : Id, parent : Id \cup {None}, stray : BOOLEAN]
      BY <2>1, RowFields
    <2>3. Cleaned(r) \in Row[t]
      BY <2>1, RowFields
    <2> QED BY <2>2, <2>3 DEF Cleaned
  <1>3. new \in Rows
    <2>1. new = [t \in Table |-> new[t]]
      BY <1>1
    <2>2. \A t \in Table : new[t] \subseteq Row[t]
      BY <1>1, <1>2
    <2> QED BY <2>1, <2>2, RowsIntro
  <1>4. Clean(new)
    BY <1>1, <1>2 DEF Clean
  <1>5. ASSUME NEW old \in Rows, Clean(old)
        PROVE  Loaded(old) = old
    <2>1. \A t \in Table : \A r \in old[t] : Cleaned(r) = r
      <3> SUFFICES ASSUME NEW t \in Table, NEW r \in old[t]
                   PROVE  Cleaned(r) = r
        OBVIOUS
      <3>1. r \in [id : Id, parent : Id \cup {None}, stray : BOOLEAN]
        BY RowsElim, RowFields
      <3>2. r.stray = FALSE
        BY <1>5, <3>1 DEF Clean
      <3> QED BY <3>1, <3>2 DEF Cleaned
    <2>2. \A t \in Table : {Cleaned(r) : r \in old[t]} = old[t]
      BY <2>1
    <2>3. Loaded(old) = [t \in Table |-> old[t]]
      BY <2>2 DEF Loaded
    <2> QED BY <2>3, RowsElim
  <1>6. ASSUME Sound(rows)
        PROVE  Sound(new)
    <2>1. \A t \in Table : \A s \in new[t] : \E r \in rows[t] :
             s.id = r.id /\ s.parent = r.parent /\ s = Cleaned(r)
      BY <1>1, <1>2
    <2>2. \A t \in Table : \A r \in rows[t] : \E s \in new[t] : s.id = r.id
      BY <1>1, <1>2
    <2>3. ReferencesHold(new)
      <3> SUFFICES ASSUME NEW t \in Table, NEW s \in new[t], NEW ref \in References, ref[1] = t
                   PROVE  \E p \in new[ref[2]] : p.id = s.parent
        BY DEF ReferencesHold, Anchored
      <3>1. PICK r \in rows[t] : s.parent = r.parent
        BY <2>1
      <3>2. PICK p \in rows[ref[2]] : p.id = r.parent
        BY <1>6 DEF Sound, ReferencesHold, Anchored
      <3>3. ref[2] \in Table
        BY DEF References, Table
      <3> QED BY <2>2, <3>1, <3>2, <3>3
    <2>4. IdsDistinct(new)
      BY <1>6, <2>1 DEF Sound, IdsDistinct, OneRowPerId
    <2> QED BY <2>3, <2>4 DEF Sound
  <1> QED BY <1>3, <1>4, <1>5, <1>6 DEF new

LEMMA ReplacedSub ==
    ASSUME NEW S, NEW K \in Replaced(S)
    PROVE  /\ K \subseteq S /\ OneRowPerId(K)
           /\ \A r \in S : \E k \in K : k.id = r.id
           /\ OneRowPerId(S) => K = S
  <1>1. K \subseteq S /\ OneRowPerId(K) /\ \A r \in S : \E k \in K : k.id = r.id
    BY DEF Replaced
  <1>2. OneRowPerId(S) => K = S
    BY <1>1 DEF OneRowPerId
  <1> QED BY <1>1, <1>2

LEMMA ReplacedSelf ==
    ASSUME NEW S, OneRowPerId(S)
    PROVE  S \in Replaced(S)
  BY DEF Replaced

\* A mutator keeps the rows in their tables and leaves no stray credentials.
LEMMA MutatedRows ==
    ASSUME NEW rows \in Rows, NEW c \in Change, Clean(rows)
    PROVE  Mutated(c, rows) \in Rows /\ Clean(Mutated(c, rows))
  <1> DEFINE new == Mutated(c, rows)
  <1>1. new = [t \in Table |-> {r \in rows[t] : r.id \notin c.drop[t]} \cup c.put[t]]
    BY DEF Mutated
  <1> HIDE DEF new
  <1>2. \A t \in Table : c.put[t] \subseteq {r \in Row[t] : ~r.stray}
    BY ChangeAssumption
  <1>3. new = [t \in Table |-> new[t]]
    BY <1>1
  <1>4. \A t \in Table : new[t] \subseteq Row[t]
    BY <1>1, <1>2, RowsElim
  <1>5. Clean(new)
    BY <1>1, <1>2 DEF Clean
  <1> QED BY <1>3, <1>4, <1>5, RowsIntro DEF new

LEMMA ImportedRows ==
    ASSUME NEW legacy \in Legacy
    PROVE  /\ Imported(legacy) \in Rows
           /\ IdsDistinct(legacy.rows) => IdsDistinct(Imported(legacy))
  <1> DEFINE new == Imported(legacy)
  <1>1. \A t \in Table : new[t] =
            IF t \in legacy.garbled THEN {}
            ELSE IF t \notin legacy.missing THEN legacy.rows[t]
            ELSE IF t = "device_groups" THEN {DefaultGroup} ELSE {}
    BY DEF Imported
  <1>2. new = [t \in Table |-> new[t]]
    BY DEF Imported
  <1> HIDE DEF new
  <1>3. legacy.rows \in Rows
    BY DEF Legacy
  <1>4. \A t \in Table : new[t] \subseteq Row[t]
    BY <1>1, <1>3, RowsElim, RowsAssumption
  <1>5. IdsDistinct(legacy.rows) => IdsDistinct(new)
    BY <1>1 DEF IdsDistinct, OneRowPerId
  <1> QED BY <1>2, <1>4, <1>5, RowsIntro DEF new

LEMMA NoSelfReference == \A ref \in References : ref[1] # ref[2] /\ ref[1] \in Table /\ ref[2] \in Table
  BY DEF References, Table

\* Filling an empty table with rows whose parents are there.
LEMMA InsertSound ==
    ASSUME NEW rows \in Rows, Sound(rows), NEW t \in Table, NEW K, K \subseteq Row[t],
           rows[t] = {}, OneRowPerId(K), \A r \in K : Anchored(rows, t, r)
    PROVE  Sound([rows EXCEPT ![t] = K])
  <1> DEFINE new == [rows EXCEPT ![t] = K]
  <1>0. new = [u \in Table |-> IF u = t THEN K ELSE rows[u]]
    BY RowsExcept
  <1> HIDE DEF new
  <1>1. new[t] = K /\ \A u \in Table \ {t} : new[u] = rows[u]
    BY <1>0
  <1>2. \A u \in Table : rows[u] \subseteq new[u]
    BY <1>1
  <1>3. ReferencesHold(new)
    <2> SUFFICES ASSUME NEW u \in Table, NEW r \in new[u], NEW ref \in References, ref[1] = u
                 PROVE  \E p \in new[ref[2]] : p.id = r.parent
      BY DEF ReferencesHold, Anchored
    <2>1. Anchored(rows, u, r)
      BY <1>1 DEF Sound, ReferencesHold
    <2>2. PICK p \in rows[ref[2]] : p.id = r.parent
      BY <2>1 DEF Anchored
    <2> QED BY <1>2, <2>2, NoSelfReference
  <1>4. IdsDistinct(new)
    BY <1>1 DEF Sound, IdsDistinct
  <1> QED BY <1>3, <1>4 DEF Sound, new

LEMMA DefaultClean == ~DefaultGroup.stray
BY RowsAssumption DEF Table

\* Adding the default group to the groups.
LEMMA SeedSound ==
    ASSUME NEW rows \in Rows, Sound(rows),
           \A g \in rows["device_groups"] : g.id # DefaultGroup.id
    PROVE  LET new == [rows EXCEPT !["device_groups"] = @ \cup {DefaultGroup}]
           IN new \in Rows /\ Sound(new) /\ (Clean(rows) => Clean(new))
  <1> DEFINE new == [rows EXCEPT !["device_groups"] = rows["device_groups"] \cup {DefaultGroup}]
  <1>1. "device_groups" \in Table
    BY DEF Table
  <1>2. rows["device_groups"] \cup {DefaultGroup} \subseteq Row["device_groups"]
    BY <1>1, RowsElim, RowsAssumption
  <1>0. new = [u \in Table |-> IF u = "device_groups"
                                 THEN rows["device_groups"] \cup {DefaultGroup} ELSE rows[u]]
    BY <1>1, RowsExcept
  <1> HIDE DEF new
  <1>3. /\ new \in Rows
        /\ new["device_groups"] = rows["device_groups"] \cup {DefaultGroup}
        /\ \A u \in Table \ {"device_groups"} : new[u] = rows[u]
    BY <1>0, <1>1, <1>2, RowsWith
  <1>4. \A u \in Table : rows[u] \subseteq new[u]
    BY <1>3
  <1>5. \A ref \in References : ref[1] # "device_groups"
    BY DEF References
  <1>6. ReferencesHold(new)
    <2> SUFFICES ASSUME NEW u \in Table, NEW r \in new[u], NEW ref \in References, ref[1] = u
                 PROVE  \E p \in new[ref[2]] : p.id = r.parent
      BY DEF ReferencesHold, Anchored
    <2>1. r \in rows[u]
      BY <1>3, <1>5
    <2>2. PICK p \in rows[ref[2]] : p.id = r.parent
      BY <2>1 DEF Sound, ReferencesHold, Anchored
    <2> QED BY <1>4, <2>2, NoSelfReference
  <1>7. IdsDistinct(new)
    BY <1>3 DEF Sound, IdsDistinct, OneRowPerId
  <1>8. Clean(rows) => Clean(new)
    BY <1>3, DefaultClean DEF Clean
  <1> QED BY <1>3, <1>6, <1>7, <1>8 DEF Sound, new

\* Emptying a table that nothing holds on to.
LEMMA DeleteSound ==
    ASSUME NEW rows \in Rows, Sound(rows), NEW t \in Table, Deletable(rows, t)
    PROVE  /\ Deleted(rows, t) \in Rows
           /\ Sound(Deleted(rows, t))
           /\ Deleted(rows, t)[t] = {}
           /\ \A u \in Table : Deleted(rows, t)[u] \subseteq rows[u]
  <1> DEFINE new == Deleted(rows, t)
  <1>1. \A u \in Table : new[u] = IF u = t \/ <<u, t>> \in Cascades THEN {} ELSE rows[u]
    BY DEF Deleted
  <1>2. new = [u \in Table |-> new[u]]
    BY DEF Deleted
  <1> HIDE DEF new
  <1>3. new \in Rows
    <2>1. \A u \in Table : new[u] \subseteq Row[u]
      BY <1>1, RowsElim
    <2> QED BY <1>2, <2>1, RowsIntro
  <1>4. ReferencesHold(new)
    <2> SUFFICES ASSUME NEW u \in Table, NEW r \in new[u], NEW ref \in References, ref[1] = u
                 PROVE  \E p \in new[ref[2]] : p.id = r.parent
      BY DEF ReferencesHold, Anchored
    <2>1. r \in rows[u] /\ ~(u = t \/ <<u, t>> \in Cascades)
      BY <1>1
    <2>2. PICK p \in rows[ref[2]] : p.id = r.parent
      BY <2>1 DEF Sound, ReferencesHold, Anchored
    <2>3. ref = <<u, ref[2]>>
      BY DEF References
    <2>4. ref[2] # t
      BY <2>1, <2>3 DEF Deletable
    <2>5. CASE <<ref[2], t>> \in Cascades
      \* No parent is itself a child of a cascade.
      <3>1. \A a \in References, b \in Cascades : a[2] = b[1] => FALSE
        BY DEF Cascades, References
      <3>2. <<ref[2], t>>[1] = ref[2]
        OBVIOUS
      <3> QED BY <2>5, <3>1, <3>2
    <2>6. CASE <<ref[2], t>> \notin Cascades
      BY <1>1, <2>2, <2>4, <2>6, NoSelfReference
    <2> QED BY <2>5, <2>6
  <1>5. IdsDistinct(new)
    BY <1>1 DEF Sound, IdsDistinct, OneRowPerId
  <1> QED BY <1>1, <1>3, <1>4, <1>5 DEF Sound, new

-------------------------------------------------------------------------------
(* The inductive invariant *)

\* What readers of the file get.
DataOf(f) == IF f.legacy # None THEN Loaded(Imported(f.legacy)) ELSE Loaded(f.rows)

Seeded(rows) == [rows EXCEPT !["device_groups"] = @ \cup {DefaultGroup}]

Ungrouped(rows) == \A g \in rows["device_groups"] : g.id # DefaultGroup.id

Prepared(f) ==
    /\ f.tables = Everything
    /\ f.config = ConfigKey
    /\ f.column
    /\ f.legacy = None
    /\ Clean(f.rows)

\* The file between any two statements.
FileFit ==
    /\ Sound(file.rows)
    /\ file.legacy # None =>
          /\ file.rows = NoRows
          /\ IdsDistinct(file.legacy.rows)
          /\ "devices" \in file.tables => file.column

\* The import is alone with the file.
SoleImporter ==
    file.legacy # None =>
        \A i, j \in Instance : pc[i] # "down" /\ pc[j] # "down" => i = j

OneWriter == \A i, j \in Instance : work[i] # None /\ work[j] # None => i = j

\* What each place says of the variables of its store: p is pc, k is pos, w is
\* work, a is asked and s is state.
PlaceFit(p, k, w, a, s) ==
    /\ p \in {"down", "ddl", "legacy", "seed", "idle", "begin"} => w = None
    /\ p \in {"drop", "opened", "delete", "insert", "commit"} => w # None
    /\ p = "import" /\ w = None => k = 1
    /\ p # "ddl" => k \in 1 .. 7
    /\ p \notin {"ddl", "import", "delete", "insert"} => k = 1
    /\ a # None <=> p \in Updating
    /\ s # None <=> p \in {"delete", "insert", "commit"}

\* An open transaction has lost nothing that the file has.
WorkFit(p, w, f) ==
    /\ Sound(w.rows)
    /\ w.tables = f.tables
    /\ f.column => w.column
    /\ f.config = ConfigKey => w.config = ConfigKey
    /\ w.legacy \in {f.legacy, None}
    /\ f.legacy # None => p \in Opening
    /\ Prepared(f) => Clean(w.rows)

\* An opening: w is its transaction, or None.
OpeningFit(p, k, w, f) ==
    /\ p = "ddl" => \A j \in 1 .. k - 1 : CreateOrder[j] \in f.tables
    /\ p \in Opening \ {"ddl"} => f.tables = Everything
    /\ p \in {"import", "drop"} => f.legacy # None
    /\ p \in {"import", "drop"} /\ w # None =>
          /\ w.legacy = f.legacy
          /\ w.config = ConfigKey
          /\ w.column
    /\ p = "import" /\ w # None => \A t \in Table :
          w.rows[t] = IF t \in Done(ImportOrder, k) THEN Imported(f.legacy)[t] ELSE {}
    /\ p = "drop" => w.rows = Imported(f.legacy)
    /\ p = "seed" => f.legacy = None
    /\ p \in {"column", "scrub", "opened"} =>
          LET seen == IF w = None THEN f ELSE w
          IN seen.config = ConfigKey /\ seen.legacy = None /\ (p # "column" => seen.column)
    /\ p \in {"column", "scrub", "opened"} /\ w # None =>
          \/ Loaded(w.rows) = DataOf(f)
          \/ Ungrouped(DataOf(f)) /\ Loaded(w.rows) = Seeded(DataOf(f))
    /\ p = "opened" => Clean(w.rows)

\* An update.
UpdateFit(p, k, w, a, s, f) ==
    /\ p \in {"idle"} \cup Updating => Prepared(f)
    /\ p \in {"delete", "insert", "commit"} => s = Mutated(a, Loaded(f.rows))
    /\ p \in {"insert", "commit"} => w.config = ConfigKey
    /\ p = "delete" => \A t \in Table : t \in Done(DeleteOrder, k) => w.rows[t] = {}
    /\ p = "insert" => \A t \in Table :
          IF t \in Done(InsertOrder, k) THEN w.rows[t] \in Replaced(s[t]) ELSE w.rows[t] = {}
    /\ p = "commit" => \A t \in Table : w.rows[t] \in Replaced(s[t])

Fit(p, k, w, a, s, f) ==
    /\ PlaceFit(p, k, w, a, s)
    /\ w # None => WorkFit(p, w, f)
    /\ OpeningFit(p, k, w, f)
    /\ UpdateFit(p, k, w, a, s, f)

Inv ==
    /\ TypeOK
    /\ FileFit
    /\ SoleImporter
    /\ OneWriter
    /\ \A i \in Instance : Fit(pc[i], pos[i], work[i], asked[i], state[i], file)

-------------------------------------------------------------------------------
(* Types *)

\* A changed field of a database.
LEMMA DatabaseWith ==
    ASSUME NEW f \in Database
    PROVE  /\ \A v \in Rows :
                 /\ [f EXCEPT !.rows = v] \in Database
                 /\ [f EXCEPT !.rows = v].rows = v
                 /\ [f EXCEPT !.rows = v].tables = f.tables
                 /\ [f EXCEPT !.rows = v].config = f.config
                 /\ [f EXCEPT !.rows = v].column = f.column
                 /\ [f EXCEPT !.rows = v].legacy = f.legacy
           /\ \A v \in SUBSET ConfigKey :
                 /\ [f EXCEPT !.config = v] \in Database
                 /\ [f EXCEPT !.config = v].rows = f.rows
                 /\ [f EXCEPT !.config = v].tables = f.tables
                 /\ [f EXCEPT !.config = v].config = v
                 /\ [f EXCEPT !.config = v].column = f.column
                 /\ [f EXCEPT !.config = v].legacy = f.legacy
           /\ \A v \in BOOLEAN :
                 /\ [f EXCEPT !.column = v] \in Database
                 /\ [f EXCEPT !.column = v].rows = f.rows
                 /\ [f EXCEPT !.column = v].tables = f.tables
                 /\ [f EXCEPT !.column = v].config = f.config
                 /\ [f EXCEPT !.column = v].column = v
                 /\ [f EXCEPT !.column = v].legacy = f.legacy
           /\ /\ [f EXCEPT !.legacy = None] \in Database
              /\ [f EXCEPT !.legacy = None].rows = f.rows
              /\ [f EXCEPT !.legacy = None].tables = f.tables
              /\ [f EXCEPT !.legacy = None].config = f.config
              /\ [f EXCEPT !.legacy = None].column = f.column
              /\ [f EXCEPT !.legacy = None].legacy = None
  BY DEF Database, Everything

LEMMA DatabaseFields ==
    ASSUME NEW f \in Database
    PROVE  /\ f.rows \in Rows
           /\ f.tables \in SUBSET Everything
           /\ f.config \in SUBSET ConfigKey
           /\ f.column \in BOOLEAN
           /\ f.legacy \in Legacy \cup {None}
           /\ f # None
  BY FileAssumption DEF Database, Everything

LEMMA LoadedType == \A rows \in Rows : Loaded(rows) \in Rows
  BY LoadedRows

\* The rows a mutator makes, whatever it is given.
LEMMA MutatedType ==
    ASSUME NEW c \in Change, NEW rows \in Rows
    PROVE  Mutated(c, rows) \in Rows
  <1> DEFINE new == Mutated(c, rows)
  <1>1. new = [t \in Table |-> {r \in rows[t] : r.id \notin c.drop[t]} \cup c.put[t]]
    BY DEF Mutated
  <1> HIDE DEF new
  <1>2. \A t \in Table : c.put[t] \subseteq Row[t]
    BY ChangeAssumption
  <1>3. new = [t \in Table |-> new[t]]
    BY <1>1
  <1>4. \A t \in Table : new[t] \subseteq Row[t]
    BY <1>1, <1>2, RowsElim
  <1> QED BY <1>3, <1>4, RowsIntro DEF new

\* Filling one table of a transaction with rows of a state.
LEMMA FillType ==
    ASSUME NEW db \in Database, NEW t \in Table, NEW rows \in Rows, NEW K \in Replaced(rows[t])
    PROVE  /\ [db.rows EXCEPT ![t] = K] \in Rows
           /\ [db EXCEPT !.rows[t] = K] = [db EXCEPT !.rows = [db.rows EXCEPT ![t] = K]]
           /\ [db EXCEPT !.rows[t] = K] \in Database
  <1>1. db.rows \in Rows
    BY DatabaseFields
  <1>2. K \subseteq Row[t]
    BY ReplacedSub, RowsElim
  <1>3. [db.rows EXCEPT ![t] = K] \in Rows
    BY <1>1, <1>2, RowsUpdate
  <1>4. [db EXCEPT !.rows[t] = K] = [db EXCEPT !.rows = [db.rows EXCEPT ![t] = K]]
    OBVIOUS
  <1> QED BY <1>3, <1>4, DatabaseWith

\* What the seeding makes of the file.
SeededFile ==
    LET groups == file.rows["device_groups"]
        seeded == IF \E g \in groups : g.id = DefaultGroup.id THEN groups
                  ELSE groups \cup {DefaultGroup}
    IN [file EXCEPT !.config = ConfigKey, !.rows["device_groups"] = seeded]

LEMMA SeededFileType ==
    ASSUME file \in Database
    PROVE  /\ SeededFile \in Database
           /\ SeededFile.rows = IF Ungrouped(file.rows) THEN Seeded(file.rows) ELSE file.rows
           /\ SeededFile.tables = file.tables
           /\ SeededFile.config = ConfigKey
           /\ SeededFile.column = file.column
           /\ SeededFile.legacy = file.legacy
  <1> DEFINE g == "device_groups"
  <1> DEFINE groups == file.rows[g]
  <1> DEFINE S == IF \E x \in groups : x.id = DefaultGroup.id THEN groups
                  ELSE groups \cup {DefaultGroup}
  <1> DEFINE new == [file.rows EXCEPT ![g] = S]
  <1>1. g \in Table
    BY DEF Table
  <1>2. file.rows \in Rows
    BY DatabaseFields
  <1>3. S \subseteq Row[g]
    BY <1>1, <1>2, RowsElim, RowsAssumption
  <1> HIDE DEF S
  <1>4. new \in Rows
    BY <1>1, <1>2, <1>3, RowsUpdate
  <1> USE DEF S
  <1>5. new = IF Ungrouped(file.rows) THEN Seeded(file.rows) ELSE file.rows
    <2>1. CASE Ungrouped(file.rows)
      <3>1. S = groups \cup {DefaultGroup}
        BY <2>1 DEF Ungrouped
      <3> HIDE DEF S
      <3> QED BY <2>1, <3>1 DEF Seeded
    <2>2. CASE ~Ungrouped(file.rows)
      <3>1. S = groups
        BY <2>2 DEF Ungrouped
      <3> HIDE DEF S
      <3>2. new = [u \in Table |-> IF u = g THEN groups ELSE file.rows[u]]
        BY <1>1, <1>2, <3>1, RowsExcept
      <3>3. new = [u \in Table |-> file.rows[u]]
        BY <3>2
      <3> HIDE DEF new
      <3> QED BY <1>2, <2>2, <3>3, RowsElim
    <2> QED BY <2>1, <2>2
  <1>6. SeededFile = [file EXCEPT !.config = ConfigKey, !.rows = new]
    BY DEF SeededFile
  <1> HIDE DEF new
  <1>7. /\ SeededFile \in Database
        /\ SeededFile.rows = new
        /\ SeededFile.tables = file.tables
        /\ SeededFile.config = ConfigKey
        /\ SeededFile.column = file.column
        /\ SeededFile.legacy = file.legacy
    BY <1>4, <1>6 DEF Database
  <1> QED BY <1>5, <1>7

LEMMA CreateWrites ==
    ASSUME file \in Database, NEW t \in Everything, NEW db,
           db = [file EXCEPT !.tables = @ \cup {t},
                             !.column = @ \/ (t = "devices" /\ t \notin file.tables)]
    PROVE  /\ db \in Database
           /\ db.rows = file.rows
           /\ db.tables = file.tables \cup {t}
           /\ db.config = file.config
           /\ db.column = (file.column \/ (t = "devices" /\ t \notin file.tables))
           /\ db.legacy = file.legacy
  <1> DEFINE v == file.tables \cup {t}
  <1> DEFINE x == file.column \/ (t = "devices" /\ t \notin file.tables)
  <1>1. v \in SUBSET Everything
    BY DatabaseFields
  <1>2. x \in BOOLEAN
    OBVIOUS
  <1>3. db = [file EXCEPT !.tables = v, !.column = x]
    OBVIOUS
  <1> HIDE DEF v, x
  <1>4. /\ db \in Database
        /\ db.rows = file.rows
        /\ db.tables = v
        /\ db.config = file.config
        /\ db.column = x
        /\ db.legacy = file.legacy
    BY <1>1, <1>2, <1>3 DEF Database, Everything
  <1> QED BY <1>4 DEF v, x

LEMMA DeletedType ==
    ASSUME NEW rows \in Rows, NEW t \in Table
    PROVE  Deleted(rows, t) \in Rows
  <1> DEFINE new == Deleted(rows, t)
  <1>1. new = [u \in Table |-> new[u]]
    BY DEF Deleted
  <1>2. \A u \in Table : new[u] \subseteq Row[u]
    BY RowsElim DEF Deleted
  <1> HIDE DEF new
  <1>3. new \in Rows
    BY <1>1, <1>2, RowsIntro
  <1> QED BY <1>3 DEF new

-------------------------------------------------------------------------------
(* A step of one store *)

Place == {"down", "idle"} \cup Opening \cup Updating

\* Store i goes to place p, and so on; the others stay.  It was open, or it is
\* free to open.
Moves(i, p, k, w, a, s) ==
    /\ pc[i] # "down" \/ (file.legacy # None => \A j \in Instance : pc[j] = "down")
    /\ pc' = [pc EXCEPT ![i] = p]
    /\ pos' = [pos EXCEPT ![i] = k]
    /\ work' = [work EXCEPT ![i] = w]
    /\ asked' = [asked EXCEPT ![i] = a]
    /\ state' = [state EXCEPT ![i] = s]

\* The file has become g and lost nothing an opening has prepared.
Grows(f, g) ==
    /\ f.tables \subseteq g.tables
    /\ f.column => g.column
    /\ f.config = ConfigKey => g.config = ConfigKey
    /\ f.legacy = None => g.legacy = None
    /\ Prepared(f) => Prepared(g)

\* A store without a transaction is not disturbed by a commit of another one.
LEMMA Undisturbed ==
    ASSUME NEW f \in Database, NEW g \in Database, Grows(f, g), f.legacy = None,
           NEW p, NEW k, NEW a, NEW s, Fit(p, k, None, a, s, f)
    PROVE  Fit(p, k, None, a, s, g)
<1>1. PlaceFit(p, k, None, a, s)
  BY DEF Fit
<1>2. OpeningFit(p, k, None, f) /\ UpdateFit(p, k, None, a, s, f)
  BY DEF Fit
<1>3. p \notin {"drop", "opened", "delete", "insert", "commit", "import"}
  BY <1>1, <1>2 DEF PlaceFit, OpeningFit
<1>4. f.tables = Everything => g.tables = Everything
  BY DatabaseFields DEF Grows
<1>5. OpeningFit(p, k, None, g)
  BY <1>2, <1>3, <1>4 DEF OpeningFit, Grows
<1>6. UpdateFit(p, k, None, a, s, g)
  BY <1>2, <1>3 DEF UpdateFit, Grows
<1> QED
  BY <1>1, <1>5, <1>6 DEF Fit

LEMMA LocalStep ==
    ASSUME Inv, NEW i \in Instance,
           NEW p \in Place, NEW k \in 1 .. 8, NEW w \in Database \cup {None},
           NEW a \in Change \cup {None}, NEW s \in Rows \cup {None},
           Moves(i, p, k, w, a, s),
           file' \in Database,
           FileFit',
           w = None \/ CanWrite(i),
           file' = file \/ (CanWrite(i) /\ Grows(file, file')),
           Fit(p, k, w, a, s, file')
    PROVE  Inv'
<1>1. TypeOK'
  BY DEF Inv, TypeOK, Moves, Place
<1>4. SoleImporter'
  <2>1. file'.legacy # None => file.legacy # None
    BY DEF Grows
  <2>2. \A j \in Instance \ {i} : pc'[j] = pc[j]
    BY DEF Inv, TypeOK, Moves
  <2>3. file.legacy # None => \A j \in Instance \ {i} : pc[j] = "down"
    BY DEF Inv, SoleImporter, Moves
  <2> QED
    BY <2>1, <2>2, <2>3 DEF SoleImporter
<1>2. OneWriter'
  BY DEF Inv, TypeOK, Moves, OneWriter, CanWrite
<1>3. ASSUME NEW j \in Instance
      PROVE  Fit(pc[j], pos[j], work[j], asked[j], state[j], file)'
  <2>1. CASE j = i
    <3>1. pc'[j] = p /\ pos'[j] = k /\ work'[j] = w /\ asked'[j] = a /\ state'[j] = s
      BY <2>1 DEF Inv, TypeOK, Moves
    <3> QED
      BY <3>1
  <2>2. CASE j # i
    <3>1. /\ pc'[j] = pc[j] /\ pos'[j] = pos[j] /\ work'[j] = work[j]
          /\ asked'[j] = asked[j] /\ state'[j] = state[j]
      BY <2>2 DEF Inv, TypeOK, Moves
    <3>2. Fit(pc[j], pos[j], work[j], asked[j], state[j], file)
      BY DEF Inv
    <3>3. CASE file' = file
      BY <3>1, <3>2, <3>3
    <3>4. CASE CanWrite(i) /\ Grows(file, file')
      <4>1. work[j] = None
        BY <2>2, <3>4 DEF CanWrite
      <4>3. file \in Database
        BY DEF Inv, TypeOK
      <4>4. Fit(pc[j], pos[j], None, asked[j], state[j], file')
        <5>1. CASE file.legacy = None
          BY <3>2, <3>4, <4>1, <4>3, <5>1, Undisturbed
        <5>2. CASE file.legacy # None
          <6>1. pc[j] = "down"
            BY <2>2, <5>2 DEF Inv, SoleImporter, Moves
          <6> QED
            BY <3>2, <4>1, <6>1 DEF Fit, OpeningFit, UpdateFit, Opening, Updating
        <5> QED
          BY <5>1, <5>2
      <4> QED
        BY <3>1, <4>1, <4>4
    <3> QED
      BY <3>3, <3>4
  <2> QED
    BY <2>1, <2>2
<1> QED
  BY <1>1, <1>2, <1>3, <1>4 DEF Inv

\* What Inv says of one store.
LEMMA OfStore ==
    ASSUME Inv, NEW i \in Instance
    PROVE  /\ pc[i] \in Place /\ pos[i] \in 1 .. 8
           /\ work[i] \in Database \cup {None}
           /\ asked[i] \in Change \cup {None} /\ state[i] \in Rows \cup {None}
           /\ file \in Database
           /\ FileFit
           /\ PlaceFit(pc[i], pos[i], work[i], asked[i], state[i])
           /\ work[i] # None => WorkFit(pc[i], work[i], file)
           /\ OpeningFit(pc[i], pos[i], work[i], file)
           /\ UpdateFit(pc[i], pos[i], work[i], asked[i], state[i], file)
BY DEF Inv, TypeOK, Fit, Place

\* Statements that only lead on.
LEMMA StaysPut ==
    ASSUME Inv, NEW i \in Instance
    PROVE  /\ pc = [pc EXCEPT ![i] = pc[i]]
           /\ pos = [pos EXCEPT ![i] = pos[i]]
           /\ work = [work EXCEPT ![i] = work[i]]
           /\ asked = [asked EXCEPT ![i] = asked[i]]
           /\ state = [state EXCEPT ![i] = state[i]]
BY DEF Inv, TypeOK

\* The file keeps fitting when it stays.
LEMMA SameFile == ASSUME Inv, UNCHANGED file PROVE file' \in Database /\ FileFit'
BY DEF Inv, TypeOK, FileFit

\* What the store promises does not see the step.
Hidden == DataOf(file)' = DataOf(file) /\ asked' = asked

LEMMA StartStep ==
    ASSUME Inv, NEW i \in Instance, Start(i)
    PROVE  Inv' /\ Hidden
<1> DEFINE k == pos[i]  a == asked[i]  s == state[i]
<1>1. Moves(i, "ddl", k, None, a, s) /\ UNCHANGED <<file, asked>> /\ pc[i] = "down"
  <2>1. work[i] = None
    BY OfStore DEF Start, PlaceFit
  <2> QED
    BY <2>1, StaysPut DEF Start, Goto, Moves
<1>2. Fit("ddl", k, None, a, s, file)
  <2>1. PlaceFit("down", k, None, a, s)
    BY <1>1, OfStore DEF PlaceFit
  <2>2. k = 1
    BY <2>1 DEF PlaceFit
  <2>3. PlaceFit("ddl", k, None, a, s)
    BY <2>1 DEF PlaceFit, Updating
  <2>4. OpeningFit("ddl", k, None, file)
    BY <2>2 DEF OpeningFit, Opening
  <2>5. UpdateFit("ddl", k, None, a, s, file)
    BY DEF UpdateFit, Updating
  <2> QED
    BY <2>3, <2>4, <2>5 DEF Fit
<1>3. "ddl" \in Place /\ k \in 1 .. 8 /\ a \in Change \cup {None} /\ s \in Rows \cup {None}
  BY OfStore DEF Place, Opening
<1> HIDE DEF k, a, s
<1>4. Inv'
  BY <1>1, <1>2, <1>3, SameFile, LocalStep
<1> QED
  BY <1>1, <1>4 DEF Hidden

LEMMA CreateTableStep ==
    ASSUME Inv, NEW i \in Instance, CreateTable(i)
    PROVE  Inv' /\ Hidden
<1> DEFINE k == pos[i]  a == asked[i]  s == state[i]  t == CreateOrder[k]
           p == IF k < 8 THEN "ddl" ELSE "legacy"
           next == IF k < 8 THEN k + 1 ELSE 1
           db == [file EXCEPT !.tables = @ \cup {t},
                              !.column = @ \/ (t = "devices" /\ t \notin file.tables)]
<1>0. /\ k \in 1 .. 8 /\ a \in Change \cup {None} /\ s \in Rows \cup {None}
      /\ file \in Database /\ FileFit
      /\ PlaceFit("ddl", k, work[i], a, s)
      /\ OpeningFit("ddl", k, work[i], file)
  BY OfStore DEF CreateTable
<1>1. work[i] = None
  BY <1>0 DEF PlaceFit
<1>2. Moves(i, p, next, None, a, s)
  BY <1>1, StaysPut DEF CreateTable, Goto, Moves, WriteSchema
<1>3. CanWrite(i) /\ file' = db /\ asked' = asked
  BY <1>1 DEF CreateTable, WriteSchema
<1>4. t \in Everything
  BY <1>0, CreateOrderSound
<1> HIDE DEF t
<1>5. /\ db \in Database
      /\ db.rows = file.rows
      /\ db.tables = file.tables \cup {t}
      /\ db.config = file.config
      /\ db.column = (file.column \/ (t = "devices" /\ t \notin file.tables))
      /\ db.legacy = file.legacy
  BY <1>0, <1>4, CreateWrites
<1> HIDE DEF db
<1>6. Grows(file, db)
  <2>1. Prepared(file) => Prepared(db)
    BY <1>4, <1>5 DEF Prepared
  <2> QED
    BY <1>5, <2>1 DEF Grows
<1>7. FileFit'
  BY <1>0, <1>3, <1>5 DEF FileFit
<1>8. Fit(p, next, None, a, s, db)
  <2>1. PlaceFit(p, next, None, a, s)
    BY <1>0 DEF PlaceFit, Updating
  <2>2. \A j \in 1 .. k : CreateOrder[j] \in db.tables
    BY <1>0, <1>5 DEF OpeningFit, t
  <2>3. k = 8 => db.tables = Everything
    BY <1>5, <2>2, CreateOrderSound, DatabaseFields
  <2>4. OpeningFit(p, next, None, db)
    BY <1>0, <2>2, <2>3 DEF OpeningFit, Opening
  <2>5. UpdateFit(p, next, None, a, s, db)
    BY DEF UpdateFit, Updating
  <2> QED
    BY <2>1, <2>4, <2>5 DEF Fit
<1>9. p \in Place /\ next \in 1 .. 8
  BY <1>0 DEF Place, Opening
<1> HIDE DEF k, a, s, p, next
<1>10. Inv'
  BY <1>0, <1>2, <1>3, <1>5, <1>6, <1>7, <1>8, <1>9, LocalStep
<1>11. DataOf(file)' = DataOf(file)
  BY <1>3, <1>5 DEF DataOf
<1> QED
  BY <1>3, <1>10, <1>11 DEF Hidden

LEMMA LookForLegacyStep ==
    ASSUME Inv, NEW i \in Instance, LookForLegacy(i)
    PROVE  Inv' /\ Hidden
<1> DEFINE k == pos[i]  a == asked[i]  s == state[i]
           p == IF file.legacy # None THEN "import" ELSE "seed"
<1>0. /\ k \in 1 .. 8 /\ a \in Change \cup {None} /\ s \in Rows \cup {None}
      /\ PlaceFit("legacy", k, work[i], a, s)
      /\ OpeningFit("legacy", k, work[i], file)
  BY OfStore DEF LookForLegacy
<1>1. work[i] = None
  BY <1>0 DEF PlaceFit
<1>2. Moves(i, p, k, None, a, s) /\ UNCHANGED <<file, asked>>
  BY <1>1, StaysPut DEF LookForLegacy, Goto, Moves
<1>3. Fit(p, k, None, a, s, file)
  <2>1. PlaceFit(p, k, None, a, s)
    BY <1>0 DEF PlaceFit, Updating
  <2>2. OpeningFit(p, k, None, file)
    BY <1>0 DEF OpeningFit, Opening
  <2>3. UpdateFit(p, k, None, a, s, file)
    BY DEF UpdateFit, Updating
  <2> QED
    BY <2>1, <2>2, <2>3 DEF Fit
<1>4. p \in Place
  BY DEF Place, Opening
<1> HIDE DEF k, a, s, p
<1>5. Inv'
  BY <1>0, <1>2, <1>3, <1>4, SameFile, LocalStep
<1> QED
  BY <1>2, <1>5 DEF Hidden

LEMMA ImportConfigStep ==
    ASSUME Inv, NEW i \in Instance, ImportConfig(i)
    PROVE  Inv' /\ Hidden
<1> DEFINE k == pos[i]  a == asked[i]  s == state[i]
           w == [file EXCEPT !.config = ConfigKey]
<1>0. /\ k \in 1 .. 8 /\ a \in Change \cup {None} /\ s \in Rows \cup {None}
      /\ file \in Database /\ FileFit
      /\ PlaceFit("import", k, None, a, s)
      /\ OpeningFit("import", k, None, file)
  BY OfStore DEF ImportConfig
<1>1. Moves(i, "import", k, w, a, s) /\ UNCHANGED <<file, asked>> /\ CanWrite(i)
  BY StaysPut DEF ImportConfig, Write, Moves
<1>2. /\ w \in Database
      /\ w.rows = file.rows /\ w.tables = file.tables /\ w.config = ConfigKey
      /\ w.column = file.column /\ w.legacy = file.legacy
  BY <1>0 DEF Database
<1> HIDE DEF w
<1>3. k = 1 /\ file.legacy # None /\ file.tables = Everything /\ file.rows = NoRows
  BY <1>0 DEF PlaceFit, OpeningFit, FileFit, Opening
<1>4. file.column
  BY <1>0, <1>3 DEF FileFit, Everything, Table
<1>5. Fit("import", k, w, a, s, file)
  <2>1. PlaceFit("import", k, w, a, s)
    BY <1>0 DEF PlaceFit
  <2>2. WorkFit("import", w, file)
    BY <1>0, <1>2, <1>3 DEF WorkFit, FileFit, Opening, Prepared
  <2>3. \A t \in Table : w.rows[t] = IF t \in Done(ImportOrder, k) THEN Imported(file.legacy)[t] ELSE {}
    BY <1>2, <1>3, ImportOrderSound DEF Permutation, NoRows
  <2>4. OpeningFit("import", k, w, file)
    BY <1>2, <1>3, <1>4, <2>3 DEF OpeningFit
  <2>5. UpdateFit("import", k, w, a, s, file)
    BY DEF UpdateFit, Updating
  <2> QED
    BY <2>1, <2>2, <2>4, <2>5 DEF Fit
<1>6. "import" \in Place
  BY DEF Place, Opening
<1> HIDE DEF k, a, s
<1>7. Inv'
  BY <1>0, <1>1, <1>2, <1>5, <1>6, SameFile, LocalStep
<1> QED
  BY <1>1, <1>7 DEF Hidden

LEMMA ImportTableStep ==
    ASSUME Inv, NEW i \in Instance, ImportTable(i)
    PROVE  Inv' /\ Hidden
<1> DEFINE k == pos[i]  a == asked[i]  s == state[i]  old == work[i]
           t == ImportOrder[k]
           all == Imported(file.legacy)
           p == IF k < 7 THEN "import" ELSE "drop"
           next == IF k < 7 THEN k + 1 ELSE 1
<1>0. /\ k \in 1 .. 8 /\ a \in Change \cup {None} /\ s \in Rows \cup {None}
      /\ file \in Database /\ FileFit
      /\ old \in Database /\ old # None
      /\ PlaceFit("import", k, old, a, s)
      /\ WorkFit("import", old, file)
      /\ OpeningFit("import", k, old, file)
  BY OfStore DEF ImportTable
<1>1. /\ k \in 1 .. 7
      /\ file.legacy # None /\ file.tables = Everything /\ old.legacy = file.legacy
      /\ old.config = ConfigKey /\ old.column
      /\ \A u \in Table : old.rows[u] = IF u \in Done(ImportOrder, k) THEN all[u] ELSE {}
  BY <1>0 DEF PlaceFit, OpeningFit, Opening
<1>2. all \in Rows /\ IdsDistinct(all)
  BY <1>0, <1>1, ImportedRows, DatabaseFields DEF FileFit
<1>3. PICK kept \in Replaced(all[t]) : Write(i, [old EXCEPT !.rows[t] = kept])
  BY <1>1 DEF ImportTable
<1>4. Insertable(old, t, all[t])
  BY <1>1 DEF ImportTable
<1>5. t \in Table \ Done(ImportOrder, k) /\ Done(ImportOrder, k + 1) = Done(ImportOrder, k) \cup {t}
  BY <1>1, ImportOrderSound DEF Permutation
<1> DEFINE rows == [old.rows EXCEPT ![t] = kept]
           w == [old EXCEPT !.rows[t] = kept]
<1>6. Moves(i, p, next, w, a, s) /\ UNCHANGED <<file, asked>> /\ CanWrite(i)
  BY <1>3, StaysPut DEF ImportTable, Write, Moves, Goto
<1> HIDE DEF t, all
<1>7. kept = all[t]
  BY <1>2, <1>5, ReplacedSub DEF IdsDistinct
<1>8. rows \in Rows /\ w = [old EXCEPT !.rows = rows]
  BY <1>0, <1>2, <1>3, <1>5, FillType
<1>9. rows[t] = kept /\ \A u \in Table \ {t} : rows[u] = old.rows[u]
  <2>1. old.rows \in Rows /\ kept \subseteq Row[t]
    BY <1>0, <1>2, <1>5, <1>7, DatabaseFields, RowsElim
  <2>2. rows = [u \in Table |-> IF u = t THEN kept ELSE old.rows[u]]
    BY <1>5, <2>1, RowsExcept
  <2> HIDE DEF rows
  <2> QED
    BY <1>5, <2>2
<1>10. Sound(rows)
  <2>1. old.rows \in Rows /\ Sound(old.rows)
    BY <1>0, DatabaseFields DEF WorkFit
  <2>2. kept \subseteq Row[t] /\ OneRowPerId(kept)
    BY <1>2, <1>3, <1>5, <1>7, ReplacedSub, RowsElim
  <2>3. old.rows[t] = {}
    BY <1>1, <1>5
  <2>4. \A r \in kept : Anchored(old.rows, t, r)
    BY <1>4, <1>7 DEF Insertable
  <2> QED
    BY <1>5, <2>1, <2>2, <2>3, <2>4, InsertSound
<1> HIDE DEF rows, w
<1>11. /\ w \in Database
       /\ w.rows = rows /\ w.tables = old.tables /\ w.config = old.config
       /\ w.column = old.column /\ w.legacy = old.legacy
  BY <1>0, <1>8 DEF Database
<1>12. \A u \in Table : rows[u] = IF u \in Done(ImportOrder, k + 1) THEN all[u] ELSE {}
  BY <1>1, <1>5, <1>7, <1>9
<1>13. k = 7 => rows = all
  <2> SUFFICES ASSUME k = 7
               PROVE  rows = all
    OBVIOUS
  <2>1. Done(ImportOrder, k + 1) = Table
    BY ImportOrderSound DEF Permutation
  <2>2. \A u \in Table : rows[u] = all[u]
    BY <1>12, <2>1
  <2>3. rows = [u \in Table |-> rows[u]] /\ all = [u \in Table |-> all[u]]
    BY <1>2, <1>8, RowsElim
  <2> QED
    BY <2>2, <2>3
<1>14. Fit(p, next, w, a, s, file)
  <2>1. w # None
    BY <1>11, DatabaseFields
  <2>2. PlaceFit(p, next, w, a, s)
    BY <1>0, <1>1, <2>1 DEF PlaceFit, Updating
  <2>3. WorkFit(p, w, file)
    BY <1>0, <1>1, <1>10, <1>11 DEF WorkFit, Opening, Prepared
  <2>4. OpeningFit(p, next, w, file)
    BY <1>1, <1>11, <1>12, <1>13, <2>1 DEF OpeningFit, all
  <2>5. UpdateFit(p, next, w, a, s, file)
    BY DEF UpdateFit, Updating
  <2> QED
    BY <2>2, <2>3, <2>4, <2>5 DEF Fit
<1>15. p \in Place /\ next \in 1 .. 8
  BY <1>1 DEF Place, Opening
<1> HIDE DEF k, a, s, p, next
<1>16. Inv'
  BY <1>0, <1>6, <1>11, <1>14, <1>15, SameFile, LocalStep
<1> QED
  BY <1>6, <1>16 DEF Hidden

LEMMA DropLegacyStep ==
    ASSUME Inv, NEW i \in Instance, DropLegacy(i)
    PROVE  Inv' /\ Hidden
<1> DEFINE k == pos[i]  a == asked[i]  s == state[i]  old == work[i]
           w == [old EXCEPT !.legacy = None]
<1>0. /\ k \in 1 .. 8 /\ a \in Change \cup {None} /\ s \in Rows \cup {None}
      /\ file \in Database
      /\ PlaceFit("drop", k, old, a, s)
      /\ OpeningFit("drop", k, old, file)
      /\ old \in Database \cup {None} /\ (old # None => WorkFit("drop", old, file))
  BY OfStore DEF DropLegacy
<1>1. old \in Database /\ WorkFit("drop", old, file) /\ k = 1
  BY <1>0 DEF PlaceFit
<1>2. Moves(i, "column", k, w, a, s) /\ UNCHANGED <<file, asked>> /\ CanWrite(i)
  BY StaysPut DEF DropLegacy, Write, Moves, Goto
<1>3. /\ w \in Database
      /\ w.rows = old.rows /\ w.tables = old.tables /\ w.config = old.config
      /\ w.column = old.column /\ w.legacy = None
  BY <1>1, DatabaseWith
<1> HIDE DEF w
<1>4. w # None /\ old # None
  BY <1>1, <1>3, DatabaseFields
<1>5. /\ file.legacy # None /\ file.tables = Everything
      /\ old.config = ConfigKey /\ old.column /\ old.rows = Imported(file.legacy)
  BY <1>0, <1>4 DEF OpeningFit, Opening
<1>6. Fit("column", k, w, a, s, file)
  <2>1. PlaceFit("column", k, w, a, s)
    BY <1>0, <1>1 DEF PlaceFit, Updating
  <2>2. WorkFit("column", w, file)
    BY <1>1, <1>3, <1>5 DEF WorkFit, Opening, Prepared
  <2>3. Loaded(w.rows) = DataOf(file)
    BY <1>3, <1>5 DEF DataOf
  <2>4. OpeningFit("column", k, w, file)
    BY <1>3, <1>4, <1>5, <2>3 DEF OpeningFit
  <2>5. UpdateFit("column", k, w, a, s, file)
    BY DEF UpdateFit, Updating
  <2> QED
    BY <2>1, <2>2, <2>4, <2>5 DEF Fit
<1>7. "column" \in Place
  BY DEF Place, Opening
<1> HIDE DEF k, a, s
<1>8. Inv'
  BY <1>0, <1>2, <1>3, <1>6, <1>7, SameFile, LocalStep
<1> QED
  BY <1>2, <1>8 DEF Hidden

\* Reading and seeding commute.
LEMMA LoadedSeeded ==
    ASSUME NEW rows \in Rows
    PROVE  /\ Ungrouped(Loaded(rows)) <=> Ungrouped(rows)
           /\ Loaded(Seeded(rows)) = Seeded(Loaded(rows))
<1> DEFINE g == "device_groups"
<1>1. g \in Table
  BY DEF Table
<1>2. Cleaned(DefaultGroup) = DefaultGroup
  <2>1. DefaultGroup \in [id : Id, parent : Id \cup {None}, stray : BOOLEAN]
    BY <1>1, RowsAssumption, RowFields
  <2>2. DefaultGroup.stray = FALSE
    BY <2>1, DefaultClean
  <2> QED
    BY <2>1, <2>2 DEF Cleaned
<1>3. \A r : Cleaned(r).id = r.id
  BY DEF Cleaned
<1> DEFINE read == Loaded(rows)
           left == Loaded(Seeded(rows))
           right == Seeded(Loaded(rows))
<1>4. read \in Rows /\ \A t \in Table : read[t] = {Cleaned(r) : r \in rows[t]}
  BY LoadedRows DEF Loaded
<1>5. Ungrouped(read) <=> Ungrouped(rows)
  BY <1>1, <1>3, <1>4 DEF Ungrouped
<1>6. \A t \in Table : left[t] = IF t = g THEN {Cleaned(r) : r \in rows[g] \cup {DefaultGroup}}
                                ELSE {Cleaned(r) : r \in rows[t]}
  <2>1. Seeded(rows) = [t \in Table |-> IF t = g THEN rows[g] \cup {DefaultGroup} ELSE rows[t]]
    BY <1>1, RowsExcept DEF Seeded
  <2> QED
    BY <2>1 DEF Loaded
<1>7. right = [t \in Table |-> IF t = g THEN read[g] \cup {DefaultGroup} ELSE read[t]]
  <2> HIDE DEF read
  <2>1. Seeded(read) = [t \in Table |-> IF t = g THEN read[g] \cup {DefaultGroup} ELSE read[t]]
    BY <1>1, <1>4, RowsExcept DEF Seeded
  <2> QED
    BY <2>1 DEF read
<1>8. left = [t \in Table |-> left[t]]
  BY DEF Loaded
<1> HIDE DEF left, right, read
<1>9. \A t \in Table : left[t] = right[t]
  <2>1. left[g] = read[g] \cup {DefaultGroup}
    BY <1>1, <1>2, <1>4, <1>6
  <2> QED
    BY <1>1, <1>4, <1>6, <1>7, <2>1
<1>10. left = right
  BY <1>7, <1>8, <1>9
<1> QED
  BY <1>5, <1>10 DEF left, right, read

\* Where an opening without an open transaction stands.
LEMMA Waiting ==
    ASSUME Inv, NEW i \in Instance, NEW p \in {"seed", "column", "scrub"}, pc[i] = p
    PROVE  /\ pos[i] = 1
           /\ asked[i] = None /\ state[i] = None
           /\ file.tables = Everything
           /\ p = "seed" => work[i] = None /\ file.legacy = None
           /\ p # "seed" /\ work[i] = None =>
                 file.legacy = None /\ file.config = ConfigKey /\ (p = "scrub" => file.column)
BY OfStore DEF PlaceFit, OpeningFit, Opening, Updating

LEMMA SeedConfigStep ==
    ASSUME Inv, NEW i \in Instance, SeedConfig(i)
    PROVE  Inv' /\ Hidden
<1> DEFINE w == IF SeededFile = file THEN None ELSE SeededFile
<1>0. /\ pc[i] = "seed" /\ pos[i] = 1 /\ asked[i] = None /\ state[i] = None
      /\ work[i] = None /\ file.legacy = None /\ file.tables = Everything
      /\ file \in Database /\ FileFit
  BY OfStore, Waiting DEF SeedConfig
<1>1. /\ SeededFile \in Database
      /\ SeededFile.rows = IF Ungrouped(file.rows) THEN Seeded(file.rows) ELSE file.rows
      /\ SeededFile.tables = file.tables
      /\ SeededFile.config = ConfigKey
      /\ SeededFile.column = file.column
      /\ SeededFile.legacy = file.legacy
  BY <1>0, SeededFileType
<1>2. IF SeededFile = file THEN UNCHANGED <<file, work>> ELSE Write(i, SeededFile)
  BY DEF SeedConfig, SeededFile
<1>3. Moves(i, "column", 1, w, None, None) /\ UNCHANGED <<file, asked>>
  BY <1>0, <1>2, StaysPut DEF SeedConfig, Write, Moves, Goto
<1>4. w = None \/ CanWrite(i)
  BY <1>2 DEF Write
<1>5. WorkFit("column", SeededFile, file)
  <2>1. file.rows \in Rows /\ Sound(file.rows)
    BY <1>0, DatabaseFields DEF FileFit
  <2>2. Ungrouped(file.rows) =>
           Sound(Seeded(file.rows)) /\ (Clean(file.rows) => Clean(Seeded(file.rows)))
    BY <2>1, SeedSound DEF Ungrouped, Seeded
  <2> QED
    BY <1>0, <1>1, <2>1, <2>2 DEF WorkFit, Prepared
<1>6. \/ Loaded(SeededFile.rows) = DataOf(file)
      \/ Ungrouped(DataOf(file)) /\ Loaded(SeededFile.rows) = Seeded(DataOf(file))
  BY <1>0, <1>1, LoadedSeeded, DatabaseFields DEF DataOf
<1> HIDE DEF w
<1>7. Fit("column", 1, w, None, None, file)
  <2>1. PlaceFit("column", 1, w, None, None)
    BY DEF PlaceFit, Updating
  <2>2. w # None => w = SeededFile
    BY DEF w
  <2>3. w = None => SeededFile = file
    BY <1>1, DatabaseFields DEF w
  <2>4. OpeningFit("column", 1, w, file)
    BY <1>0, <1>1, <1>6, <2>2, <2>3 DEF OpeningFit
  <2>5. UpdateFit("column", 1, w, None, None, file)
    BY DEF UpdateFit, Updating
  <2> QED
    BY <1>5, <2>1, <2>2, <2>4, <2>5 DEF Fit
<1>8. "column" \in Place /\ w \in Database \cup {None}
  BY <1>1 DEF Place, Opening, w
<1>9. Inv'
  BY <1>3, <1>4, <1>7, <1>8, SameFile, LocalStep
<1> QED
  BY <1>3, <1>9 DEF Hidden

LEMMA EnsureColumnStep ==
    ASSUME Inv, NEW i \in Instance, EnsureColumn(i)
    PROVE  Inv' /\ Hidden
<1> DEFINE old == work[i]  new == [Seen(i) EXCEPT !.column = TRUE]
<1>0. /\ pc[i] = "column" /\ pos[i] = 1 /\ asked[i] = None /\ state[i] = None
      /\ file.tables = Everything
      /\ old = None => file.legacy = None /\ file.config = ConfigKey
      /\ file \in Database /\ FileFit
      /\ old \in Database \cup {None} /\ (old # None => WorkFit("column", old, file))
      /\ OpeningFit("column", 1, old, file)
  BY OfStore, Waiting DEF EnsureColumn
<1>1. "scrub" \in Place /\ \A w : PlaceFit("scrub", 1, w, None, None)
  BY DEF Place, Opening, PlaceFit, Updating
<1>2. \A w, f : UpdateFit("scrub", 1, w, None, None, f)
  BY DEF UpdateFit, Updating
<1>3. CASE Seen(i).column
  <2>1. Moves(i, "scrub", 1, old, None, None) /\ UNCHANGED <<file, asked>>
    BY <1>0, <1>3, StaysPut DEF EnsureColumn, Moves, Goto
  <2>2. old = None \/ CanWrite(i)
    BY DEF Inv, OneWriter, CanWrite
  <2> HIDE DEF old
  <2>3. OpeningFit("scrub", 1, old, file)
    BY <1>0, <1>3 DEF OpeningFit, Seen, old
  <2>4. old # None => WorkFit("scrub", old, file)
    BY <1>0 DEF WorkFit, Opening
  <2>5. Fit("scrub", 1, old, None, None, file)
    BY <1>1, <1>2, <2>3, <2>4 DEF Fit
  <2>6. Inv'
    BY <1>0, <1>1, <2>1, <2>2, <2>5, SameFile, LocalStep
  <2> QED
    BY <2>1, <2>6 DEF Hidden
<1>4. CASE ~Seen(i).column
  <2>0. /\ new \in Database
        /\ new.rows = Seen(i).rows /\ new.tables = Seen(i).tables
        /\ new.config = Seen(i).config /\ new.column = TRUE /\ new.legacy = Seen(i).legacy
    <3>1. Seen(i) \in Database
      BY <1>0 DEF Seen
    <3> QED
      BY <3>1 DEF Database
  <2>1. WriteSchema(i, new)
    BY <1>4 DEF EnsureColumn
  <2>2. CanWrite(i)
    BY <2>1 DEF WriteSchema, Write
  <2> HIDE DEF new
  <2>3. CASE old = None
    <3>1. Moves(i, "scrub", 1, None, None, None) /\ file' = new /\ asked' = asked
      BY <1>0, <2>1, <2>3, StaysPut DEF EnsureColumn, Moves, Goto, WriteSchema
    <3>2. /\ new.rows = file.rows /\ new.tables = file.tables
          /\ new.config = file.config /\ new.column /\ new.legacy = file.legacy
      BY <2>0, <2>3 DEF Seen
    <3>3. Grows(file, new)
      <4>1. Prepared(file) => Prepared(new)
        BY <3>2 DEF Prepared
      <4> QED
        BY <3>2, <4>1 DEF Grows
    <3>4. FileFit'
      BY <1>0, <2>3, <3>1, <3>2 DEF FileFit
    <3>5. OpeningFit("scrub", 1, None, new)
      BY <1>0, <2>3, <3>2 DEF OpeningFit
    <3>6. Fit("scrub", 1, None, None, None, new)
      BY <1>1, <1>2, <3>5 DEF Fit
    <3>7. Inv'
      BY <1>1, <2>0, <2>2, <3>1, <3>3, <3>4, <3>6, LocalStep
    <3>8. DataOf(file)' = DataOf(file)
      BY <3>1, <3>2 DEF DataOf
    <3> QED
      BY <3>1, <3>7, <3>8 DEF Hidden
  <2>4. CASE old # None
    <3>1. Moves(i, "scrub", 1, new, None, None) /\ UNCHANGED <<file, asked>>
      BY <1>0, <2>1, <2>4, StaysPut DEF EnsureColumn, Moves, Goto, WriteSchema, Write
    <3>2. /\ new.rows = old.rows /\ new.tables = old.tables
          /\ new.config = old.config /\ new.column /\ new.legacy = old.legacy
      BY <2>0, <2>4 DEF Seen
    <3> HIDE DEF old
    <3>3. new # None
      BY <2>0, DatabaseFields
    <3>4. WorkFit("scrub", new, file)
      BY <1>0, <2>4, <3>2 DEF WorkFit, Opening
    <3>5. OpeningFit("scrub", 1, new, file)
      BY <1>0, <2>4, <3>2, <3>3 DEF OpeningFit
    <3>6. Fit("scrub", 1, new, None, None, file)
      BY <1>1, <1>2, <3>4, <3>5 DEF Fit
    <3>7. Inv'
      BY <1>1, <2>0, <2>2, <3>1, <3>6, SameFile, LocalStep
    <3> QED
      BY <3>1, <3>7 DEF Hidden
  <2> QED
    BY <2>3, <2>4
<1> QED
  BY <1>3, <1>4

LEMMA ScrubStep ==
    ASSUME Inv, NEW i \in Instance, Scrub(i)
    PROVE  Inv' /\ Hidden
<1> DEFINE old == work[i]  seen == Seen(i)  new == [seen EXCEPT !.rows = Loaded(@)]
<1>0. /\ pc[i] = "scrub" /\ pos[i] = 1 /\ asked[i] = None /\ state[i] = None
      /\ file.tables = Everything
      /\ old = None => file.legacy = None /\ file.config = ConfigKey /\ file.column
      /\ file \in Database /\ FileFit
      /\ old \in Database \cup {None} /\ (old # None => WorkFit("scrub", old, file))
      /\ OpeningFit("scrub", 1, old, file)
  BY OfStore, Waiting DEF Scrub
<1>1. Write(i, new)
  BY DEF Scrub
<1>2. Moves(i, "opened", 1, new, None, None) /\ UNCHANGED <<file, asked>> /\ CanWrite(i)
  BY <1>0, <1>1, StaysPut DEF Scrub, Write, Moves, Goto
<1>3. /\ seen \in Database /\ seen.rows \in Rows
      /\ old = None => seen = file
      /\ old # None => seen = old
  BY <1>0, DatabaseFields DEF Seen
<1>4. Loaded(seen.rows) \in Rows
  BY <1>3, LoadedRows
<1> HIDE DEF seen
<1>5. /\ new \in Database
      /\ new.rows = Loaded(seen.rows) /\ new.tables = seen.tables
      /\ new.config = seen.config /\ new.column = seen.column /\ new.legacy = seen.legacy
  BY <1>3, <1>4 DEF Database
<1> HIDE DEF old, new
<1>6. /\ seen.config = ConfigKey /\ seen.legacy = None /\ seen.column
      /\ seen.tables = Everything
      /\ Sound(seen.rows)
      /\ file.legacy # None => "opened" \in Opening
      /\ \/ Loaded(seen.rows) = DataOf(file)
         \/ Ungrouped(DataOf(file)) /\ Loaded(seen.rows) = Seeded(DataOf(file))
  BY <1>0, <1>3 DEF OpeningFit, WorkFit, FileFit, DataOf, Opening
<1>7. Sound(new.rows) /\ Clean(new.rows) /\ Loaded(new.rows) = Loaded(seen.rows)
  BY <1>3, <1>5, <1>6, LoadedRows
<1>8. Fit("opened", 1, new, None, None, file)
  <2>1. new # None
    BY <1>5, DatabaseFields
  <2>2. PlaceFit("opened", 1, new, None, None)
    BY <2>1 DEF PlaceFit, Updating
  <2>3. WorkFit("opened", new, file)
    BY <1>0, <1>5, <1>6, <1>7 DEF WorkFit
  <2>4. OpeningFit("opened", 1, new, file)
    BY <1>0, <1>5, <1>6, <1>7, <2>1 DEF OpeningFit
  <2>5. UpdateFit("opened", 1, new, None, None, file)
    BY DEF UpdateFit, Updating
  <2> QED
    BY <2>2, <2>3, <2>4, <2>5 DEF Fit
<1>9. "opened" \in Place
  BY DEF Place, Opening
<1>10. Inv'
  BY <1>2, <1>5, <1>8, <1>9, SameFile, LocalStep
<1> QED
  BY <1>2, <1>10 DEF Hidden

\* A transaction is the only one.
LEMMA Alone == ASSUME Inv, NEW i \in Instance, work[i] # None PROVE CanWrite(i)
BY DEF Inv, OneWriter, CanWrite

LEMMA PromiseNames ==
    /\ Promise!Table = Table
    /\ \A S : Promise!Replaced(S) = Replaced(S)
    /\ \A c, rows : Promise!Mutated(c, rows) = Mutated(c, rows)
    /\ \A rows : Promise!ReferencesHold(rows) <=> ReferencesHold(rows)
<1>1. Promise!Table = Table
  BY DEF Promise!Table, Table
<1>2. \A S : Promise!Replaced(S) = Replaced(S)
  BY DEF Promise!Replaced, Replaced, Promise!OneRowPerId, OneRowPerId
<1>3. \A c, rows : Promise!Mutated(c, rows) = Mutated(c, rows)
  BY <1>1 DEF Promise!Mutated, Mutated
<1>4. \A rows : Promise!ReferencesHold(rows) <=> ReferencesHold(rows)
  BY <1>1 DEF Promise!ReferencesHold, ReferencesHold, Promise!Anchored, Anchored,
              Promise!References, References
<1> QED
  BY <1>1, <1>2, <1>3, <1>4

\* The end of an opening does not show, but for the default group.
LEMMA CommitStartStep ==
    ASSUME Inv, NEW i \in Instance, CommitStart(i)
    PROVE  Inv' /\ (Hidden \/ Promise!Seed)
<1> DEFINE old == work[i]
<1>0. /\ PlaceFit("opened", pos[i], old, asked[i], state[i])
      /\ file \in Database
      /\ old \in Database \cup {None} /\ (old # None => WorkFit("opened", old, file))
      /\ OpeningFit("opened", pos[i], old, file)
  BY OfStore DEF CommitStart
<1>1. pos[i] = 1 /\ asked[i] = None /\ state[i] = None /\ old # None /\ CanWrite(i)
  BY <1>0, Alone DEF PlaceFit, Updating
<1>2. Moves(i, "idle", 1, None, None, None) /\ file' = old /\ asked' = asked
  BY <1>1, StaysPut DEF CommitStart, Commit, Moves, Goto
<1> HIDE DEF old
<1>3. /\ old \in Database /\ Sound(old.rows) /\ Clean(old.rows)
      /\ old.tables = Everything /\ old.config = ConfigKey /\ old.column /\ old.legacy = None
      /\ file.tables = old.tables
      /\ \/ Loaded(old.rows) = DataOf(file)
         \/ Ungrouped(DataOf(file)) /\ Loaded(old.rows) = Seeded(DataOf(file))
  BY <1>0, <1>1 DEF WorkFit, OpeningFit, Opening
<1>4. Prepared(old)
  BY <1>3 DEF Prepared
<1>5. Grows(file, old) /\ FileFit'
  BY <1>2, <1>3, <1>4 DEF Grows, FileFit
<1>6. Fit("idle", 1, None, None, None, old)
  BY <1>4 DEF Fit, PlaceFit, OpeningFit, UpdateFit, Opening, Updating
<1>7. Inv'
  <2>1. "idle" \in Place /\ 1 \in 1 .. 8
    BY DEF Place
  <2>2. file' \in Database /\ Grows(file, file') /\ Fit("idle", 1, None, None, None, file')
    BY <1>2, <1>3, <1>5, <1>6
  <2> QED
    BY <1>1, <1>2, <1>5, <2>1, <2>2, LocalStep
<1>8. DataOf(file)' = Loaded(old.rows)
  BY <1>2, <1>3 DEF DataOf
<1>9. CASE Loaded(old.rows) = DataOf(file)
  BY <1>2, <1>7, <1>8, <1>9 DEF Hidden
<1>10. CASE Ungrouped(DataOf(file)) /\ Loaded(old.rows) = Seeded(DataOf(file))
  <2>1. Promise!Seed
    BY <1>2, <1>8, <1>10 DEF Promise!Seed, DataOf, Ungrouped, Seeded
  <2> QED
    BY <1>7, <2>1
<1> QED
  BY <1>3, <1>9, <1>10

LEMMA AskStep ==
    ASSUME Inv, NEW i \in Instance, NEW c \in Change, Ask(i, c)
    PROVE  Inv' /\ Promise!Ask(i, c)
<1>0. /\ PlaceFit("idle", pos[i], work[i], asked[i], state[i])
      /\ UpdateFit("idle", pos[i], work[i], asked[i], state[i], file)
  BY OfStore DEF Ask
<1>1. pos[i] = 1 /\ asked[i] = None /\ state[i] = None /\ work[i] = None /\ Prepared(file)
  BY <1>0 DEF PlaceFit, UpdateFit, Updating
<1>2. Moves(i, "begin", 1, None, c, None) /\ file' = file
  BY <1>1, StaysPut DEF Ask, Moves, Goto
<1>3. c # None
  BY ChangeAssumption
<1>4. Fit("begin", 1, None, c, None, file)
  BY <1>1, <1>3 DEF Fit, PlaceFit, OpeningFit, UpdateFit, Opening, Updating
<1>5. Inv'
  BY <1>2, <1>4, SameFile, LocalStep DEF Place, Updating
<1>6. Promise!Ask(i, c)
  BY <1>1, <1>2 DEF Promise!Ask, Ask
<1> QED
  BY <1>5, <1>6

LEMMA BeginStep ==
    ASSUME Inv, NEW i \in Instance, Begin(i)
    PROVE  Inv' /\ Hidden
<1> DEFINE a == asked[i]  s == Mutated(a, Loaded(file.rows))
<1>0. /\ PlaceFit("begin", pos[i], work[i], a, state[i])
      /\ UpdateFit("begin", pos[i], work[i], a, state[i], file)
      /\ a \in Change \cup {None} /\ file \in Database /\ FileFit
  BY OfStore DEF Begin
<1>1. pos[i] = 1 /\ a \in Change /\ Prepared(file)
  BY <1>0 DEF PlaceFit, UpdateFit, Updating
<1>2. Moves(i, "delete", 1, file, a, s) /\ UNCHANGED <<file, asked>> /\ CanWrite(i)
  BY <1>1, StaysPut DEF Begin, Write, Moves, Goto
<1>3. s \in Rows /\ s # None /\ file # None
  BY <1>0, <1>1, LoadedType, MutatedType, DatabaseFields, FileAssumption
<1>4. a # None
  BY <1>1, ChangeAssumption
<1> HIDE DEF a
<1>5. Fit("delete", 1, file, a, s, file)
  <2>1. PlaceFit("delete", 1, file, a, s)
    BY <1>3, <1>4 DEF PlaceFit, Updating
  <2>2. WorkFit("delete", file, file)
    BY <1>0, <1>1 DEF WorkFit, FileFit, Prepared
  <2>3. OpeningFit("delete", 1, file, file)
    BY DEF OpeningFit, Opening
  <2>4. UpdateFit("delete", 1, file, a, s, file)
    BY <1>1, DeleteOrderSound DEF UpdateFit, Permutation
  <2> QED
    BY <2>1, <2>2, <2>3, <2>4 DEF Fit
<1>6. Inv'
  BY <1>0, <1>1, <1>2, <1>3, <1>5, SameFile, LocalStep DEF Place, Updating
<1> QED
  BY <1>2, <1>6 DEF Hidden

\* The state an update writes.
LEMMA Target ==
    ASSUME Inv, NEW i \in Instance, pc[i] \in {"delete", "insert", "commit"}
    PROVE  /\ asked[i] \in Change /\ asked[i] # None
           /\ state[i] \in Rows /\ state[i] # None
           /\ state[i] = Mutated(asked[i], Loaded(file.rows))
           /\ Clean(state[i])
           /\ Prepared(file) /\ file \in Database
           /\ work[i] \in Database /\ work[i] # None /\ WorkFit(pc[i], work[i], file)
           /\ CanWrite(i)
<1>1. /\ PlaceFit(pc[i], pos[i], work[i], asked[i], state[i])
      /\ UpdateFit(pc[i], pos[i], work[i], asked[i], state[i], file)
      /\ work[i] # None => WorkFit(pc[i], work[i], file)
      /\ work[i] \in Database \cup {None} /\ file \in Database
      /\ asked[i] \in Change \cup {None} /\ state[i] \in Rows \cup {None}
  BY OfStore
<1>2. asked[i] # None /\ state[i] # None /\ work[i] # None
  BY <1>1 DEF PlaceFit, Updating
<1>3. state[i] = Mutated(asked[i], Loaded(file.rows)) /\ Prepared(file)
  BY <1>1 DEF UpdateFit, Updating
<1>4. Clean(state[i])
  <2>1. Loaded(file.rows) \in Rows /\ Clean(Loaded(file.rows))
    BY <1>1, LoadedRows, DatabaseFields
  <2> QED
    BY <1>1, <1>2, <1>3, <2>1, MutatedRows
<1> QED
  BY <1>1, <1>2, <1>3, <1>4, Alone

LEMMA DeleteTableStep ==
    ASSUME Inv, NEW i \in Instance, DeleteTable(i)
    PROVE  Inv' /\ Hidden
<1> DEFINE k == pos[i]  a == asked[i]  s == state[i]  old == work[i]
           t == DeleteOrder[k]
           config == IF k < 7 THEN old.config ELSE ConfigKey
           w == [old EXCEPT !.rows = Deleted(@, t), !.config = config]
           p == IF k < 7 THEN "delete" ELSE "insert"
           next == IF k < 7 THEN k + 1 ELSE 1
<1>0. /\ a \in Change /\ a # None /\ s \in Rows /\ s # None
      /\ s = Mutated(a, Loaded(file.rows))
      /\ Prepared(file) /\ file \in Database
      /\ old \in Database /\ old # None /\ WorkFit("delete", old, file)
      /\ CanWrite(i)
  BY Target DEF DeleteTable
<1>1. k \in 1 .. 7 /\ \A u \in Table : u \in Done(DeleteOrder, k) => old.rows[u] = {}
  BY OfStore DEF DeleteTable, PlaceFit, UpdateFit
<1>2. t \in Table /\ Done(DeleteOrder, k + 1) = Done(DeleteOrder, k) \cup {t}
  BY <1>1, DeleteOrderSound DEF Permutation
<1>3. Deletable(old.rows, t)
  BY DEF DeleteTable
<1>4. Moves(i, p, next, w, a, s) /\ UNCHANGED <<file, asked>>
  BY StaysPut DEF DeleteTable, Write, Moves, Goto
<1>5. config \in SUBSET ConfigKey /\ (k = 7 => config = ConfigKey)
      /\ (file.config = ConfigKey => config = ConfigKey)
  BY <1>0, DatabaseFields DEF WorkFit
<1> HIDE DEF t, config, old
<1>6. /\ w \in Database
      /\ w.rows = Deleted(old.rows, t)
      /\ w.tables = old.tables
      /\ w.config = config
      /\ w.column = old.column
      /\ w.legacy = old.legacy
  <2>1. Deleted(old.rows, t) \in Rows
    BY <1>0, <1>2, DeletedType, DatabaseFields
  <2> QED
    BY <1>0, <1>5, <2>1 DEF Database
<1> HIDE DEF w
<1>7. /\ Sound(w.rows) /\ w.rows[t] = {}
      /\ \A u \in Table : w.rows[u] \subseteq old.rows[u]
  BY <1>0, <1>2, <1>3, <1>6, DeleteSound, DatabaseFields DEF WorkFit
<1>8. \A u \in Table : u \in Done(DeleteOrder, k + 1) => w.rows[u] = {}
  BY <1>1, <1>2, <1>7
<1>9. WorkFit(p, w, file)
  <2>1. Prepared(file) => Clean(w.rows)
    BY <1>0, <1>7 DEF WorkFit, Clean
  <2> QED
    BY <1>0, <1>5, <1>6, <1>7, <2>1 DEF WorkFit, Prepared
<1>10. UpdateFit(p, next, w, a, s, file)
  <2>1. k = 7 => Done(DeleteOrder, k + 1) = Table
    BY DeleteOrderSound DEF Permutation
  <2>2. Done(InsertOrder, 1) = {}
    BY InsertOrderSound DEF Permutation
  <2> QED
    BY <1>0, <1>1, <1>5, <1>6, <1>8, <2>1, <2>2 DEF UpdateFit
<1>11. Fit(p, next, w, a, s, file)
  <2>1. w # None
    BY <1>6, DatabaseFields
  <2>2. PlaceFit(p, next, w, a, s)
    BY <1>0, <1>1, <2>1 DEF PlaceFit, Updating
  <2>3. OpeningFit(p, next, w, file)
    BY DEF OpeningFit, Opening
  <2> QED
    BY <1>9, <1>10, <2>2, <2>3 DEF Fit
<1>12. p \in Place /\ next \in 1 .. 8
  BY <1>1 DEF Place, Updating
<1> HIDE DEF k, a, s, p, next
<1>13. Inv'
  BY <1>0, <1>4, <1>6, <1>11, <1>12, SameFile, LocalStep
<1> QED
  BY <1>4, <1>13 DEF Hidden

LEMMA InsertTableStep ==
    ASSUME Inv, NEW i \in Instance, InsertTable(i)
    PROVE  Inv' /\ Hidden
<1> DEFINE k == pos[i]  a == asked[i]  s == state[i]  old == work[i]
           t == InsertOrder[k]
           p == IF k < 7 THEN "insert" ELSE "commit"
           next == IF k < 7 THEN k + 1 ELSE 1
<1>0. /\ a \in Change /\ a # None /\ s \in Rows /\ s # None
      /\ s = Mutated(a, Loaded(file.rows)) /\ Clean(s)
      /\ Prepared(file) /\ file \in Database
      /\ old \in Database /\ old # None /\ WorkFit("insert", old, file)
      /\ CanWrite(i)
  BY Target DEF InsertTable
<1>1. /\ k \in 1 .. 7
      /\ old.config = ConfigKey
      /\ \A u \in Table :
            IF u \in Done(InsertOrder, k) THEN old.rows[u] \in Replaced(s[u]) ELSE old.rows[u] = {}
  BY OfStore DEF InsertTable, PlaceFit, UpdateFit
<1>2. t \in Table \ Done(InsertOrder, k) /\ Done(InsertOrder, k + 1) = Done(InsertOrder, k) \cup {t}
  BY <1>1, InsertOrderSound DEF Permutation
<1>3. PICK kept \in Replaced(s[t]) : Write(i, [old EXCEPT !.rows[t] = kept])
  BY DEF InsertTable
<1>4. Insertable(old, t, s[t])
  BY DEF InsertTable
<1> DEFINE rows == [old.rows EXCEPT ![t] = kept]
           w == [old EXCEPT !.rows[t] = kept]
<1>5. Moves(i, p, next, w, a, s) /\ UNCHANGED <<file, asked>>
  BY <1>3, StaysPut DEF InsertTable, Write, Moves, Goto
<1> HIDE DEF t, s, old
<1>6. kept \subseteq s[t] /\ OneRowPerId(kept)
  BY <1>3, ReplacedSub
<1>7. rows \in Rows /\ w = [old EXCEPT !.rows = rows]
  BY <1>0, <1>2, <1>3, FillType
<1>8. rows[t] = kept /\ \A u \in Table \ {t} : rows[u] = old.rows[u]
  <2>1. old.rows \in Rows
    BY <1>0, DatabaseFields
  <2>2. rows = [u \in Table |-> IF u = t THEN kept ELSE old.rows[u]]
    BY <1>2, <2>1, RowsExcept
  <2> HIDE DEF rows
  <2> QED
    BY <1>2, <2>2
<1>9. Sound(rows)
  <2>1. old.rows \in Rows /\ Sound(old.rows)
    BY <1>0, DatabaseFields DEF WorkFit
  <2>2. kept \subseteq Row[t]
    BY <1>0, <1>2, <1>6, RowsElim
  <2>3. old.rows[t] = {}
    BY <1>1, <1>2
  <2>4. \A r \in kept : Anchored(old.rows, t, r)
    BY <1>4, <1>6 DEF Insertable
  <2> QED
    BY <1>2, <1>6, <2>1, <2>2, <2>3, <2>4, InsertSound
<1> HIDE DEF rows, w
<1>10. /\ w \in Database
       /\ w.rows = rows /\ w.tables = old.tables /\ w.config = old.config
       /\ w.column = old.column /\ w.legacy = old.legacy
  BY <1>0, <1>7 DEF Database
<1>11. \A u \in Table : IF u \in Done(InsertOrder, k + 1) THEN rows[u] \in Replaced(s[u])
                        ELSE rows[u] = {}
  BY <1>1, <1>2, <1>3, <1>8
<1>12. WorkFit(p, w, file)
  <2>1. Clean(rows)
    BY <1>0, <1>1, <1>11, ReplacedSub DEF Clean
  <2> QED
    BY <1>0, <1>9, <1>10, <2>1 DEF WorkFit, Prepared
<1>13. UpdateFit(p, next, w, a, s, file)
  <2>1. k = 7 => Done(InsertOrder, k + 1) = Table
    BY InsertOrderSound DEF Permutation
  <2> QED
    BY <1>0, <1>1, <1>10, <1>11, <2>1 DEF UpdateFit
<1>14. Fit(p, next, w, a, s, file)
  <2>1. w # None
    BY <1>10, DatabaseFields
  <2>2. PlaceFit(p, next, w, a, s)
    BY <1>0, <1>1, <2>1 DEF PlaceFit, Updating
  <2>3. OpeningFit(p, next, w, file)
    BY DEF OpeningFit, Opening
  <2> QED
    BY <1>12, <1>13, <2>2, <2>3 DEF Fit
<1>15. p \in Place /\ next \in 1 .. 8
  BY <1>1 DEF Place, Updating
<1> HIDE DEF k, a, p, next
<1>16. Inv'
  BY <1>0, <1>5, <1>10, <1>14, <1>15, SameFile, LocalStep
<1> QED
  BY <1>5, <1>16 DEF Hidden

\* The end of an update is where its change is made.
LEMMA CommitUpdateStep ==
    ASSUME Inv, NEW i \in Instance, CommitUpdate(i)
    PROVE  Inv' /\ Promise!Grant(i)
<1> DEFINE s == state[i]  old == work[i]
<1>0. /\ asked[i] \in Change /\ asked[i] # None /\ s \in Rows
      /\ s = Mutated(asked[i], Loaded(file.rows)) /\ Clean(s)
      /\ Prepared(file) /\ file \in Database
      /\ old \in Database /\ old # None /\ WorkFit("commit", old, file)
      /\ CanWrite(i)
  BY Target DEF CommitUpdate
<1>1. /\ pos[i] = 1
      /\ old.config = ConfigKey
      /\ \A u \in Table : old.rows[u] \in Replaced(s[u])
  BY OfStore DEF CommitUpdate, PlaceFit, UpdateFit
<1>2. Moves(i, "idle", 1, None, None, None) /\ file' = old
  BY <1>1, StaysPut DEF CommitUpdate, Commit, Moves, Goto
<1> HIDE DEF old, s
<1>3. /\ old.rows \in Rows /\ Sound(old.rows) /\ Clean(old.rows)
      /\ old.tables = Everything /\ old.column /\ old.legacy = None
  BY <1>0, DatabaseFields DEF WorkFit, Prepared
<1>4. Prepared(old)
  BY <1>1, <1>3 DEF Prepared
<1>5. Grows(file, old) /\ FileFit'
  BY <1>0, <1>1, <1>2, <1>3, <1>4 DEF Grows, FileFit, Prepared
<1>6. Fit("idle", 1, None, None, None, old)
  BY <1>4 DEF Fit, PlaceFit, OpeningFit, UpdateFit, Opening, Updating
<1>7. Inv'
  <2>1. "idle" \in Place /\ 1 \in 1 .. 8
    BY DEF Place
  <2>2. file' \in Database /\ Grows(file, file') /\ Fit("idle", 1, None, None, None, file')
    BY <1>0, <1>2, <1>5, <1>6
  <2> QED
    BY <1>0, <1>2, <1>5, <2>1, <2>2, LocalStep
<1>8. DataOf(file) = Loaded(file.rows) /\ DataOf(file)' = old.rows
  BY <1>0, <1>2, <1>3, LoadedRows DEF DataOf, Prepared
<1>9. Promise!Grant(i)
  <2>1. old.rows \in [Table -> SUBSET UNION {Row[t] : t \in Table}]
    BY <1>3 DEF Rows
  <2>2. \A t \in Table : old.rows[t] \in Replaced(Mutated(asked[i], DataOf(file))[t])
    BY <1>0, <1>1, <1>8
  <2>3. ReferencesHold(old.rows)
    BY <1>3 DEF Sound
  <2>4. asked' = [asked EXCEPT ![i] = None]
    BY <1>2 DEF Moves
  <2>5. DataOf(file)' \in [Promise!Table -> SUBSET UNION {Row[t] : t \in Promise!Table}]
    BY <1>8, <2>1, PromiseNames
  <2>6. \A t \in Promise!Table :
           DataOf(file)'[t] \in Promise!Replaced(Promise!Mutated(asked[i], DataOf(file))[t])
    BY <1>8, <2>2, PromiseNames
  <2>7. Promise!ReferencesHold(DataOf(file)')
    BY <1>8, <2>3, PromiseNames
  <2> QED
    BY <1>0, <2>4, <2>5, <2>6, <2>7 DEF Promise!Grant, DataOf
<1> QED
  BY <1>7, <1>9

\* Failures and stops do not show, except that an update is refused.
LEMMA AbandonStep ==
    ASSUME Inv, NEW i \in Instance, NEW p \in {"idle", "down"}, Abandon(i, p), pc[i] # "down",
           p = "idle" => pc[i] \in Updating
    PROVE  Inv' /\ (Hidden \/ Promise!Refuse(i))
<1>1. Moves(i, p, 1, None, None, None) /\ file' = file
  BY DEF Abandon, Moves, Goto
<1>2. p = "idle" => Prepared(file)
  BY OfStore DEF UpdateFit
<1>3. Fit(p, 1, None, None, None, file)
  BY <1>2 DEF Fit, PlaceFit, OpeningFit, UpdateFit, Opening, Updating
<1>4. Inv'
  BY <1>1, <1>3, SameFile, LocalStep DEF Place
<1>5. CASE asked[i] = None
  <2>1. asked' = asked
    BY <1>1, <1>5, StaysPut DEF Moves
  <2> QED
    BY <1>1, <1>4, <2>1 DEF Hidden
<1>6. CASE asked[i] # None
  <2>1. Promise!Refuse(i)
    BY <1>1, <1>6 DEF Promise!Refuse, Moves
  <2> QED
    BY <1>4, <2>1
<1> QED
  BY <1>5, <1>6

-------------------------------------------------------------------------------
(* Theorems *)

LEMMA InitInv == Init => Inv
<1> SUFFICES ASSUME Init
             PROVE  Inv
  OBVIOUS
<1>1. file \in File /\ file \in Database
  BY FileAssumption DEF Init
<1>2. TypeOK
  BY <1>1 DEF Init, TypeOK
<1>3. FileFit
  BY <1>1, FileAssumption DEF FileFit, Sound
<1>4. \A i \in Instance : Fit("down", 1, None, None, None, file)
  BY DEF Fit, PlaceFit, OpeningFit, UpdateFit, Opening, Updating
<1> QED
  BY <1>2, <1>3, <1>4 DEF Init, Inv, OneWriter, SoleImporter

\* A step of the store is a step of its promise, or none.
LEMMA NextInv ==
    ASSUME Inv, [Next]_vars
    PROVE  Inv' /\ (Hidden \/ Promise!Next)
<1>1. CASE UNCHANGED vars
  <2>1. Inv'
    BY <1>1 DEF vars, Inv, TypeOK, FileFit, OneWriter, SoleImporter
  <2> QED
    BY <1>1, <2>1 DEF vars, Hidden
<1>2. ASSUME NEW i \in Instance, Start(i) PROVE Inv' /\ (Hidden \/ Promise!Next)
  BY <1>2, StartStep
<1>3. ASSUME NEW i \in Instance, NEW c \in Change, Ask(i, c)
      PROVE  Inv' /\ (Hidden \/ Promise!Next)
  BY <1>3, AskStep DEF Promise!Next
<1>4. ASSUME NEW i \in Instance, Fail(i) \/ Refuse(i) \/ TimeOut(i)
      PROVE  Inv' /\ (Hidden \/ Promise!Next)
  <2>1. Abandon(i, IF pc[i] \in Updating THEN "idle" ELSE "down")
    BY <1>4 DEF Fail, Refuse, TimeOut, Raise
  <2>3. pc[i] # "down"
    BY <1>4 DEF Fail, Refuse, Refused, TimeOut, Opening, Updating
  <2>2. Inv' /\ (Hidden \/ Promise!Refuse(i))
    BY <2>1, <2>3, AbandonStep
  <2> QED
    BY <2>2 DEF Promise!Next
<1>5. ASSUME NEW i \in Instance, Crash(i) PROVE Inv' /\ (Hidden \/ Promise!Next)
  <2>1. Inv' /\ (Hidden \/ Promise!Refuse(i))
    BY <1>5, AbandonStep DEF Crash
  <2> QED
    BY <2>1 DEF Promise!Next
<1>6. ASSUME NEW i \in Instance, CreateTable(i) \/ LookForLegacy(i) \/ ImportConfig(i)
                                 \/ ImportTable(i) \/ DropLegacy(i)
      PROVE  Inv' /\ (Hidden \/ Promise!Next)
  BY <1>6, CreateTableStep, LookForLegacyStep, ImportConfigStep, ImportTableStep, DropLegacyStep
<1>7. ASSUME NEW i \in Instance, SeedConfig(i) \/ EnsureColumn(i) \/ Scrub(i)
      PROVE  Inv' /\ (Hidden \/ Promise!Next)
  BY <1>7, SeedConfigStep, EnsureColumnStep, ScrubStep
<1>8. ASSUME NEW i \in Instance, CommitStart(i) PROVE Inv' /\ (Hidden \/ Promise!Next)
  BY <1>8, CommitStartStep DEF Promise!Next
<1>9. ASSUME NEW i \in Instance, Begin(i) \/ DeleteTable(i) \/ InsertTable(i)
      PROVE  Inv' /\ (Hidden \/ Promise!Next)
  BY <1>9, BeginStep, DeleteTableStep, InsertTableStep
<1>10. ASSUME NEW i \in Instance, CommitUpdate(i) PROVE Inv' /\ (Hidden \/ Promise!Next)
  BY <1>10, CommitUpdateStep DEF Promise!Next
<1>11. CASE Next
  <2>1. PICK i \in Instance : \/ Start(i)
                              \/ \E c \in Change : Ask(i, c)
                              \/ Step(i)
                              \/ Fail(i)
                              \/ Crash(i)
    BY <1>11 DEF Next
  <2>2. CASE Step(i)
    BY <2>2, <1>4, <1>6, <1>7, <1>8, <1>9, <1>10 DEF Step
  <2> QED
    BY <2>1, <2>2, <1>2, <1>3, <1>4, <1>5
<1> QED
  BY <1>1, <1>11

\* The invariant the theorems below rest on: each store is where its statements say,
\* its transaction has lost nothing the file has, and the file fits between them.
THEOREM Invariance == Spec => []Inv
<1>1. Inv /\ [Next]_vars => Inv'
  BY NextInv
<1> QED
  BY <1>1, InitInv, PTL DEF Spec

\* The file and every open transaction are databases of the schema, and no
\* statement is about a table that does not exist.
THEOREM TypeCorrect == Spec => []TypeOK
<1>1. Inv => TypeOK
  BY DEF Inv
<1> QED
  BY <1>1, Invariance, PTL

\* A store that serves has a complete, current database under it, whatever was
\* there when it was opened and wherever earlier openings stopped.
THEOREM ServesPreparedAlways == Spec => []ServesPrepared
<1>1. Inv => ServesPrepared
  <2> SUFFICES ASSUME Inv, NEW i \in Instance, pc[i] \in {"idle"} \cup Updating
               PROVE  /\ file.tables = Table \cup {"app_config"}
                      /\ file.config = ConfigKey
                      /\ file.column
                      /\ file.legacy = None
                      /\ \A t \in Table : \A r \in file.rows[t] : ~r.stray
    BY DEF ServesPrepared
  <2>1. Prepared(file)
    BY OfStore DEF UpdateFit
  <2> QED
    BY <2>1 DEF Prepared, Everything, Clean
<1> QED
  BY <1>1, Invariance, PTL

\* Rows in the file have the row they refer to and an id of their own, at every
\* moment at which the process can stop.
THEOREM FileSoundAlways == Spec => []FileSound
<1>1. Inv => FileSound
  BY DEF Inv, FileFit, Sound, FileSound
<1> QED
  BY <1>1, Invariance, PTL

\* Parents that have been filled in anchor what comes after them.
LEMMA FilledAnchors ==
    ASSUME NEW order, ParentsFirst(order), NEW k \in 1 .. 7, order[k] \in Table,
           NEW rows, ReferencesHold(rows), NEW filled,
           \A u \in Table : u \in Done(order, k) => filled[u] \in Replaced(rows[u])
    PROVE  \A r \in rows[order[k]] : Anchored(filled, order[k], r)
<1> SUFFICES ASSUME NEW r \in rows[order[k]], NEW ref \in References, ref[1] = order[k]
             PROVE  \E p \in filled[ref[2]] : p.id = r.parent
  BY DEF Anchored
<1>1. ref[2] \in Table /\ ref[2] \in Done(order, k)
  BY NoSelfReference DEF ParentsFirst
<1>2. PICK q \in rows[ref[2]] : q.id = r.parent
  BY DEF ReferencesHold, Anchored
<1>3. PICK p \in filled[ref[2]] : p.id = q.id
  <2>1. filled[ref[2]] \in Replaced(rows[ref[2]])
    BY <1>1
  <2>2. \A x \in rows[ref[2]] : \E y \in filled[ref[2]] : y.id = x.id
    BY <2>1 DEF Replaced
  <2> QED
    BY <2>2
<1> QED
  BY <1>2, <1>3

\* The orders of the statements are right: only a state that itself breaks a
\* foreign key is refused in the middle of a transaction.
THEOREM StatementsFitAlways == Spec => []StatementsFit
<1>1. ASSUME Inv, NEW i \in Instance, pc[i] = "delete"
      PROVE  ~Refused(i)
  <2> DEFINE k == pos[i]  old == work[i]  t == DeleteOrder[k]
  <2>1. k \in 1 .. 7 /\ \A u \in Table : u \in Done(DeleteOrder, k) => old.rows[u] = {}
    BY <1>1, OfStore DEF PlaceFit, UpdateFit
  <2> HIDE DEF k, old
  <2>2. Deletable(old.rows, t)
    BY <2>1, DeleteOrderSound, NoSelfReference DEF Deletable, ChildrenFirst
  <2> QED
    BY <1>1, <2>2 DEF Refused, k, old
<1>2. ASSUME Inv, NEW i \in Instance, pc[i] = "insert", ReferencesHold(state[i])
      PROVE  ~Refused(i)
  <2> DEFINE k == pos[i]  old == work[i]  t == InsertOrder[k]  s == state[i]
  <2>1. /\ k \in 1 .. 7
        /\ \A u \in Table : u \in Done(InsertOrder, k) => old.rows[u] \in Replaced(s[u])
        /\ old.column
    BY <1>2, OfStore, Target DEF PlaceFit, UpdateFit, WorkFit, Prepared
  <2>2. InsertOrder[k] \in Table /\ ParentsFirst(InsertOrder)
    BY <2>1, InsertOrderSound DEF Permutation
  <2>3. ReferencesHold(s)
    BY <1>2
  <2> HIDE DEF k, old, s
  <2>4. \A r \in s[InsertOrder[k]] : Anchored(old.rows, InsertOrder[k], r)
    BY <2>1, <2>2, <2>3, FilledAnchors
  <2>5. Insertable(old, InsertOrder[k], s[InsertOrder[k]])
    BY <2>1, <2>4 DEF Insertable
  <2> QED
    BY <1>2, <2>5 DEF Refused, k, old, s
<1>3. ASSUME Inv, NEW i \in Instance, pc[i] = "import", ReferencesHold(Imported(file.legacy))
      PROVE  ~Refused(i)
  <2> DEFINE k == pos[i]  old == work[i]  t == ImportOrder[k]  s == Imported(file.legacy)
  <2> SUFFICES ASSUME old # None
               PROVE  Insertable(old, ImportOrder[k], Imported(old.legacy)[ImportOrder[k]])
    BY <1>3 DEF Refused
  <2>1. /\ k \in 1 .. 7
        /\ file.legacy # None /\ file \in Database /\ FileFit
        /\ \A u \in Table : old.rows[u] = IF u \in Done(ImportOrder, k) THEN s[u] ELSE {}
        /\ old.column /\ old.legacy = file.legacy
    BY <1>3, OfStore DEF PlaceFit, OpeningFit
  <2>2. ImportOrder[k] \in Table /\ ParentsFirst(ImportOrder)
    BY <2>1, ImportOrderSound DEF Permutation
  <2>3. ReferencesHold(s) /\ IdsDistinct(s)
    BY <1>3, <2>1, ImportedRows, DatabaseFields DEF FileFit
  <2> HIDE DEF k, old, s
  <2>4. \A u \in Table : u \in Done(ImportOrder, k) => old.rows[u] \in Replaced(s[u])
    BY <2>1, <2>3, ReplacedSelf DEF IdsDistinct
  <2>5. \A r \in s[ImportOrder[k]] : Anchored(old.rows, ImportOrder[k], r)
    BY <2>1, <2>2, <2>3, <2>4, FilledAnchors
  <2> QED
    BY <2>1, <2>5 DEF Insertable, s
<1>4. Inv => StatementsFit
  BY <1>1, <1>2, <1>3 DEF StatementsFit
<1> QED
  BY <1>4, Invariance, PTL

\* With statements, stops, failures and other stores between them, updates are
\* what their callers take them for: changes of the latest state, whole or not at
\* all.
THEOREM StoreIsAtomic == Spec => ImplementsAtomicStore
<1>1. Init => Promise!Init
  <2> SUFFICES ASSUME Init
               PROVE  Promise!Init
    OBVIOUS
  <2>1. file \in Database
    BY FileAssumption DEF Init
  <2>2. DataOf(file) \in Rows
    BY <2>1, DatabaseFields, LoadedType, ImportedRows DEF DataOf
  <2>3. DataOf(file) \in [Promise!Table -> SUBSET UNION {Row[t] : t \in Promise!Table}]
    BY <2>2, PromiseNames DEF Rows
  <2> QED
    BY <2>3 DEF Promise!Init, Init, DataOf
<1>2. Inv /\ [Next]_vars => [Promise!Next]_<<DataOf(file), asked>>
  BY NextInv DEF Hidden
<1> QED
  BY <1>1, <1>2, Invariance, PTL DEF Spec, ImplementsAtomicStore, Promise!Spec, DataOf

-------------------------------------------------------------------------------
(* A store always has a statement to make *)

\* Of any rows, one of each id can be kept.
LEMMA ReplacedExists ==
    ASSUME NEW S
    PROVE  Replaced(S) # {}
<1> DEFINE One(x) == CHOOSE r \in S : r.id = x
           K == {One(x) : x \in {r.id : r \in S}}
<1>1. \A r \in S : One(r.id) \in S /\ One(r.id).id = r.id /\ One(r.id) \in K
  OBVIOUS
<1>2. \A k \in K : \E r \in S : k = One(r.id)
  OBVIOUS
<1> HIDE DEF One, K
<1>3. K \subseteq S /\ \A r \in S : \E k \in K : k.id = r.id
  BY <1>1, <1>2
<1>4. ASSUME NEW j \in K, NEW k \in K, j.id = k.id
      PROVE  j = k
  BY <1>1, <1>2, <1>4
<1>5. OneRowPerId(K)
  BY <1>4 DEF OneRowPerId
<1>6. K \in Replaced(S)
  BY <1>3, <1>5 DEF Replaced
<1> QED
  BY <1>6

\* The statement i is at finds what it works on: its open transaction, a table in the
\* order, and rows of which the table can take one of each id.
Passes(i) ==
    \/ pc[i] \in {"ddl", "legacy", "seed", "column", "scrub", "begin"}
    \/ pc[i] \in {"drop", "opened", "commit"} /\ work[i] # None
    \/ pc[i] = "import" /\ work[i] = None
    \/ /\ pc[i] = "import" /\ work[i] # None /\ pos[i] \in 1..7
       /\ LET t == ImportOrder[pos[i]]
              new == Imported(work[i].legacy)[t]
          IN Insertable(work[i], t, new) /\ Replaced(new) # {}
    \/ /\ pc[i] = "delete" /\ work[i] # None /\ pos[i] \in 1..7
       /\ Deletable(work[i].rows, DeleteOrder[pos[i]])
    \/ /\ pc[i] = "insert" /\ work[i] # None /\ pos[i] \in 1..7
       /\ LET t == InsertOrder[pos[i]]
          IN Insertable(work[i], t, state[i][t]) /\ Replaced(state[i][t]) # {}

\* A store whose turn it is to write passes or is refused; another one times out.
Ready(i) ==
    /\ pc[i] \in Opening \cup Updating
    /\ CanWrite(i) => Passes(i) \/ Refused(i)

LEMMA AlwaysReady ==
    ASSUME Inv, NEW i \in Instance, pc[i] \in Opening \cup Updating
    PROVE  Ready(i)
<1>1. PlaceFit(pc[i], pos[i], work[i], asked[i], state[i])
  BY OfStore
<1>2. CASE pc[i] = "import" /\ work[i] # None
  <2> DEFINE t == ImportOrder[pos[i]]  new == Imported(work[i].legacy)[t]
  <2>1. Replaced(new) # {}
    BY ReplacedExists
  <2> QED
    BY <1>1, <1>2, <2>1 DEF PlaceFit, Passes, Refused, Ready
<1>3. CASE pc[i] = "insert"
  <2> DEFINE t == InsertOrder[pos[i]]
  <2>1. Replaced(state[i][t]) # {}
    BY ReplacedExists
  <2> QED
    BY <1>1, <1>3, <2>1 DEF PlaceFit, Passes, Refused, Ready
<1>4. CASE pc[i] = "delete"
  BY <1>1, <1>4 DEF PlaceFit, Passes, Refused, Ready
<1>5. CASE pc[i] \notin {"insert", "delete"} /\ (pc[i] = "import" => work[i] = None)
  BY <1>1, <1>5 DEF PlaceFit, Passes, Ready, Opening, Updating
<1> QED
  BY <1>2, <1>3, <1>4, <1>5

\* Such a guard is all that a step needs: the meaning of ENABLED for Step, which the
\* provers cannot derive.
GuardsSuffice ==
    \A i \in Instance : TypeOK /\ Ready(i) => ENABLED <<Step(i)>>_vars

-------------------------------------------------------------------------------
(* Openings and updates end *)

\* Statements that a store is from its return, at most, by its place p; k is pos
\* and w is work, as above.
Ahead(p, k, w) ==
    CASE p \in {"down", "idle"} -> 0
      [] p \in {"opened", "commit"} -> 1
      [] p = "scrub" -> 2
      [] p = "column" -> 3
      [] p \in {"seed", "drop"} -> 4
      [] p = "import" -> IF w = None THEN 12 ELSE 12 - k
      [] p = "legacy" -> 13
      [] p = "ddl" -> 22 - k
      [] p = "insert" -> 9 - k
      [] p = "delete" -> 16 - k
      [] p = "begin" -> 16

Left(i) == Ahead(pc[i], pos[i], work[i])

\* Ahead as a table of the places.
LEMMA AheadAt ==
    ASSUME NEW p \in Place, NEW k \in 1..8, NEW w, p # "ddl" => k \in 1..7
    PROVE  /\ p \in {"down", "idle"} => Ahead(p, k, w) = 0
           /\ p \in {"opened", "commit"} => Ahead(p, k, w) = 1
           /\ p = "scrub" => Ahead(p, k, w) = 2
           /\ p = "column" => Ahead(p, k, w) = 3
           /\ p \in {"seed", "drop"} => Ahead(p, k, w) = 4
           /\ p = "import" /\ w = None => Ahead(p, k, w) = 12
           /\ p = "import" /\ w # None => Ahead(p, k, w) = 12 - k
           /\ p = "legacy" => Ahead(p, k, w) = 13
           /\ p = "ddl" => Ahead(p, k, w) = 22 - k
           /\ p = "insert" => Ahead(p, k, w) = 9 - k
           /\ p = "delete" => Ahead(p, k, w) = 16 - k
           /\ p = "begin" => Ahead(p, k, w) = 16
BY DEF Ahead

LEMMA AheadType ==
    ASSUME NEW p \in Place, NEW k \in 1..8, NEW w, p # "ddl" => k \in 1..7
    PROVE  /\ Ahead(p, k, w) \in 0..21
           /\ Ahead(p, k, w) = 0 <=> p \in {"down", "idle"}
           /\ Ahead(p, k, w) = 0 <=> p \notin Opening \cup Updating
BY AheadAt DEF Place, Opening, Updating

LEMMA LeftType ==
    ASSUME Inv, NEW i \in Instance
    PROVE  /\ Left(i) \in 0..21
           /\ Left(i) = 0 <=> pc[i] \in {"down", "idle"}
           /\ Left(i) = 0 <=> pc[i] \notin Opening \cup Updating
BY OfStore, AheadType DEF Left, PlaceFit

\* Where a store goes, and no other.
LEMMA LeftGoes ==
    ASSUME Inv, Inv', NEW i \in Instance, NEW p, NEW k, NEW w,
           pc' = [pc EXCEPT ![i] = p], pos' = [pos EXCEPT ![i] = k],
           work' = [work EXCEPT ![i] = w]
    PROVE  /\ pc'[i] = p /\ pos'[i] = k /\ work'[i] = w
           /\ p \in Place /\ k \in 1..8 /\ (p # "ddl" => k \in 1..7)
           /\ p = "import" /\ k # 1 => w # None
           /\ Left(i)' = Ahead(p, k, w)
           /\ \A j \in Instance \ {i} : Left(j)' = Left(j)
<1>1. /\ pc \in [Instance -> Place] /\ pos \in [Instance -> 1 .. 8]
      /\ work \in [Instance -> Database \cup {None}]
  BY DEF Inv, TypeOK, Place
<1>2. pc'[i] = p /\ pos'[i] = k /\ work'[i] = w
  BY <1>1
<1>3. PlaceFit(p, k, w, asked'[i], state'[i])
  BY <1>2 DEF Inv, Fit
<1>4. p \in Place /\ k \in 1..8
  BY <1>2 DEF Inv, TypeOK, Place
<1>5. Left(i)' = Ahead(p, k, w)
  BY <1>2 DEF Left
<1>6. \A j \in Instance \ {i} : pc'[j] = pc[j] /\ pos'[j] = pos[j] /\ work'[j] = work[j]
  BY <1>1
<1>7. \A j \in Instance \ {i} : Left(j)' = Left(j)
  BY <1>6 DEF Left
<1> QED
  BY <1>2, <1>3, <1>4, <1>5, <1>7 DEF PlaceFit

\* Every statement brings a store nearer to its return, and no other store further.
LEMMA StepNearer ==
    ASSUME Inv, Inv', NEW i \in Instance, Step(i)
    PROVE  Left(i)' \in 0..Left(i) - 1 /\ \A j \in Instance \ {i} : Left(j)' = Left(j)
<1> DEFINE p == pc[i]  k == pos[i]  w == work[i]
           Nearer == Left(i)' \in 0..Left(i) - 1 /\ \A j \in Instance \ {i} : Left(j)' = Left(j)
<1>1. p \in Place /\ k \in 1..8 /\ (p # "ddl" => k \in 1..7)
  BY OfStore DEF PlaceFit
<1>2. Left(i) = Ahead(p, k, w)
  BY DEF Left
<1>3. /\ pc = [pc EXCEPT ![i] = p] /\ pos = [pos EXCEPT ![i] = k]
      /\ work = [work EXCEPT ![i] = w]
  BY StaysPut
<1> HIDE DEF p, k, w
<1>4. ASSUME NEW q, NEW l, NEW v, pc' = [pc EXCEPT ![i] = q], pos' = [pos EXCEPT ![i] = l],
             work' = [work EXCEPT ![i] = v],
             /\ q \in Place /\ l \in 1..8 /\ (q # "ddl" => l \in 1..7)
             /\ q = "import" /\ l # 1 => v # None
             => Ahead(q, l, v) < Ahead(p, k, w)
      PROVE  Nearer
  <2>1. /\ q \in Place /\ l \in 1..8 /\ (q # "ddl" => l \in 1..7)
        /\ q = "import" /\ l # 1 => v # None
        /\ Left(i)' = Ahead(q, l, v)
        /\ \A j \in Instance \ {i} : Left(j)' = Left(j)
    BY <1>4, LeftGoes
  <2>2. Ahead(q, l, v) \in 0..21 /\ Ahead(p, k, w) \in 0..21
    BY <1>1, <2>1, AheadType
  <2> QED
    BY <1>2, <1>4, <2>1, <2>2
<1>5. CASE CreateTable(i)
  <2> DEFINE q == IF k < 8 THEN "ddl" ELSE "legacy"  l == IF k < 8 THEN k + 1 ELSE 1
  <2>1. p = "ddl" /\ pc' = [pc EXCEPT ![i] = q] /\ pos' = [pos EXCEPT ![i] = l]
    BY <1>5 DEF CreateTable, Goto, p, k
  <2>2. PICK v : work' = [work EXCEPT ![i] = v]
    BY <1>3, <1>5 DEF CreateTable, WriteSchema, Write
  <2>3. q \in Place /\ l \in 1..8 /\ (q # "ddl" => l \in 1..7) => Ahead(q, l, v) < Ahead(p, k, w)
    BY <1>1, <2>1, AheadAt
  <2> QED
    BY <1>4, <2>1, <2>2, <2>3
<1>6. CASE LookForLegacy(i)
  <2> DEFINE q == IF file.legacy # None THEN "import" ELSE "seed"
  <2>1. p = "legacy" /\ pc' = [pc EXCEPT ![i] = q] /\ pos' = [pos EXCEPT ![i] = k]
        /\ work' = [work EXCEPT ![i] = w]
    BY <1>3, <1>6 DEF LookForLegacy, Goto, p
  <2>2. q \in Place => Ahead(q, k, w) < Ahead(p, k, w)
    BY <1>1, <2>1, AheadAt
  <2> QED
    BY <1>4, <2>1, <2>2
<1>7. CASE ImportConfig(i)
  <2> DEFINE v == [file EXCEPT !.config = ConfigKey]
  <2>1. p = "import" /\ w = None /\ pc' = [pc EXCEPT ![i] = p] /\ pos' = [pos EXCEPT ![i] = k]
        /\ work' = [work EXCEPT ![i] = v]
    BY <1>3, <1>7 DEF ImportConfig, Write, p, w
  <2>2. v \in Database /\ v # None
    BY OfStore, DatabaseWith, DatabaseFields
  <2> HIDE DEF v
  <2>3. Ahead(p, k, v) < Ahead(p, k, w)
    BY <1>1, <2>1, <2>2, AheadAt
  <2> QED
    BY <1>4, <2>1, <2>3
<1>8. CASE ImportTable(i)
  <2> DEFINE q == IF k < 7 THEN "import" ELSE "drop"  l == IF k < 7 THEN k + 1 ELSE 1
  <2>1. p = "import" /\ w # None /\ pc' = [pc EXCEPT ![i] = q] /\ pos' = [pos EXCEPT ![i] = l]
    BY <1>8 DEF ImportTable, Goto, p, k, w
  <2>2. PICK v : work' = [work EXCEPT ![i] = v]
    BY <1>8 DEF ImportTable, Write
  <2>3. (q = "import" /\ l # 1 => v # None) /\ q \in Place => Ahead(q, l, v) < Ahead(p, k, w)
    BY <1>1, <2>1, AheadAt
  <2> HIDE DEF q, l
  <2> QED
    BY <1>4, <2>1, <2>2, <2>3
<1>9. CASE DropLegacy(i) \/ SeedConfig(i)
  <2>1. p \in {"drop", "seed"} /\ pc' = [pc EXCEPT ![i] = "column"]
        /\ pos' = [pos EXCEPT ![i] = k]
    BY <1>3, <1>9 DEF DropLegacy, SeedConfig, Goto, p
  <2>2. PICK v : work' = [work EXCEPT ![i] = v]
    BY <1>3, <1>9 DEF DropLegacy, SeedConfig, Write
  <2>3. "column" \in Place => Ahead("column", k, v) < Ahead(p, k, w)
    BY <1>1, <2>1, AheadAt
  <2> QED
    BY <1>4, <2>1, <2>2, <2>3
<1>10. CASE EnsureColumn(i)
  <2>1. p = "column" /\ pc' = [pc EXCEPT ![i] = "scrub"] /\ pos' = [pos EXCEPT ![i] = k]
    BY <1>3, <1>10 DEF EnsureColumn, Goto, p
  <2>2. PICK v : work' = [work EXCEPT ![i] = v]
    BY <1>3, <1>10 DEF EnsureColumn, WriteSchema, Write
  <2>3. "scrub" \in Place => Ahead("scrub", k, v) < Ahead(p, k, w)
    BY <1>1, <2>1, AheadAt
  <2> QED
    BY <1>4, <2>1, <2>2, <2>3
<1>11. CASE Scrub(i)
  <2>1. p = "scrub" /\ pc' = [pc EXCEPT ![i] = "opened"] /\ pos' = [pos EXCEPT ![i] = k]
    BY <1>3, <1>11 DEF Scrub, Goto, p
  <2>2. PICK v : work' = [work EXCEPT ![i] = v]
    BY <1>11 DEF Scrub, Write
  <2>3. "opened" \in Place => Ahead("opened", k, v) < Ahead(p, k, w)
    BY <1>1, <2>1, AheadAt
  <2> QED
    BY <1>4, <2>1, <2>2, <2>3
<1>12. CASE CommitStart(i) \/ CommitUpdate(i)
  <2>1. p \in {"opened", "commit"} /\ pc' = [pc EXCEPT ![i] = "idle"]
        /\ pos' = [pos EXCEPT ![i] = k] /\ work' = [work EXCEPT ![i] = None]
    BY <1>3, <1>12 DEF CommitStart, CommitUpdate, Commit, Goto, p
  <2>2. "idle" \in Place => Ahead("idle", k, None) < Ahead(p, k, w)
    BY <1>1, <2>1, AheadAt
  <2> QED
    BY <1>4, <2>1, <2>2
<1>13. CASE Begin(i)
  <2>1. p = "begin" /\ pc' = [pc EXCEPT ![i] = "delete"] /\ pos' = [pos EXCEPT ![i] = k]
        /\ work' = [work EXCEPT ![i] = file]
    BY <1>3, <1>13 DEF Begin, Write, Goto, p
  <2>2. "delete" \in Place => Ahead("delete", k, file) < Ahead(p, k, w)
    BY <1>1, <2>1, AheadAt
  <2> QED
    BY <1>4, <2>1, <2>2
<1>14. CASE DeleteTable(i)
  <2> DEFINE q == IF k < 7 THEN "delete" ELSE "insert"  l == IF k < 7 THEN k + 1 ELSE 1
  <2>1. p = "delete" /\ pc' = [pc EXCEPT ![i] = q] /\ pos' = [pos EXCEPT ![i] = l]
    BY <1>14 DEF DeleteTable, Goto, p, k
  <2>2. PICK v : work' = [work EXCEPT ![i] = v]
    BY <1>14 DEF DeleteTable, Write
  <2>3. q \in Place => Ahead(q, l, v) < Ahead(p, k, w)
    BY <1>1, <2>1, AheadAt
  <2> QED
    BY <1>4, <2>1, <2>2, <2>3
<1>15. CASE InsertTable(i)
  <2> DEFINE q == IF k < 7 THEN "insert" ELSE "commit"  l == IF k < 7 THEN k + 1 ELSE 1
  <2>1. p = "insert" /\ pc' = [pc EXCEPT ![i] = q] /\ pos' = [pos EXCEPT ![i] = l]
    BY <1>15 DEF InsertTable, Goto, p, k
  <2>2. PICK v : work' = [work EXCEPT ![i] = v]
    BY <1>15 DEF InsertTable, Write
  <2>3. q \in Place => Ahead(q, l, v) < Ahead(p, k, w)
    BY <1>1, <2>1, AheadAt
  <2> QED
    BY <1>4, <2>1, <2>2, <2>3
<1>16. CASE Refuse(i) \/ TimeOut(i)
  <2> DEFINE q == IF pc[i] \in Updating THEN "idle" ELSE "down"
  <2>1. pc' = [pc EXCEPT ![i] = q] /\ pos' = [pos EXCEPT ![i] = 1]
        /\ work' = [work EXCEPT ![i] = None]
    BY <1>16 DEF Refuse, TimeOut, Raise, Abandon, Goto
  <2>2. p \in Opening \cup Updating
    BY <1>16 DEF Refuse, Refused, TimeOut, Opening, Updating, p
  <2>3. Ahead(p, k, w) \in 1..21
    BY <1>1, <2>2, AheadType
  <2>4. q \in Place => Ahead(q, 1, None) = 0
    BY AheadAt
  <2> HIDE DEF q
  <2>5. q \in Place => Ahead(q, 1, None) < Ahead(p, k, w)
    BY <2>3, <2>4
  <2> QED
    BY <1>4, <2>1, <2>5
<1> QED
  BY <1>5, <1>6, <1>7, <1>8, <1>9, <1>10, <1>11, <1>12, <1>13, <1>14, <1>15, <1>16 DEF Step

\* No step takes a store that is at work further from its return.
LEMMA NeverFurther ==
    ASSUME Inv, Inv', [Next]_vars, NEW i \in Instance, Left(i) # 0
    PROVE  Left(i)' \in 0..Left(i)
<1>1. Left(i) \in 1..21 /\ pc[i] \notin {"down", "idle"}
  BY LeftType
<1>2. CASE UNCHANGED vars
  BY <1>1, <1>2 DEF vars, Left
<1>3. ASSUME NEW j \in Instance, Step(j)
      PROVE  Left(i)' \in 0..Left(i)
  BY <1>1, <1>3, StepNearer
<1>4. ASSUME NEW j \in Instance, NEW p, Abandon(j, p), p \in {"down", "idle"}
      PROVE  Left(i)' \in 0..Left(i)
  <2>1. /\ Left(j)' = Ahead(p, 1, None)
        /\ \A h \in Instance \ {j} : Left(h)' = Left(h)
    BY <1>4, LeftGoes DEF Abandon, Goto
  <2>2. Ahead(p, 1, None) = 0
    BY <1>4, AheadAt DEF Place
  <2> QED
    BY <1>1, <2>1, <2>2
<1>5. ASSUME NEW j \in Instance, Fail(j) \/ Crash(j)
      PROVE  Left(i)' \in 0..Left(i)
  BY <1>4, <1>5 DEF Fail, Crash, Raise
<1>6. ASSUME NEW j \in Instance, Start(j) \/ \E c \in Change : Ask(j, c)
      PROVE  Left(i)' \in 0..Left(i)
  <2>1. i # j
    BY <1>1, <1>6 DEF Start, Ask
  <2>2. PICK p : pc' = [pc EXCEPT ![j] = p] /\ pos' = pos /\ work' = work
    BY <1>6 DEF Start, Ask, Goto
  <2>3. pos' = [pos EXCEPT ![j] = pos[j]] /\ work' = [work EXCEPT ![j] = work[j]]
    BY <2>2, StaysPut
  <2>4. Left(i)' = Left(i)
    BY <2>1, <2>2, <2>3, LeftGoes
  <2> QED
    BY <1>1, <2>4
<1> QED
  BY <1>2, <1>3, <1>5, <1>6 DEF Next

Falls(i, k) == (Left(i) = k) ~> (Left(i) < k)

\* Where a store has a statement to make, it comes nearer to its return.
LEMMA Descent ==
    ASSUME NEW i \in Instance, NEW k \in 1..21
    PROVE  Spec /\ []GuardsSuffice => Falls(i, k)
<1>1. Spec => [][Next]_vars /\ WF_vars(Step(i))
  <2>1. Spec => [][Next]_vars /\ Fairness
    BY PTL DEF Spec
  <2>2. Fairness => Fair(i)
    BY Zenon DEF Fairness
  <2> QED
    BY <2>1, <2>2, PTL DEF Fair
<1>2. Inv /\ Inv' /\ Left(i) = k /\ [Next]_vars => (Left(i) = k)' \/ (Left(i) < k)'
  BY NeverFurther
<1>3. Inv /\ Inv' /\ Left(i) = k /\ <<Step(i)>>_vars => (Left(i) < k)'
  BY StepNearer
<1>4. Inv /\ GuardsSuffice /\ Left(i) = k => ENABLED <<Step(i)>>_vars
  <2>1. Inv => TypeOK
    BY DEF Inv
  <2> QED
    BY <2>1, LeftType, AlwaysReady DEF GuardsSuffice
<1> QED
  BY <1>1, <1>2, <1>3, <1>4, Invariance, PTL DEF Falls

\* Openings and updates end, even when another store keeps writing: at most 21
\* statements lead from a call to its return, and there is always one to make.
THEOREM EveryCallComesBack == Spec /\ []GuardsSuffice => EveryCallReturns
<1> SUFFICES ASSUME NEW i \in Instance
             PROVE  Spec /\ []GuardsSuffice =>
                       (pc[i] \in Opening \cup Updating ~> pc[i] \in {"idle", "down"})
  BY DEF EveryCallReturns
<1>1. /\ Spec /\ []GuardsSuffice => Falls(i, 1)
      /\ Spec /\ []GuardsSuffice => Falls(i, 2)
      /\ Spec /\ []GuardsSuffice => Falls(i, 3)
      /\ Spec /\ []GuardsSuffice => Falls(i, 4)
      /\ Spec /\ []GuardsSuffice => Falls(i, 5)
      /\ Spec /\ []GuardsSuffice => Falls(i, 6)
      /\ Spec /\ []GuardsSuffice => Falls(i, 7)
      /\ Spec /\ []GuardsSuffice => Falls(i, 8)
      /\ Spec /\ []GuardsSuffice => Falls(i, 9)
      /\ Spec /\ []GuardsSuffice => Falls(i, 10)
      /\ Spec /\ []GuardsSuffice => Falls(i, 11)
      /\ Spec /\ []GuardsSuffice => Falls(i, 12)
      /\ Spec /\ []GuardsSuffice => Falls(i, 13)
      /\ Spec /\ []GuardsSuffice => Falls(i, 14)
      /\ Spec /\ []GuardsSuffice => Falls(i, 15)
      /\ Spec /\ []GuardsSuffice => Falls(i, 16)
      /\ Spec /\ []GuardsSuffice => Falls(i, 17)
      /\ Spec /\ []GuardsSuffice => Falls(i, 18)
      /\ Spec /\ []GuardsSuffice => Falls(i, 19)
      /\ Spec /\ []GuardsSuffice => Falls(i, 20)
      /\ Spec /\ []GuardsSuffice => Falls(i, 21)
  BY Descent
<1>2. Inv => /\ Left(i) < 22
             /\ Left(i) < 22 => Left(i) = 21 \/ Left(i) < 21
             /\ Left(i) < 21 => Left(i) = 20 \/ Left(i) < 20
             /\ Left(i) < 20 => Left(i) = 19 \/ Left(i) < 19
             /\ Left(i) < 19 => Left(i) = 18 \/ Left(i) < 18
             /\ Left(i) < 18 => Left(i) = 17 \/ Left(i) < 17
             /\ Left(i) < 17 => Left(i) = 16 \/ Left(i) < 16
             /\ Left(i) < 16 => Left(i) = 15 \/ Left(i) < 15
             /\ Left(i) < 15 => Left(i) = 14 \/ Left(i) < 14
             /\ Left(i) < 14 => Left(i) = 13 \/ Left(i) < 13
             /\ Left(i) < 13 => Left(i) = 12 \/ Left(i) < 12
             /\ Left(i) < 12 => Left(i) = 11 \/ Left(i) < 11
             /\ Left(i) < 11 => Left(i) = 10 \/ Left(i) < 10
             /\ Left(i) < 10 => Left(i) = 9 \/ Left(i) < 9
             /\ Left(i) < 9 => Left(i) = 8 \/ Left(i) < 8
             /\ Left(i) < 8 => Left(i) = 7 \/ Left(i) < 7
             /\ Left(i) < 7 => Left(i) = 6 \/ Left(i) < 6
             /\ Left(i) < 6 => Left(i) = 5 \/ Left(i) < 5
             /\ Left(i) < 5 => Left(i) = 4 \/ Left(i) < 4
             /\ Left(i) < 4 => Left(i) = 3 \/ Left(i) < 3
             /\ Left(i) < 3 => Left(i) = 2 \/ Left(i) < 2
             /\ Left(i) < 2 => Left(i) = 1 \/ Left(i) < 1
             /\ Left(i) < 1 => pc[i] \in {"idle", "down"}
  BY LeftType
<1> QED
  BY <1>1, <1>2, Invariance, PTL DEF Falls

===============================================================================

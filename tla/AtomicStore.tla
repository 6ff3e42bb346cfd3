------------------------------ MODULE AtomicStore ------------------------------
(***************************************************************************)
(* What the services rely on when they call SQLiteStore.update: the change *)
(* is made to the latest state as a whole, or not at all, and every row    *)
(* has the row it refers to.  Starts, crashes and the import of a database *)
(* in the earlier format do not show, except that a start may add the      *)
(* default group.                                                          *)
(***************************************************************************)
EXTENDS StoreRows

CONSTANT Instance    \* stores opened on the database

VARIABLES
    data,            \* table -> rows
    asked            \* instance -> the change it has been asked for, or None

Init ==
    /\ data \in [Table -> SUBSET UNION {Row[t] : t \in Table}]
    /\ asked = [i \in Instance |-> None]

Ask(i, c) ==
    /\ asked[i] = None
    /\ asked' = [asked EXCEPT ![i] = c]
    /\ UNCHANGED data

Grant(i) ==
    /\ asked[i] # None
    /\ data' \in [Table -> SUBSET UNION {Row[t] : t \in Table}]
    /\ \A t \in Table : data'[t] \in Replaced(Mutated(asked[i], data)[t])
    /\ ReferencesHold(data')
    /\ asked' = [asked EXCEPT ![i] = None]

Refuse(i) ==
    /\ asked[i] # None
    /\ asked' = [asked EXCEPT ![i] = None]
    /\ UNCHANGED data

Seed ==
    /\ \A g \in data["device_groups"] : g.id # DefaultGroup.id
    /\ data' = [data EXCEPT !["device_groups"] = @ \cup {DefaultGroup}]
    /\ UNCHANGED asked

Next ==
    \/ Seed
    \/ \E i \in Instance :
        \/ \E c \in Change : Ask(i, c)
        \/ Grant(i)
        \/ Refuse(i)

Spec == Init /\ [][Next]_<<data, asked>>

===============================================================================

--------------------------- MODULE Scheduler_proofs ---------------------------
(***************************************************************************)
(* Proofs about module Scheduler: the types of its variables, that the     *)
(* interval spaces the successful collections of the scheduler, and that   *)
(* no device is starved.                                                   *)
(***************************************************************************)
EXTENDS Scheduler, Measures, FiniteSetTheorems, TLAPS

USE DEF Age

-------------------------------------------------------------------------------
(* Operators *)

\* _parse_last_seen gives a time or None, for every request body.
LEMMA ParsedIsSeen ==
    ASSUME NEW stamp \in Stamp
    PROVE  Parsed(stamp) \in Seen
BY RowAssumption DEF Parsed, Seen

\* A collection leaves a row, of the same type.
LEMMA CollectedIsRow ==
    ASSUME NEW row \in Row, NEW outcome
    PROVE  Collected(row, outcome) \in Row
<1>1. 0 \in Seen
  BY SchedulerAssumption DEF Seen
<1>2. CASE outcome = "ok"
  BY <1>1, <1>2 DEF Collected, Row
<1>3. CASE outcome = "collector_error"
  BY <1>3 DEF Collected, Row
<1>4. CASE outcome \notin {"ok", "collector_error"}
  BY <1>4 DEF Collected
<1> QED
  BY <1>2, <1>3, <1>4

\* A tick makes a last_seen older, never unreadable, and never passes the cap.
LEMMA OlderIsSeen ==
    /\ \A s \in Seen : Older(s) \in Seen
    /\ \A a \in Age : Older(a) \in Age
BY SchedulerAssumption DEF Older, Seen

-------------------------------------------------------------------------------
(* The inductive invariant *)

\* The device being collected is of the current pass and has had its turn in it.
TurnTaken == collecting # None => todo # None /\ collecting \notin todo

\* After a success, last_seen is at least as recent as that success, and a device
\* the current pass still has to visit has waited for its interval.
SpacedSoFar ==
    \A d \in Device : last[d].ok =>
        /\ rows[d] # None
        /\ rows[d].seen \in Age
        /\ rows[d].seen <= last[d].ago
        /\ (todo # None /\ d \in todo) => last[d].ago = Interval

Inv == TypeOK /\ TurnTaken /\ SpacedSoFar

LEMMA InitInv == Init => Inv
<1> SUFFICES ASSUME Init PROVE Inv
  OBVIOUS
<1>1. \A d \in Device : last[d] = [ago |-> Interval, ok |-> FALSE]
  BY DEF Init, NoHistory
<1>2. TypeOK
  BY SchedulerAssumption DEF Init, TypeOK, NoHistory
<1>3. TurnTaken
  BY DEF Init, TurnTaken
<1>4. SpacedSoFar
  BY <1>1 DEF SpacedSoFar
<1> QED
  BY <1>2, <1>3, <1>4 DEF Inv

\* The thread's own steps.  A pass lists only devices whose last_seen, hence
\* whose last success, is an interval old; a success comes after the turn.
LEMMA SchedulingInv == Inv /\ Scheduling => Inv'
<1> SUFFICES ASSUME Inv, Scheduling PROVE Inv'
  OBVIOUS
<1> USE DEF Inv
<1>1. CASE Wake
  <2> USE <1>1 DEF Wake
  <2>1. PICK reached \in SUBSET {d \in Device : Due(d)} : todo' = reached
    OBVIOUS
  <2>2. TypeOK'
    BY <2>1 DEF TypeOK
  <2>3. TurnTaken'
    BY DEF TurnTaken
  <2>4. ASSUME NEW d \in Device, last[d].ok, d \in reached
        PROVE  last[d].ago = Interval
    <3>1. rows[d].seen \in {None, Interval} /\ rows[d].seen \in Age
      BY <2>1, <2>4 DEF Due, SpacedSoFar
    <3>2. rows[d].seen <= last[d].ago /\ last[d].ago \in Age
      BY <2>4 DEF TypeOK, SpacedSoFar
    <3> QED
      BY <3>1, <3>2, SchedulerAssumption
  <2>5. SpacedSoFar'
    BY <2>1, <2>4 DEF SpacedSoFar
  <2> QED
    BY <2>2, <2>3, <2>5
<1>2. CASE WakeFails
  <2> USE <1>2 DEF WakeFails
  <2>1. TypeOK'
    BY SchedulerAssumption DEF TypeOK
  <2>2. TurnTaken' /\ SpacedSoFar'
    BY DEF TurnTaken, SpacedSoFar
  <2> QED
    BY <2>1, <2>2
<1>3. ASSUME NEW d \in Device, Begin(d) PROVE Inv'
  <2> USE <1>3 DEF Begin
  <2>1. TypeOK'
    BY DEF TypeOK
  <2>2. TurnTaken'
    BY SchedulerAssumption DEF TurnTaken, TypeOK
  <2>3. SpacedSoFar'
    BY DEF SpacedSoFar
  <2> QED
    BY <2>1, <2>2, <2>3
<1>4. ASSUME NEW d \in Device, Skip(d) PROVE Inv'
  <2> USE <1>4 DEF Skip
  <2>1. TypeOK'
    BY DEF TypeOK
  <2>2. TurnTaken' /\ SpacedSoFar'
    BY DEF TurnTaken, SpacedSoFar
  <2> QED
    BY <2>1, <2>2
<1>5. ASSUME NEW outcome \in Outcome, Finish(outcome) PROVE Inv'
  <2> DEFINE c == collecting
  <2>0. c \in Device /\ todo # None /\ c \notin todo /\ collecting' = None /\ todo' = todo
    BY <1>5 DEF Finish, TypeOK, TurnTaken
  <2>1. CASE rows[c] = None
    <3> USE <1>5, <2>1 DEF Finish
    <3>1. TypeOK'
      BY DEF TypeOK
    <3>2. TurnTaken' /\ SpacedSoFar'
      BY DEF TurnTaken, SpacedSoFar
    <3> QED
      BY <3>1, <3>2
  <2>2. CASE rows[c] # None
    <3>1. /\ rows' = [rows EXCEPT ![c] = Collected(@, outcome)]
          /\ last' = [last EXCEPT ![c] = [ago |-> 0, ok |-> outcome = "ok"]]
          /\ UNCHANGED <<wait, manual>>
      BY <1>5, <2>2 DEF Finish
    <3>2. rows[c] \in Row /\ Collected(rows[c], outcome) \in Row
      BY <2>0, <2>2, CollectedIsRow DEF TypeOK
    <3>3. [ago |-> 0, ok |-> outcome = "ok"] \in [ago : Age, ok : BOOLEAN]
      BY SchedulerAssumption
    <3>4. TypeOK'
      BY <2>0, <3>1, <3>2, <3>3 DEF TypeOK
    <3>5. TurnTaken'
      BY <2>0 DEF TurnTaken
    <3>6. ASSUME NEW d \in Device, last'[d].ok
          PROVE  /\ rows'[d] # None
                 /\ rows'[d].seen \in Age
                 /\ rows'[d].seen <= last'[d].ago
                 /\ (todo' # None /\ d \in todo') => last'[d].ago = Interval
      <4>1. CASE d = c
        <5>1. last'[d] = [ago |-> 0, ok |-> outcome = "ok"] /\ rows'[d] = Collected(rows[c], outcome)
          BY <2>0, <3>1, <4>1 DEF TypeOK
        <5>2. last'[d].ok = (outcome = "ok") /\ last'[d].ago = 0
          BY <5>1
        <5>3. outcome = "ok"
          BY <3>6, <5>2, Zenon
        <5>4. rows'[d].seen = 0
          BY <3>2, <5>1, <5>3 DEF Collected, Row
        <5>5. rows'[d] # None
          BY <3>2, <5>1, RowAssumption
        <5>6. d \notin todo'
          BY <2>0, <4>1
        <5>7. 0 \in Age /\ 0 <= 0
          BY SchedulerAssumption
        <5> QED
          BY <5>2, <5>4, <5>5, <5>6, <5>7
      <4>2. CASE d # c
        <5>1. rows'[d] = rows[d] /\ last'[d] = last[d]
          BY <2>0, <3>1, <4>2 DEF TypeOK
        <5> QED
          BY <2>0, <3>6, <5>1 DEF SpacedSoFar
      <4> QED
        BY <4>1, <4>2
    <3> QED
      BY <3>4, <3>5, <3>6 DEF SpacedSoFar
  <2> QED
    BY <2>1, <2>2
<1>6. CASE EndPass
  <2> USE <1>6 DEF EndPass
  <2>1. TypeOK'
    BY SchedulerAssumption DEF TypeOK
  <2>2. TurnTaken' /\ SpacedSoFar'
    BY DEF TurnTaken, SpacedSoFar
  <2> QED
    BY <2>1, <2>2
<1> QED
  BY <1>1, <1>2, <1>3, <1>4, <1>5, <1>6 DEF Scheduling, Collect

\* Time: both ages grow alike, so neither overtakes the other.
LEMMA TickInv == Inv /\ Tick => Inv'
<1> SUFFICES ASSUME Inv, Tick PROVE Inv'
  OBVIOUS
<1> USE DEF Inv, Tick
<1>1. TypeOK'
  <2>1. rows' \in [Device -> Row \cup {None}]
    <3>1. ASSUME NEW d \in Device, rows[d] # None
          PROVE  [rows[d] EXCEPT !.seen = Older(@)] \in Row
      BY <3>1, OlderIsSeen DEF TypeOK, Row
    <3> QED
      BY <3>1
  <2>2. last' \in [Device -> [ago : Age, ok : BOOLEAN]]
    BY OlderIsSeen DEF TypeOK
  <2>3. wait' \in 0 .. TickInterval
    BY SchedulerAssumption DEF TypeOK
  <2> QED
    BY <2>1, <2>2, <2>3 DEF TypeOK
<1>2. TurnTaken'
  BY DEF TurnTaken
<1>3. ASSUME NEW d \in Device, last'[d].ok
      PROVE  /\ rows'[d] # None
             /\ rows'[d].seen \in Age
             /\ rows'[d].seen <= last'[d].ago
             /\ (todo' # None /\ d \in todo') => last'[d].ago = Interval
  <2>1. last'[d].ok = last[d].ok /\ last'[d].ago = Older(last[d].ago) /\ last[d].ago \in Age
    BY DEF TypeOK
  <2>2. /\ rows[d] # None
        /\ rows[d].seen \in Age
        /\ rows[d].seen <= last[d].ago
        /\ (todo # None /\ d \in todo) => last[d].ago = Interval
    BY <1>3, <2>1 DEF SpacedSoFar
  <2>3. rows[d] \in Row /\ rows'[d] = [rows[d] EXCEPT !.seen = Older(@)]
    BY <2>2 DEF TypeOK
  <2>4. rows'[d].seen = Older(rows[d].seen) /\ rows'[d] \in Row
    BY <2>3, OlderIsSeen DEF Row
  <2>5. rows'[d] # None
    BY <2>4, RowAssumption
  <2>6. rows'[d].seen \in Age
    BY <2>2, <2>4, OlderIsSeen
  <2>7. rows'[d].seen <= last'[d].ago
    BY <2>1, <2>2, <2>4, SchedulerAssumption DEF Older
  <2>8. last[d].ago = Interval => last'[d].ago = Interval
    BY <2>1, SchedulerAssumption DEF Older
  <2> QED
    BY <2>2, <2>5, <2>6, <2>7, <2>8
<1> QED
  BY <1>1, <1>2, <1>3 DEF SpacedSoFar

\* A request that replaces last_seen also starts a new history, so that only
\* those that keep the row's last_seen, and refreshes, matter here.
LEMMA RequestInv == Inv /\ Request => Inv'
<1> SUFFICES ASSUME Inv, Request PROVE Inv'
  OBVIOUS
<1> USE DEF Inv
<1>0. NoHistory \in [ago : Age, ok : BOOLEAN] /\ NoHistory.ok = FALSE
  BY SchedulerAssumption DEF NoHistory
<1>1. ASSUME NEW d \in Device, NEW enabled \in BOOLEAN, NEW disabled \in BOOLEAN,
             NEW stamp \in Stamp, CreateDevice(d, enabled, disabled, stamp)
      PROVE  Inv'
  <2> USE <1>1 DEF CreateDevice
  <2>1. [enabled |-> enabled, disabled |-> disabled, seen |-> Parsed(stamp)] \in Row
    BY ParsedIsSeen DEF Row
  <2>2. TypeOK'
    BY <1>0, <2>1 DEF TypeOK
  <2>3. TurnTaken'
    BY DEF TurnTaken
  <2>4. SpacedSoFar'
    BY <1>0 DEF SpacedSoFar, TypeOK
  <2> QED
    BY <2>2, <2>3, <2>4
<1>2. ASSUME NEW d \in Device, NEW e \in Device, NEW enabled \in BOOLEAN,
             NEW disabled \in BOOLEAN, NEW stamp \in Stamp,
             UpdateDevice(d, e, enabled, disabled, stamp)
      PROVE  Inv'
  <2> DEFINE row == [enabled |-> enabled, disabled |-> disabled, seen |-> Parsed(stamp)]
  <2>1. row \in Row
    BY ParsedIsSeen DEF Row
  <2>2. PICK kept \in {row} \cup (IF e # d THEN {rows[e]} \ {None} ELSE {}) :
           rows' = [rows EXCEPT ![d] = None, ![e] = kept]
    BY <1>2 DEF UpdateDevice
  <2>3. /\ last' = [last EXCEPT ![d] = NoHistory, ![e] = NoHistory]
        /\ UNCHANGED <<wait, todo, collecting, manual>>
    BY <1>2 DEF UpdateDevice
  <2>4. kept \in Row
    BY <2>1, <2>2 DEF TypeOK
  <2> HIDE DEF row
  <2>5. rows' \in [Device -> Row \cup {None}]
    BY <2>2, <2>4 DEF TypeOK
  <2>6. last' \in [Device -> [ago : Age, ok : BOOLEAN]]
    BY <1>0, <2>3 DEF TypeOK
  <2>7. TypeOK'
    BY <2>3, <2>5, <2>6 DEF TypeOK
  <2>8. TurnTaken'
    BY <2>3 DEF TurnTaken
  <2>9. ASSUME NEW f \in Device, last'[f].ok
        PROVE  rows'[f] = rows[f] /\ last'[f] = last[f]
    <3>1. f # d /\ f # e
      BY <1>0, <2>3, <2>9 DEF TypeOK
    <3> QED
      BY <2>2, <2>3, <3>1 DEF TypeOK
  <2>10. SpacedSoFar'
    BY <2>3, <2>9 DEF SpacedSoFar
  <2> QED
    BY <2>7, <2>8, <2>10
<1>3. ASSUME NEW d \in Device, NEW enabled \in BOOLEAN, NEW disabled \in BOOLEAN,
             SwitchDevice(d, enabled, disabled)
      PROVE  Inv'
  <2>1. rows[d] \in Row
    BY <1>3 DEF SwitchDevice, TypeOK
  <2>2. /\ rows' = [rows EXCEPT ![d] = [@ EXCEPT !.enabled = enabled, !.disabled = disabled]]
        /\ UNCHANGED <<wait, todo, collecting, manual, last>>
    BY <1>3, <2>1 DEF SwitchDevice, TypeOK
  <2>3. [rows[d] EXCEPT !.enabled = enabled, !.disabled = disabled] \in Row
    BY <2>1 DEF Row
  <2>4. TypeOK'
    BY <2>2, <2>3 DEF TypeOK
  <2>5. TurnTaken'
    BY <2>2 DEF TurnTaken
  <2>6. ASSUME NEW f \in Device, rows[f] # None
        PROVE  rows'[f] # None /\ rows'[f].seen = rows[f].seen
    <3>1. CASE f = d
      <4>1. rows'[f] = [rows[d] EXCEPT !.enabled = enabled, !.disabled = disabled]
        BY <2>2, <3>1 DEF TypeOK
      <4> QED
        BY <2>1, <2>3, <3>1, <4>1, RowAssumption DEF Row
    <3>2. CASE f # d
      BY <2>2, <2>6, <3>2 DEF TypeOK
    <3> QED
      BY <3>1, <3>2
  <2>7. SpacedSoFar'
    BY <2>2, <2>6 DEF SpacedSoFar
  <2> QED
    BY <2>4, <2>5, <2>7
<1>4. ASSUME NEW d \in Device, DeleteDevice(d) PROVE Inv'
  <2> USE <1>4 DEF DeleteDevice
  <2>1. TypeOK'
    BY <1>0 DEF TypeOK
  <2>2. TurnTaken'
    BY DEF TurnTaken
  <2>3. SpacedSoFar'
    BY <1>0 DEF SpacedSoFar, TypeOK
  <2> QED
    BY <2>1, <2>2, <2>3
<1>5. ASSUME NEW d \in Device, StartRefresh(d) PROVE Inv'
  <2> USE <1>5 DEF StartRefresh
  <2>1. TypeOK'
    BY DEF TypeOK
  <2>2. TurnTaken' /\ SpacedSoFar'
    BY DEF TurnTaken, SpacedSoFar
  <2> QED
    BY <2>1, <2>2
<1>6. ASSUME NEW d \in Device, NEW outcome \in Outcome, EndRefresh(d, outcome) PROVE Inv'
  <2>1. /\ manual' = manual \ {d}
        /\ UNCHANGED <<wait, todo, collecting, last>>
    BY <1>6 DEF EndRefresh
  <2>2. CASE rows[d] = None
    <3>1. rows' = rows
      BY <1>6, <2>2 DEF EndRefresh
    <3>2. TypeOK'
      BY <2>1, <3>1 DEF TypeOK
    <3>3. TurnTaken' /\ SpacedSoFar'
      BY <2>1, <3>1 DEF TurnTaken, SpacedSoFar
    <3> QED
      BY <3>2, <3>3
  <2>3. CASE rows[d] # None
    <3>1. rows[d] \in Row /\ Collected(rows[d], outcome) \in Row
      BY <2>3, CollectedIsRow DEF TypeOK
    <3>2. rows' = [rows EXCEPT ![d] = Collected(@, outcome)]
      BY <1>6, <2>3 DEF EndRefresh
    <3>3. TypeOK'
      BY <2>1, <3>1, <3>2 DEF TypeOK
    <3>4. TurnTaken'
      BY <2>1 DEF TurnTaken
    <3>5. rows'[d] = Collected(rows[d], outcome) /\ rows'[d] # None
      BY <3>1, <3>2, RowAssumption DEF TypeOK
    <3>6. rows'[d].seen \in {rows[d].seen, 0}
      BY <3>1, <3>5 DEF Collected, Row
    <3>7. \A f \in Device \ {d} : rows'[f] = rows[f]
      BY <3>2 DEF TypeOK
    <3>8. ASSUME NEW f \in Device, last'[f].ok
          PROVE  rows'[f] # None /\ rows'[f].seen \in Age /\ rows'[f].seen <= last'[f].ago
      <4>1. /\ rows[f] # None /\ rows[f].seen \in Age
            /\ rows[f].seen <= last[f].ago /\ last[f].ago \in Age
        BY <2>1, <3>8 DEF SpacedSoFar, TypeOK
      <4>2. rows'[f] # None /\ rows'[f].seen \in {rows[f].seen, 0}
        BY <3>5, <3>6, <3>7, <4>1
      <4> QED
        BY <2>1, <4>1, <4>2, SchedulerAssumption
    <3>9. SpacedSoFar'
      BY <2>1, <3>8 DEF SpacedSoFar
    <3> QED
      BY <3>3, <3>4, <3>9
  <2> QED
    BY <2>2, <2>3
<1> QED
  BY <1>1, <1>2, <1>3, <1>4, <1>5, <1>6 DEF Request

LEMMA NextInv == Inv /\ [Next]_vars => Inv'
<1> SUFFICES ASSUME Inv, [Next]_vars PROVE Inv'
  OBVIOUS
<1>1. CASE UNCHANGED vars
  BY <1>1 DEF vars, Inv, TypeOK, TurnTaken, SpacedSoFar
<1> QED
  BY <1>1, SchedulingInv, TickInv, RequestInv DEF Next

LEMMA Invariance == Spec => []Inv
BY InitInv, NextInv, PTL DEF Spec

-------------------------------------------------------------------------------
(* The theorems *)

\* Every variable keeps its type, whatever the requests write.
THEOREM TypeCorrect == Spec => []TypeOK
<1>1. Inv => TypeOK
  BY DEF Inv
<1> QED
  BY <1>1, Invariance, PTL

\* For any devices, interval and tick: between a successful scheduled collection
\* of a device and its next scheduled collection lies at least the interval.
THEOREM SpacingHolds == Spec => ScheduledSpacing
<1>1. ASSUME Inv, [Next]_vars
      PROVE  [\A d \in Device : (last[d].ok /\ Begin(d)) => last[d].ago = Interval]_vars
  BY <1>1 DEF Inv, SpacedSoFar, Begin
<1>2. Inv /\ [Next]_vars =>
        [\A d \in Device : (last[d].ok /\ Begin(d)) => last[d].ago = Interval]_vars
  BY <1>1
<1> QED
  BY <1>2, Invariance, PTL DEF Spec, ScheduledSpacing
-------------------------------------------------------------------------------
(* Every pass ends *)

\* A pass waits for nothing.
Awake == todo # None => wait = 0

LEMMA AwakeAlways == Spec => []Awake
<1>1. Init => Awake
  BY DEF Init, Awake
<1>2. Inv /\ Awake /\ [Next]_vars => Awake'
  <2> SUFFICES ASSUME Inv, Awake, [Next]_vars, todo' # None
               PROVE  wait' = 0
    BY DEF Awake
  <2>1. CASE UNCHANGED vars
    BY <2>1 DEF vars, Awake
  <2>2. CASE Scheduling
    BY <2>2 DEF Scheduling, Collect, Wake, WakeFails, Begin, Skip, Finish, EndPass, Awake
  <2>3. CASE Tick
    BY <2>3 DEF Tick, Awake
  <2>4. CASE Request
    BY <2>4 DEF Request, CreateDevice, SwitchDevice, UpdateDevice, DeleteDevice, StartRefresh,
                EndRefresh, Awake
  <2> QED
    BY <2>1, <2>2, <2>3, <2>4 DEF Next
<1> QED
  BY <1>1, <1>2, Invariance, PTL DEF Spec

\* The steps of the thread that a pass still takes: two for a device that is collected.
Left ==
    IF todo = None THEN 0
    ELSE 2 * Cardinality(todo) + (IF collecting = None THEN 1 ELSE 2)

\* What is left of a pass when there are n devices left in it.
LEMMA LeftType ==
    ASSUME TypeOK, IsFiniteSet(Device)
    PROVE  /\ Left \in Nat
           /\ todo # None => IsFiniteSet(todo) /\ Cardinality(todo) \in Nat
<1>1. todo # None => IsFiniteSet(todo) /\ Cardinality(todo) \in Nat
  BY FS_Subset, FS_CardinalityType DEF TypeOK
<1> QED
  BY <1>1 DEF Left

\* The thread's steps shorten the pass; nothing makes it longer.
LEMMA PassShrinks ==
    ASSUME Inv, Inv', IsFiniteSet(Device), [Next]_vars, todo # None
    PROVE  todo' = None \/ (Left' \in 0..Left /\ (Collect => Left' < Left))
<1>1. Left \in Nat /\ IsFiniteSet(todo) /\ Cardinality(todo) \in Nat
  BY LeftType DEF Inv
<1>2. Left = 2 * Cardinality(todo) + (IF collecting = None THEN 1 ELSE 2)
  BY DEF Left
<1>3. ASSUME todo' = todo, collecting' = collecting
      PROVE  Left' = Left
  BY <1>3 DEF Left
<1>4. ASSUME NEW d \in Device, Begin(d)
      PROVE  Left' \in 0..Left - 1
  <2>1. d \in todo /\ todo' = todo \ {d} /\ collecting = None /\ collecting' # None
    BY <1>4, SchedulerAssumption DEF Begin
  <2>2. /\ Cardinality(todo') = Cardinality(todo) - 1 /\ Cardinality(todo') \in Nat
        /\ todo' # None
    BY <1>1, <2>1, FS_RemoveElement, FS_CardinalityType, SchedulerAssumption DEF Inv, TypeOK
  <2>3. Left' = 2 * Cardinality(todo') + 2
    BY <2>1, <2>2 DEF Left
  <2> QED
    BY <1>1, <1>2, <2>1, <2>2, <2>3
<1>5. ASSUME NEW d \in Device, Skip(d)
      PROVE  Left' \in 0..Left - 1
  <2>1. d \in todo /\ todo' = todo \ {d} /\ collecting = None /\ collecting' = None
    BY <1>5 DEF Skip
  <2>2. /\ Cardinality(todo') = Cardinality(todo) - 1 /\ Cardinality(todo') \in Nat
        /\ todo' # None
    BY <1>1, <2>1, FS_RemoveElement, FS_CardinalityType, SchedulerAssumption DEF Inv, TypeOK
  <2>3. Left' = 2 * Cardinality(todo') + 1
    BY <2>1, <2>2 DEF Left
  <2> QED
    BY <1>1, <1>2, <2>1, <2>2, <2>3
<1>6. ASSUME NEW outcome \in Outcome, Finish(outcome)
      PROVE  Left' \in 0..Left - 1
  <2>1. collecting # None /\ collecting' = None /\ todo' = todo
    BY <1>6 DEF Finish
  <2>2. Left' = 2 * Cardinality(todo) + 1
    BY <2>1 DEF Left
  <2> QED
    BY <1>1, <1>2, <2>1, <2>2
<1>7. CASE Collect
  <2>1. CASE EndPass
    BY <2>1 DEF EndPass
  <2>2. CASE ~EndPass
    <3>1. Left' \in 0..Left - 1
      BY <1>4, <1>5, <1>6, <1>7, <2>2 DEF Collect
    <3> QED
      BY <1>1, <3>1
  <2> QED
    BY <2>1, <2>2
<1>8. CASE Wake \/ WakeFails
  BY <1>8 DEF Wake, WakeFails
<1>9. CASE UNCHANGED vars \/ Tick \/ Request
  <2>1. todo' = todo /\ collecting' = collecting
    BY <1>9 DEF vars, Tick, Request, CreateDevice, SwitchDevice, UpdateDevice, DeleteDevice,
                StartRefresh, EndRefresh
  <2>2. CASE Collect
    BY <1>7, <2>2
  <2>3. CASE ~Collect
    BY <1>1, <1>3, <2>1, <2>3
  <2> QED
    BY <2>2, <2>3
<1> QED
  BY <1>7, <1>8, <1>9 DEF Next, Scheduling

(***************************************************************************)
(* The rest is about fairness and rests on two facts of the logic that the *)
(* provers cannot derive and that hold whatever the specification: what    *)
(* ENABLED means for three actions with simple guards, and that a natural  *)
(* number cannot fall for ever.                                            *)
(***************************************************************************)

\* The guard of each fair action of Spec is all that the action needs: its next values
\* can be chosen.
GuardsSuffice ==
    TypeOK =>
        /\ todo # None => ENABLED <<Collect>>_vars
        /\ todo = None /\ wait = 0 => ENABLED <<Wake>>_vars
        /\ wait > 0 => ENABLED <<Tick>>_vars
        /\ \A d \in Device :
              rows[d] # None /\ rows[d].seen \in 0 .. Interval - 1 => ENABLED <<Tick>>_vars

LEMMA PassLeadsDown ==
    ASSUME IsFiniteSet(Device)
    PROVE  Spec /\ []GuardsSuffice => LeadsDown(Left, todo = None)
<1> SUFFICES ASSUME NEW k \in Nat
             PROVE  Spec /\ []GuardsSuffice => ((Left = k) ~> (todo = None \/ Left < k))
  BY DEF LeadsDown
<1> DEFINE G == todo = None \/ Left < k
<1>1. Inv /\ Inv' /\ Left = k /\ [Next]_vars => (Left = k)' \/ G' \/ G
  BY PassShrinks
<1>2. Inv /\ Inv' /\ Left = k /\ <<Collect>>_vars => G' \/ G
  BY PassShrinks DEF Next, Scheduling
<1>3. Inv /\ GuardsSuffice => G \/ ENABLED <<Collect>>_vars
  BY DEF Inv, GuardsSuffice
<1> QED
  BY <1>1, <1>2, <1>3, Invariance, PTL DEF Spec, Fairness

\* Every pass of the scheduler comes to its end, whatever devices are added, removed or
\* edited while it goes on.
THEOREM EveryPassEnds ==
    ASSUME IsFiniteSet(Device)
    PROVE  Spec /\ []GuardsSuffice /\ Descent(Left, todo = None) => PassesEnd
<1>1. Inv => Left \in Nat
  BY LeftType DEF Inv
<1> QED
  BY <1>1, Invariance, PassLeadsDown, PTL DEF Descent, PassesEnd

\* The wait between two passes comes to its end.
LEMMA WaitLeadsDown == Spec /\ []GuardsSuffice => LeadsDown(wait, wait = 0)
<1> SUFFICES ASSUME NEW k \in Nat
             PROVE  Spec /\ []GuardsSuffice => ((wait = k) ~> (wait = 0 \/ wait < k))
  BY DEF LeadsDown
<1> DEFINE G == wait = 0 \/ wait < k
<1>1. Inv /\ Awake /\ wait = k /\ [Next]_vars => (wait = k)' \/ G' \/ G
  <2> SUFFICES ASSUME Inv, Awake, wait = k, [Next]_vars, wait # 0
               PROVE  wait' = k \/ wait' < k
    OBVIOUS
  <2>1. todo = None
    BY DEF Awake
  <2>2. CASE UNCHANGED vars
    BY <2>2 DEF vars
  <2>3. CASE Scheduling
    <3>1. todo # {}
      BY <2>1, SchedulerAssumption
    <3> QED
      BY <2>1, <2>3, <3>1 DEF Scheduling, Collect, Wake, WakeFails, Begin, Skip, Finish, EndPass
  <2>4. CASE Tick
    BY <2>4 DEF Tick
  <2>5. CASE Request
    BY <2>5 DEF Request, CreateDevice, SwitchDevice, UpdateDevice, DeleteDevice, StartRefresh,
                EndRefresh
  <2> QED
    BY <2>2, <2>3, <2>4, <2>5 DEF Next
<1>2. wait = k /\ <<Tick>>_vars => G' \/ G
  BY DEF Tick
<1>3. Inv /\ wait = k /\ GuardsSuffice => G \/ ENABLED <<Tick>>_vars
  BY DEF Inv, GuardsSuffice
<1> QED
  BY <1>1, <1>2, <1>3, Invariance, AwakeAlways, PTL DEF Spec, Fairness

-------------------------------------------------------------------------------
(* Every device gets its turn *)

Readable == \A e \in Device : ~Unreadable(e)

Reached(d) == collecting = d \/ d \in manual

\* The time that a device which nobody collects or edits still has until it is due.
Young(d) == IF rows[d].seen \in Age THEN Interval - rows[d].seen ELSE 0

\* As long as d stays eligible and nobody collects it, its last_seen only grows older;
\* an edit can only clear it.
LEMMA SeenAges ==
    ASSUME Inv, [Next]_vars, Stamp \cap Age = {}, NEW d \in Device,
           Eligible(d), Eligible(d)', ~Reached(d)
    PROVE  /\ rows'[d].seen \in {rows[d].seen, Older(rows[d].seen), None}
           /\ Tick => rows'[d].seen = Older(rows[d].seen)
<1> DEFINE Kept == rows'[d].seen \in {rows[d].seen, Older(rows[d].seen), None}
<1>1. rows[d] # None /\ rows'[d] # None /\ rows'[d].seen \notin {Naive, Ahead}
  BY DEF Eligible, Selected
<1>2. rows[d] \in Row
  BY <1>1 DEF Inv, TypeOK
<1>3. CASE Tick
  <2>1. rows'[d] = [rows[d] EXCEPT !.seen = Older(@)]
    BY <1>1, <1>3 DEF Tick
  <2> QED
    BY <1>2, <2>1 DEF Row
<1>4. ASSUME rows'[d] = rows[d]
      PROVE  Kept
  BY <1>4
<1>5. ASSUME UNCHANGED vars PROVE Kept
  BY <1>4, <1>5 DEF vars
<1>6. ASSUME Scheduling PROVE Kept
  <2>1. ASSUME NEW outcome \in Outcome, Finish(outcome)
        PROVE  rows'[d] = rows[d]
    BY <2>1 DEF Finish, Inv, TypeOK, Reached
  <2>2. ASSUME ~\E outcome \in Outcome : Finish(outcome)
        PROVE  rows' = rows
    BY <1>6, <2>2 DEF Scheduling, Collect, Wake, WakeFails, Begin, Skip, EndPass
  <2> HIDE DEF Kept
  <2> QED
    BY <1>4, <2>1, <2>2
<1>7. ASSUME NEW e \in Device, NEW enabled \in BOOLEAN, NEW disabled \in BOOLEAN,
             NEW stamp \in Stamp, CreateDevice(e, enabled, disabled, stamp)
      PROVE  Kept
  BY <1>1, <1>7 DEF CreateDevice, Inv, TypeOK
<1>8. ASSUME NEW e \in Device, NEW f \in Device, NEW enabled \in BOOLEAN,
             NEW disabled \in BOOLEAN, NEW stamp \in Stamp,
             UpdateDevice(e, f, enabled, disabled, stamp)
      PROVE  Kept
  <2> DEFINE row == [enabled |-> enabled, disabled |-> disabled, seen |-> Parsed(stamp)]
  <2>1. PICK kept \in {row} \cup (IF f # e THEN {rows[f]} \ {None} ELSE {}) :
           rows' = [rows EXCEPT ![e] = None, ![f] = kept]
    BY <1>8 DEF UpdateDevice
  <2>2. row.seen = Parsed(stamp)
    OBVIOUS
  <2>3. CASE d = f
    <3>1. rows'[d] = kept
      BY <2>1, <2>3 DEF Inv, TypeOK
    <3>2. kept = rows[d] \/ kept = row
      BY <2>1, <2>3
    <3>3. CASE kept = row
      <4>1. Parsed(stamp) \notin {Naive, Ahead}
        BY <1>1, <2>2, <3>1, <3>3
      <4>2. Parsed(stamp) = None
        BY <4>1, RowAssumption DEF Parsed, Seen
      <4> QED
        BY <2>2, <3>1, <3>3, <4>2
    <3> HIDE DEF row
    <3> QED
      BY <1>4, <3>1, <3>2, <3>3
  <2>4. CASE d # f
    <3>1. d # e
      BY <1>1, <2>1, <2>4 DEF Inv, TypeOK
    <3>2. rows'[d] = rows[d]
      BY <2>1, <2>4, <3>1 DEF Inv, TypeOK
    <3> QED
      BY <1>4, <3>2
  <2> QED
    BY <2>3, <2>4
<1>9. ASSUME NEW e \in Device, NEW enabled \in BOOLEAN, NEW disabled \in BOOLEAN,
             SwitchDevice(e, enabled, disabled)
      PROVE  rows'[d].seen = rows[d].seen
  <2>1. rows' = [rows EXCEPT ![e].enabled = enabled, ![e].disabled = disabled]
    BY <1>9 DEF SwitchDevice
  <2> QED
    BY <1>2, <2>1 DEF Inv, TypeOK, Row
<1>10. ASSUME NEW e \in Device, DeleteDevice(e)
       PROVE  rows'[d] = rows[d]
  BY <1>1, <1>10 DEF DeleteDevice, Inv, TypeOK
<1>11. ASSUME NEW e \in Device, StartRefresh(e)
       PROVE  rows'[d] = rows[d]
  BY <1>11 DEF StartRefresh
<1>12. ASSUME NEW e \in Device, NEW outcome \in Outcome, EndRefresh(e, outcome)
       PROVE  rows'[d] = rows[d]
  BY <1>12 DEF EndRefresh, Reached, Inv, TypeOK
<1>13. ASSUME Request PROVE Kept
  <2>1. ASSUME NEW e \in Device, NEW enabled \in BOOLEAN, NEW disabled \in BOOLEAN,
               SwitchDevice(e, enabled, disabled)
        PROVE  Kept
    BY <1>9, <2>1
  <2> HIDE DEF Kept
  <2> QED
    BY <1>4, <1>7, <1>8, <1>10, <1>11, <1>12, <1>13, <2>1 DEF Request
<1>14. CASE ~Tick
  BY <1>5, <1>6, <1>13, <1>14 DEF Next
<1> QED
  BY <1>3, <1>14

\* Nothing keeps the scheduler from collecting d, and nobody is doing so.
Calm(d) == Eligible(d) /\ Readable /\ ~Reached(d)

\* What is due stays due until somebody collects it or takes it out of service.
LEMMA DueKept ==
    ASSUME Inv, [Next]_vars, Stamp \cap Age = {}, NEW d \in Device,
           Calm(d), Calm(d)', Due(d)
    PROVE  Due(d)'
<1>1. /\ rows'[d].seen \in {rows[d].seen, Older(rows[d].seen), None}
      /\ rows[d].seen \in {None, Interval} /\ Selected(d)'
  BY SeenAges DEF Calm, Eligible, Due
<1>2. Older(None) = None /\ Older(Interval) = Interval
  BY SchedulerAssumption DEF Older
<1> QED
  BY <1>1, <1>2 DEF Due

LEMMA YoungType ==
    ASSUME Inv, NEW d \in Device
    PROVE  Young(d) \in Nat
BY SchedulerAssumption DEF Young

\* Time brings every device nearer to its next collection.
LEMMA YoungShrinks ==
    ASSUME Inv, [Next]_vars, Stamp \cap Age = {}, NEW d \in Device,
           Calm(d), Calm(d)', ~Due(d)
    PROVE  /\ Due(d)' \/ Young(d)' \in 0 .. Young(d)
           /\ Tick => Young(d)' < Young(d)
           /\ rows[d] # None /\ rows[d].seen \in 0 .. Interval - 1
<1>1. /\ rows'[d].seen \in {rows[d].seen, Older(rows[d].seen), None}
      /\ Tick => rows'[d].seen = Older(rows[d].seen)
      /\ Selected(d) /\ Selected(d)'
  BY SeenAges DEF Calm, Eligible
<1>2. rows[d] # None /\ rows[d].seen \in 0 .. Interval - 1
  <2>1. rows[d] \in Row /\ rows[d] # None
    BY <1>1 DEF Inv, TypeOK, Selected
  <2>2. rows[d].seen \in Seen \ {Naive, Ahead, None, Interval}
    BY <1>1, <2>1 DEF Calm, Eligible, Due, Row
  <2> QED
    BY <2>1, <2>2, SchedulerAssumption DEF Seen
<1>3. Older(rows[d].seen) = rows[d].seen + 1
  BY <1>2 DEF Older
<1>4. Young(d) = Interval - rows[d].seen
  BY <1>2, SchedulerAssumption DEF Young
<1>5. ASSUME rows'[d].seen = Older(rows[d].seen)
      PROVE  Young(d)' = Interval - rows[d].seen - 1
  BY <1>2, <1>3, <1>5, SchedulerAssumption DEF Young
<1>6. CASE rows'[d].seen = Older(rows[d].seen)
  BY <1>2, <1>4, <1>5, <1>6, SchedulerAssumption
<1>7. CASE rows'[d].seen = rows[d].seen
  <2>1. Young(d)' = Young(d)
    BY <1>7 DEF Young
  <2> QED
    BY <1>1, <1>2, <1>3, <1>4, <1>7, <2>1, SchedulerAssumption
<1>8. CASE rows'[d].seen = None
  <2>1. Due(d)'
    BY <1>1, <1>8 DEF Due
  <2>2. ~Tick
    BY <1>1, <1>2, <1>3, <1>8, SchedulerAssumption
  <2> QED
    BY <1>2, <2>1, <2>2
<1> QED
  BY <1>1, <1>6, <1>7, <1>8

LEMMA YoungLeadsDown ==
    ASSUME Stamp \cap Age = {}, NEW d \in Device
    PROVE  Spec /\ []GuardsSuffice => LeadsDown(Young(d), Due(d) \/ ~Calm(d))
<1> SUFFICES ASSUME NEW k \in Nat
             PROVE  Spec /\ []GuardsSuffice =>
                      ((Young(d) = k) ~> ((Due(d) \/ ~Calm(d)) \/ Young(d) < k))
  BY DEF LeadsDown
<1> DEFINE G == (Due(d) \/ ~Calm(d)) \/ Young(d) < k
<1>1. Inv /\ Young(d) = k /\ [Next]_vars => (Young(d) = k)' \/ G' \/ G
  BY YoungShrinks
<1>2. Inv /\ Young(d) = k /\ <<Tick>>_vars => G' \/ G
  BY YoungShrinks DEF Next
<1>3. Inv /\ GuardsSuffice => G \/ ENABLED <<Tick>>_vars
  <2> SUFFICES ASSUME Inv, GuardsSuffice, Calm(d), ~Due(d)
               PROVE  ENABLED <<Tick>>_vars
    OBVIOUS
  <2>1. rows[d] \in Row /\ rows[d] # None
    BY DEF Inv, TypeOK, Calm, Eligible, Selected
  <2>2. rows[d].seen \in Seen \ {Naive, Ahead, None, Interval}
    BY <2>1 DEF Calm, Eligible, Due, Row
  <2>3. rows[d].seen \in 0 .. Interval - 1
    BY <2>2, SchedulerAssumption DEF Seen
  <2> QED
    BY <2>1, <2>3 DEF GuardsSuffice, Inv
<1> QED
  BY <1>1, <1>2, <1>3, Invariance, PTL DEF Spec, Fairness

\* d is in the snapshot the pass works on and has not had its turn.
Listed(d) == todo # None /\ d \in todo

\* A pass that finds every last_seen readable takes up every device that is due.
LEMMA WakeLists ==
    ASSUME NEW d \in Device, Wake, Due(d), Readable
    PROVE  Listed(d)'
BY SchedulerAssumption DEF Wake, Listed, Readable

\* What is in the snapshot leaves it by its collection and in no other way.
LEMMA StaysListed ==
    ASSUME Inv, NEW d \in Device, [Next]_vars, Calm(d), Calm(d)', Listed(d)
    PROVE  Listed(d)'
<1>1. Startable(d)
  BY DEF Calm, Eligible, Selected, Startable
<1>2. collecting' # d
  BY DEF Calm, Reached
<1>3. ASSUME NEW e \in Device, Begin(e) \/ Skip(e)
      PROVE  Listed(d)'
  <2>1. d # e
    BY <1>1, <1>2, <1>3 DEF Begin, Skip
  <2>2. todo' = todo \ {e} /\ todo' \in SUBSET Device
    BY <1>3 DEF Begin, Skip, Inv, TypeOK
  <2> QED
    BY <2>1, <2>2, SchedulerAssumption DEF Listed
<1>4. ASSUME todo' = todo PROVE Listed(d)'
  BY <1>4 DEF Listed
<1>5. CASE UNCHANGED vars
  BY <1>4, <1>5 DEF vars
<1>6. CASE Scheduling
  BY <1>3, <1>4, <1>6 DEF Scheduling, Wake, WakeFails, Collect, Finish, EndPass, Listed
<1>7. CASE Tick \/ Request
  BY <1>4, <1>7 DEF Tick, Request, CreateDevice, SwitchDevice, UpdateDevice, DeleteDevice,
                    StartRefresh, EndRefresh
<1> QED
  BY <1>5, <1>6, <1>7 DEF Next

\* A pass begins only when the wait before it is over.
LEMMA WaitsAgain == [Next]_vars /\ todo = None => (todo = None)' \/ wait = 0
<1> SUFFICES ASSUME [Next]_vars, todo = None, wait # 0
             PROVE  todo' = None
  OBVIOUS
<1>1. todo # {}
  BY SchedulerAssumption
<1>2. CASE UNCHANGED vars
  BY <1>2 DEF vars
<1>3. CASE Scheduling
  BY <1>1, <1>3 DEF Scheduling, Collect, Wake, WakeFails, Begin, Skip, Finish, EndPass
<1>4. CASE Tick \/ Request
  BY <1>4 DEF Tick, Request, CreateDevice, SwitchDevice, UpdateDevice, DeleteDevice,
              StartRefresh, EndRefresh
<1> QED
  BY <1>2, <1>3, <1>4 DEF Next

\* The thread takes its snapshot again and again: every pass ends, every wait ends, and
\* the snapshot does not fail every time.
LEMMA WakesForever ==
    ASSUME IsFiniteSet(Device)
    PROVE  Spec /\ []GuardsSuffice /\ Descent(Left, todo = None) /\ Descent(wait, wait = 0)
             => []<><<Wake>>_vars
<1>1. Spec /\ []GuardsSuffice /\ Descent(Left, todo = None) => []<>(todo = None)
  BY EveryPassEnds DEF PassesEnd
<1>2. Spec /\ []GuardsSuffice /\ Descent(wait, wait = 0) => []<>(wait = 0)
  <2>1. Inv => wait \in Nat
    BY SchedulerAssumption DEF Inv, TypeOK
  <2> QED
    BY <2>1, Invariance, WaitLeadsDown, PTL DEF Descent
<1>3. Inv /\ GuardsSuffice /\ todo = None /\ wait = 0 => ENABLED <<Wake>>_vars
  BY DEF Inv, GuardsSuffice
<1> QED
  BY <1>1, <1>2, <1>3, WaitsAgain, Invariance, PTL DEF Spec, Fairness

\* No device is starved: as long as every last_seen can be read, a device that stays
\* enabled is collected again and again.  Stamp holds no ages, as EveryDeviceCollected
\* says.
THEOREM NoDeviceStarves ==
    ASSUME IsFiniteSet(Device), Stamp \cap Age = {}
    PROVE  (/\ Spec
            /\ []GuardsSuffice
            /\ Descent(Left, todo = None)
            /\ Descent(wait, wait = 0)
            /\ \A d \in Device : Descent(Young(d), Due(d) \/ ~Calm(d)))
           => EveryDeviceCollected
<1>1. ASSUME NEW d \in Device
      PROVE  (/\ Spec
              /\ []GuardsSuffice
              /\ Descent(Left, todo = None)
              /\ Descent(wait, wait = 0)
              /\ Descent(Young(d), Due(d) \/ ~Calm(d)))
             => (StaysEligible(d) /\ <>[]Readable => CollectedForever(d))
  <2>1. Spec /\ []GuardsSuffice /\ Descent(Young(d), Due(d) \/ ~Calm(d))
          => []<>(Due(d) \/ ~Calm(d))
    <3>1. Inv => Young(d) \in Nat
      BY YoungType
    <3> QED
      BY <3>1, Invariance, YoungLeadsDown, PTL DEF Descent
  <2>2. Inv /\ [Next]_vars /\ Calm(d) /\ Calm(d)' /\ Due(d) => Due(d)'
    BY DueKept
  <2>3. <<Wake>>_vars /\ Due(d) /\ Calm(d) => Listed(d)'
    BY WakeLists DEF Calm
  <2>4. Inv /\ [Next]_vars /\ Calm(d) /\ Calm(d)' /\ Listed(d) => Listed(d)'
    BY StaysListed
  <2>5. Listed(d) => ~(todo = None)
    BY DEF Listed
  <2>6. Eligible(d) /\ Readable => (Calm(d) \/ (collecting = d \/ d \in manual))
    BY DEF Calm, Reached
  <2>7. Spec /\ []GuardsSuffice /\ Descent(Left, todo = None) => []<>(todo = None)
    BY EveryPassEnds DEF PassesEnd
  <2>8. Spec /\ []GuardsSuffice /\ Descent(Left, todo = None) /\ Descent(wait, wait = 0)
          => []<><<Wake>>_vars
    BY WakesForever
  <2> QED
    BY <2>1, <2>2, <2>3, <2>4, <2>5, <2>6, <2>7, <2>8, Invariance, PTL
       DEF Spec, StaysEligible, CollectedForever
<1> QED
  BY <1>1 DEF EveryDeviceCollected, Readable

===============================================================================

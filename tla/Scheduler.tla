------------------------------ MODULE Scheduler ------------------------------
(***************************************************************************)
(* The background collection thread: CollectionScheduler._loop             *)
(* (scheduler.py) around run_scheduled_collection (monitoring.py).         *)
(*                                                                         *)
(* One daemon thread sleeps, takes one snapshot of the devices, and        *)
(* collects one after the other those the snapshot shows to be due; each   *)
(* collection lasts as long as its SSH session does.  Requests create,     *)
(* change, delete and refresh devices meanwhile.  What a collection does   *)
(* to records and alerts is in module Monitoring; here a device is what    *)
(* the scheduler looks at.                                                 *)
(*                                                                         *)
(* Time is counted in ticks of a unit shorter than any interval.  Ages     *)
(* saturate at the interval: beyond it nothing in the code distinguishes   *)
(* them.                                                                   *)
(***************************************************************************)
EXTENDS Naturals

CONSTANTS
    Device,          \* device ids
    Interval,        \* ticks of collection_interval, at least 30 seconds
    TickInterval,    \* ticks of CollectionScheduler.tick_interval
    Naive,           \* last_seen: an ISO time that has no UTC offset
    Ahead,           \* last_seen: a time that stays in the future
    Stamp,           \* the last_seen values that request bodies are taken to carry
    Malformed,       \* last_seen in a request body: no ISO time at all
    None             \* no row, no last_seen, no pass, nothing collected

VARIABLES
    rows,            \* device -> what the scheduler reads of its row, or None
    wait,            \* ticks left of _stop.wait
    todo,            \* devices of the pass not yet reached; None while waiting
    collecting,      \* the device the thread is collecting, or None
    manual,          \* devices that requests are refreshing
    last             \* history: the last scheduled collection of each device

vars == <<rows, wait, todo, collecting, manual, last>>

ASSUME SchedulerAssumption ==
    /\ Interval \in Nat \ {0}
    /\ TickInterval \in Nat
    /\ {Naive, Ahead, Malformed, None} \cap Nat = {}
    /\ Malformed \notin {Naive, Ahead, None}
    /\ Naive \notin {Ahead, None}
    /\ Ahead # None
    /\ None \notin Device
    /\ \A S \in SUBSET Device : S # None

-------------------------------------------------------------------------------
Age == 0 .. Interval

Seen == Age \cup {Naive, Ahead, None}

\* `disabled` is the status "disabled"; the scheduler ignores the other ones.
Row == [enabled : BOOLEAN, disabled : BOOLEAN, seen : Seen]

ASSUME RowAssumption == None \notin Row /\ Stamp \subseteq Seen \cup {Malformed}

\* Mutant: a last_seen that cannot be parsed is handed on as it is.
ParsedAsGiven(stamp) == stamp

\* _parse_last_seen: None for what it cannot parse.
Parsed(stamp) == IF stamp = Malformed THEN None ELSE stamp

Outcome == {"ok", "collector_error", "other_error"}

\* What a finished collection leaves of the row.  Only a success writes
\* last_seen; both results overwrite the status.  Any other exception (a
\* device that is gone, a store that fails) leaves the row as it was.
Collected(row, outcome) ==
    CASE outcome = "ok" -> [row EXCEPT !.disabled = FALSE, !.seen = 0]
      [] outcome = "collector_error" -> [row EXCEPT !.disabled = FALSE]
      [] OTHER -> row

Selected(d) == rows[d] # None /\ rows[d].enabled /\ ~rows[d].disabled

\* What _collect checks before it connects; it does not look at `enabled`.
Startable(d) == rows[d] # None /\ ~rows[d].disabled

\* Subtracting a time without an offset from utc_now() raises TypeError.
Unreadable(d) == Selected(d) /\ rows[d].seen = Naive

Due(d) == Selected(d) /\ rows[d].seen \in {None, Interval}

\* No scheduled collection of this row, or none since last_seen was changed.
NoHistory == [ago |-> Interval, ok |-> FALSE]

-------------------------------------------------------------------------------
(* The scheduler thread *)

\* The snapshot at the start of a pass.  The devices are visited in the order of
\* their names, which is any order here.  The first unreadable one raises outside
\* the try block of the loop and ends the pass: nothing behind it is reached.
Wake ==
    /\ todo = None
    /\ wait = 0
    /\ \E reached \in SUBSET {d \in Device : Due(d)} :
          /\ (\A d \in Device : ~Unreadable(d)) => \A d \in Device : Due(d) => d \in reached
          /\ todo' = reached
    /\ UNCHANGED <<rows, wait, collecting, manual, last>>

\* The snapshot itself fails; the loop logs that and waits again.
WakeFails ==
    /\ todo = None
    /\ wait = 0
    /\ wait' = TickInterval
    /\ UNCHANGED <<rows, todo, collecting, manual, last>>

\* _collect reads the device again, outside the snapshot of the pass.
Begin(d) ==
    /\ todo # None
    /\ d \in todo
    /\ collecting = None
    /\ Startable(d)
    /\ todo' = todo \ {d}
    /\ collecting' = d
    /\ UNCHANGED <<rows, wait, manual, last>>

\* The device is gone or disabled by now: _collect raises, the loop continues.
Skip(d) ==
    /\ todo # None
    /\ d \in todo
    /\ collecting = None
    /\ ~Startable(d)
    /\ todo' = todo \ {d}
    /\ UNCHANGED <<rows, wait, collecting, manual, last>>

\* Mutant: a success does not store last_seen.
FinishUnstamped(outcome) ==
    /\ collecting # None
    /\ IF rows[collecting] = None
       THEN UNCHANGED <<rows, last>>
       ELSE /\ rows' = [rows EXCEPT ![collecting].disabled = FALSE]
            /\ last' = [last EXCEPT ![collecting] = [ago |-> 0, ok |-> outcome = "ok"]]
    /\ collecting' = None
    /\ UNCHANGED <<wait, todo, manual>>

\* Mutant: the exception of one device ends the pass.
FinishAborting(outcome) ==
    /\ collecting # None
    /\ IF rows[collecting] = None
       THEN UNCHANGED <<rows, last>>
       ELSE /\ rows' = [rows EXCEPT ![collecting] = Collected(@, outcome)]
            /\ last' = [last EXCEPT ![collecting] = [ago |-> 0, ok |-> outcome = "ok"]]
    /\ collecting' = None
    /\ todo' = IF outcome = "other_error" THEN {} ELSE todo
    /\ UNCHANGED <<wait, manual>>

\* Mutant: a device that failed is put back into the pass.
FinishRetrying(outcome) ==
    /\ collecting # None
    /\ IF rows[collecting] = None
       THEN UNCHANGED <<rows, last>>
       ELSE /\ rows' = [rows EXCEPT ![collecting] = Collected(@, outcome)]
            /\ last' = [last EXCEPT ![collecting] = [ago |-> 0, ok |-> outcome = "ok"]]
    /\ collecting' = None
    /\ todo' = IF outcome = "ok" THEN todo ELSE todo \cup {collecting}
    /\ UNCHANGED <<wait, manual>>

Finish(outcome) ==
    /\ collecting # None
    /\ IF rows[collecting] = None
       THEN UNCHANGED <<rows, last>>
       ELSE /\ rows' = [rows EXCEPT ![collecting] = Collected(@, outcome)]
            /\ last' = [last EXCEPT ![collecting] = [ago |-> 0, ok |-> outcome = "ok"]]
    /\ collecting' = None
    /\ UNCHANGED <<wait, todo, manual>>

EndPass ==
    /\ todo = {}
    /\ collecting = None
    /\ todo' = None
    /\ wait' = TickInterval
    /\ UNCHANGED <<rows, collecting, manual, last>>

-------------------------------------------------------------------------------
(* Time *)

Older(age) == IF age \in 0 .. Interval - 1 THEN age + 1 ELSE age

Tick ==
    /\ rows' = [d \in Device |->
                   IF rows[d] = None THEN None
                   ELSE [rows[d] EXCEPT !.seen = Older(@)]]
    /\ last' = [d \in Device |-> [last[d] EXCEPT !.ago = Older(@)]]
    /\ wait' = IF wait > 0 THEN wait - 1 ELSE wait
    /\ UNCHANGED <<todo, collecting, manual>>

-------------------------------------------------------------------------------
(* Requests *)

CreateDevice(d, enabled, disabled, stamp) ==
    /\ rows[d] = None
    /\ rows' = [rows EXCEPT ![d] =
                   [enabled |-> enabled, disabled |-> disabled, seen |-> Parsed(stamp)]]
    /\ last' = [last EXCEPT ![d] = NoHistory]
    /\ UNCHANGED <<wait, todo, collecting, manual>>

\* PATCH of anything but last_seen, the connection and the id.
SwitchDevice(d, enabled, disabled) ==
    /\ rows[d] # None
    /\ rows' = [rows EXCEPT ![d].enabled = enabled, ![d].disabled = disabled]
    /\ UNCHANGED <<wait, todo, collecting, manual, last>>

\* PATCH of last_seen, or of the connection, which clears last_seen, perhaps
\* with a new id.  When another device has that id, one of the two rows stays.
\* A new id alone keeps last_seen: `stamp` is then the one the row has.
UpdateDevice(d, e, enabled, disabled, stamp) ==
    /\ rows[d] # None
    /\ LET row == [enabled |-> enabled, disabled |-> disabled, seen |-> Parsed(stamp)]
       IN \E kept \in {row} \cup (IF e # d THEN {rows[e]} \ {None} ELSE {}) :
             rows' = [rows EXCEPT ![d] = None, ![e] = kept]
    /\ last' = [last EXCEPT ![d] = NoHistory, ![e] = NoHistory]
    /\ UNCHANGED <<wait, todo, collecting, manual>>

DeleteDevice(d) ==
    /\ rows[d] # None
    /\ rows' = [rows EXCEPT ![d] = None]
    /\ last' = [last EXCEPT ![d] = NoHistory]
    /\ UNCHANGED <<wait, todo, collecting, manual>>

\* refresh_device, on a thread of its own, at any time and whatever the interval.
StartRefresh(d) ==
    /\ d \notin manual
    /\ Startable(d)
    /\ manual' = manual \cup {d}
    /\ UNCHANGED <<rows, wait, todo, collecting, last>>

EndRefresh(d, outcome) ==
    /\ d \in manual
    /\ manual' = manual \ {d}
    /\ rows' = IF rows[d] = None THEN rows
               ELSE [rows EXCEPT ![d] = Collected(@, outcome)]
    /\ UNCHANGED <<wait, todo, collecting, last>>

-------------------------------------------------------------------------------
\* The store is what an earlier process left; the first pass is a tick away.
Init ==
    /\ rows \in [Device -> Row \cup {None}]
    /\ wait = TickInterval
    /\ todo = None
    /\ collecting = None
    /\ manual = {}
    /\ last = [d \in Device |-> NoHistory]

Collect ==
    \/ \E d \in Device : Begin(d) \/ Skip(d)
    \/ \E outcome \in Outcome : Finish(outcome)
    \/ EndPass

Scheduling == Wake \/ WakeFails \/ Collect

Request ==
    \E d \in Device :
        \/ \E enabled, disabled \in BOOLEAN :
              \/ SwitchDevice(d, enabled, disabled)
              \/ \E stamp \in Stamp :
                    \/ CreateDevice(d, enabled, disabled, stamp)
                    \/ \E e \in Device : UpdateDevice(d, e, enabled, disabled, stamp)
        \/ DeleteDevice(d)
        \/ StartRefresh(d)
        \/ \E outcome \in Outcome : EndRefresh(d, outcome)

Next == Scheduling \/ Tick \/ Request

\* Time passes; the thread runs, and an SSH session ends, by its timeout if not
\* otherwise; the snapshot may fail, but not every time.
Fairness ==
    /\ WF_vars(Tick)
    /\ WF_vars(Collect)
    /\ SF_vars(Wake)

Spec == Init /\ [][Next]_vars /\ Fairness

-------------------------------------------------------------------------------
(* Properties *)

\* The types of the variables; in particular no row holds a last_seen that the
\* scheduler could not tell apart from None.
TypeOK ==
    /\ rows \in [Device -> Row \cup {None}]
    /\ wait \in 0 .. TickInterval
    /\ todo # None => todo \in SUBSET Device
    /\ collecting \in Device \cup {None}
    /\ manual \subseteq Device
    /\ last \in [Device -> [ago : Age, ok : BOOLEAN]]

\* A device whose last scheduled collection succeeded is not collected by the
\* scheduler again before its interval has passed, although the pass works on an
\* old snapshot, each collection takes any time, and refreshes, deletions and
\* edits of the device run between the snapshot and its turn.
ScheduledSpacing ==
    [][\A d \in Device : (last[d].ok /\ Begin(d)) => last[d].ago = Interval]_vars

\* The interval bounds the scheduled collections of a device, whatever their
\* outcome ("collected no more often than its own collection_interval").
IntervalRespected ==
    [][\A d \in Device : Begin(d) => last[d].ago = Interval]_vars

Eligible(d) == Selected(d) /\ rows[d].seen \notin {Naive, Ahead}

StaysEligible(d) == <>[]Eligible(d)

CollectedForever(d) == []<>(collecting = d \/ d \in manual)

\* Every pass ends, and with it comes a new look at the devices: devices that fail
\* each time, vanish, or become due or eligible anew while it goes on do not
\* prolong it.
PassesEnd == []<>(todo = None)

\* As long as every last_seen can be read, no device is starved: one that stays
\* enabled is collected again and again, although other devices are slow, fail
\* or disappear during their collection, and a single thread collects them all.
\* It assumes a Stamp without ages: requests that write a recent last_seen over
\* and over, or rename such rows to this device's id, would postpone it each time.
EveryDeviceCollected ==
    \A d \in Device :
        (StaysEligible(d) /\ <>[](\A e \in Device : ~Unreadable(e))) => CollectedForever(d)

\* The same whatever the other devices are like: "Errors per device are
\* swallowed so one failure does not stop the rest" (run_scheduled_collection).
OneFailureDoesNotStopTheRest ==
    \A d \in Device : StaysEligible(d) => CollectedForever(d)
===============================================================================

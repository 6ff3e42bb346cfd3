------------------------------ MODULE AlertBoard ------------------------------
(***************************************************************************)
(* What the alert table promises to the people who read it: each device    *)
(* shows the open alerts of its last collection, less those an operator    *)
(* has resolved since.  A collection gives one verdict about a device:     *)
(* either it was reached and some thresholds were exceeded, or it was      *)
(* unreachable, or the collection itself went wrong; so an availability    *)
(* alert is never open beside a threshold alert.                           *)
(*                                                                         *)
(* This is the abstract specification that Monitoring implements.          *)
(***************************************************************************)

CONSTANTS Device,         \* the devices that may be monitored
          ThresholdCode   \* alert codes of metrics above their threshold

VARIABLE open             \* device -> codes of its open alerts

(***************************************************************************)
(* What one collection can say about a device.                             *)
(***************************************************************************)
Verdict == (SUBSET ThresholdCode) \cup {{"device_offline"}, {"collection_failed"}}

Init == open = [d \in Device |-> {}]

\* A collection of d ends: its verdict replaces whatever was open before.
\* Deleting the device is the empty verdict.
Report(d, verdict) == open' = [open EXCEPT ![d] = verdict]

\* An operator resolves one open alert.
Resolve(d, c) ==
    /\ c \in open[d]
    /\ open' = [open EXCEPT ![d] = @ \ {c}]

Next ==
    \E d \in Device :
        \/ \E verdict \in Verdict : Report(d, verdict)
        \/ \E c \in open[d] : Resolve(d, c)

Spec == Init /\ [][Next]_open

-------------------------------------------------------------------------------

\* The open alerts of a device are part of a single verdict: a device is never
\* shown as offline and as running hot at the same time.
OneVerdict ==
    \A d \in Device : \E verdict \in Verdict : open[d] \subseteq verdict

===============================================================================

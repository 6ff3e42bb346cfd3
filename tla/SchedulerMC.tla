----------------------------- MODULE SchedulerMC -----------------------------
(***************************************************************************)
(* Values of Stamp for TLC.                                                *)
(***************************************************************************)
EXTENDS Scheduler

\* Everything a body may carry in last_seen.
AnyStamp == Seen \cup {Malformed}

\* What makes a device due again, and what stops a pass.
FewStamps == {Malformed, Naive}
===============================================================================

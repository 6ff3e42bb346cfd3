-------------------------------- MODULE Session --------------------------------
(***************************************************************************)
(* What a caller of CollectorService.collect counts on: the call returns,  *)
(* once, with one of four results.  MonitoringService applies the result   *)
(* (Monitoring.tla) and the scheduler's only thread waits for it           *)
(* (Scheduler.tla).                                                        *)
(***************************************************************************)
CONSTANT Running   \* the call has not returned

VARIABLE result

\* A CollectionResult is healthy or a warning; a CollectorError is critical or a
\* warning.
Results ==
    [ok : {TRUE}, status : {"healthy", "warning"}]
        \cup [ok : {FALSE}, status : {"critical", "warning"}]

Init == result = Running

Return ==
    /\ result = Running
    /\ result' \in Results

Safety == Init /\ [][Return]_result

Spec == Safety /\ WF_result(Return)

===============================================================================

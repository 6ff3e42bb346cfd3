CONSTANTS
    Thread = {t1, t2}
    User = {root, op}
    FirstAdmin = root
    NewRole = "auditor"
    Tried = {op}
    Given = {"auditor", "admin"}
    Route = {"users", "cleanup", "devices"}
    Idle = Idle
    Limit = 1
    Window = 1
    Cooldown = 1
    MaxLogs = 2
    AuditAge = 0
    MaxRequests = 3
    MaxFaults = 1
    MaxTime = 1

SPECIFICATION Spec

INVARIANT TypeOK
INVARIANT ChangesTraced
INVARIANT RequestsAccounted
INVARIANT ChangesPermitted
INVARIANT AuditIdsDistinct
INVARIANT LossExplained
INVARIANT ThrottleBounds
PROPERTY EveryRequestEnds

CHECK_DEADLOCK FALSE

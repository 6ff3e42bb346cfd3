CONSTANTS
    DeviceId = {d1, d2}
    GroupId = {ungrouped}
    GroupName = {unnamed}
    Ungrouped = ungrouped
    UngroupedName = unnamed
    Conn = {c1}
    ThresholdCode = {"disk_high"}
    Worker = {w1}
    DevicePatch <- RenamesAndSwitches
    MaxRecords = 2
    MaxRecordId = 3
    None = None

SPECIFICATION Spec

INVARIANT TypeOK
INVARIANT ActiveAlertsExplained

PROPERTY EvidenceKept
PROPERTY DeletedStaysDeleted

CONSTANTS
    DeviceId = {d1}
    GroupId = {ungrouped}
    GroupName = {unnamed}
    Ungrouped = ungrouped
    UngroupedName = unnamed
    Conn = {c1, c2}
    ThresholdCode = {"cpu_high", "disk_high"}
    Worker = {w1, w2}
    DevicePatch <- SwitchesAndRepoints
    MaxRecords = 2
    MaxRecordId = 3
    None = None

SPECIFICATION Spec

PROPERTY StatusMatchesAlerts
 
PROPERTY ImplementsBoard

CONSTANTS
    DeviceId = {d1, d2}
    GroupId = {ungrouped, g1, g2}
    GroupName = {unnamed, n1}
    Ungrouped = ungrouped
    UngroupedName = unnamed
    Conn = {c1}
    ThresholdCode = {}
    Worker = {w1}
    DevicePatch <- RenamesAndMoves
    MaxRecords = 1
    MaxRecordId = 1
    None = None

SPECIFICATION Spec

INVARIANT RequestsAccepted

PROPERTY GroupChangesKeepDevices

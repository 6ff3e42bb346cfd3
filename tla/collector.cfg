CONSTANTS
    d1 = d1
    Drive <- MCDrive
    Case <- MCCase
    MaxRetries = 1
    MaxLost = 1
    Running = Running

SPECIFICATION Spec

INVARIANT TypeOK
INVARIANT VerdictFollowsAnswers
INVARIANT ShownToolsApply
INVARIANT EffortBounded

PROPERTY ImplementsSession

CHECK_DEADLOCK FALSE

SPECIFICATION Spec
CONSTANTS
    Device = {d1, d2}
    Interval = 2
    TickInterval = 1
    Naive = Naive
    Ahead = Ahead
    Malformed = Malformed
    None = None
    Stamp <- AnyStamp
PROPERTY IntervalRespected

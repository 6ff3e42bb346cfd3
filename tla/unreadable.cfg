SPECIFICATION Spec
CONSTANTS
    Device = {d1, d2}
    Interval = 1
    TickInterval = 0
    Naive = Naive
    Ahead = Ahead
    Malformed = Malformed
    None = None
    Stamp <- FewStamps
PROPERTY OneFailureDoesNotStopTheRest

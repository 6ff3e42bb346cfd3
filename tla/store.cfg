SPECIFICATION Spec
CONSTANTS
    None = None
    Id <- MCId
    Row <- MCRow
    Change <- MCChange
    DefaultGroup <- MCDefault
    Instance = {s1, s2}
    File <- MCFile
    ConfigKey = {"started_at", "metrics"}
INVARIANTS
    TypeOK
    ServesPrepared
    StatementsFit
    FileSound
PROPERTIES
    ImplementsAtomicStore
    EveryCallReturns

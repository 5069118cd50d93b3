SPECIFICATION PgSpec
CONSTANTS
    h1 = h1
    h2 = h2
    cpu = cpu
    v = v
    Handlers = {h1, h2}
    Names = {cpu}
    GaugeValues = {v}
    NonFinite = {}
    HalfRange = 1
    Requests <- MCRequests
    PoolSizes = {1, 2}
    retryCount = 1
    MaxFaults = 2
INVARIANTS
    PgTypeOK
    WrittenIsCurrent
    TookAtMostTried
PROPERTIES
    RetriedLinearizable
    EveryPgCallReturns
CHECK_DEADLOCK TRUE

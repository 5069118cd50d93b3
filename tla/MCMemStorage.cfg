SPECIFICATION MemSpec
CONSTANTS
    h1 = h1
    h2 = h2
    cpu = cpu
    low = low
    high = high
    Handlers = {h1, h2}
    Threads = {h1, h2}
    Names = {cpu}
    GaugeValues = {low, high}
    NonFinite = {}
    HalfRange = 2
    Requests <- MCRequests
    MaxVersions = 4
INVARIANTS
    MemTypeOK
    DumpIsAtomic
    BatchIsCurrent
PROPERTIES
    Linearizable
    EveryCallReturns
CHECK_DEADLOCK TRUE

SPECIFICATION FileSpec
CONSTANTS
    h1 = h1
    h2 = h2
    saver = saver
    cpu = cpu
    low = low
    high = high
    NaN = NaN
    Names = {cpu}
    Preserver = saver
    HalfRange = 2
    Restore = TRUE
    Handlers = {h1}
    Threads = {h1, saver}
    GaugeValues = {low, high, NaN}
    NonFinite = {NaN}
    Requests <- AllRequests
    StoreInterval = 300
    MaxVersions = 3
    MaxFaults = 1
    MaxRestarts = 1
INVARIANTS
    FileTypeOK
    FileIsCommitted
PROPERTIES
    SavesCurrent
    EveryVersionIsStored
    EveryFileCallReturns

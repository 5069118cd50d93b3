SPECIFICATION FileSpec
CONSTANTS
    h1 = h1
    h2 = h2
    saver = saver
    cpu = cpu
    low = low
    high = high
    NaN = NaN
    Names = {cpu}
    Preserver = saver
    HalfRange = 2
    Restore = TRUE
    Handlers = {h1}
    Threads = {h1, saver}
    GaugeValues = {low, NaN}
    NonFinite = {NaN}
    Requests <- NaNRequests
    StoreInterval = 300
    MaxVersions = 2
    MaxFaults = 0
    MaxRestarts = 0
INVARIANTS
    ExitStoreRestorable
CHECK_DEADLOCK FALSE

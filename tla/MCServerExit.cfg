SPECIFICATION ServerSpec
CONSTANTS
    h1 = h1
    h2 = h2
    saver = saver
    cpu = cpu
    low = low
    high = high
    Names = {cpu}
    GaugeValues = {low, high}
    NonFinite = {}
    HalfRange = 2
    Handlers = {h1}
    Threads = {h1, saver}
    Requests <- ServerRequests
    Preserver = saver
    StoreInterval = 300
    Restore = TRUE
    MaxVersions = 3
    MaxFaults = 1
    MaxRestarts = 0
CHECK_DEADLOCK TRUE
INVARIANTS
    AckedStored

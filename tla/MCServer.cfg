SPECIFICATION ServerSpec
CONSTANTS
    h1 = h1
    h2 = h2
    saver = saver
    cpu = cpu
    low = low
    high = high
    Names = {cpu}
    GaugeValues = {low, high}
    NonFinite = {}
    HalfRange = 2
    Handlers = {h1, h2}
    Threads = {h1, h2, saver}
    Requests <- IncrementOnly
    Preserver = saver
    StoreInterval = 300
    Restore = TRUE
    MaxVersions = 2
    MaxFaults = 1
    MaxRestarts = 0
CHECK_DEADLOCK TRUE
INVARIANTS
    ServerTypeOK
    AckedBeforeCancelStored
    RequestsAreDrained
PROPERTIES
    ShutdownTerminates

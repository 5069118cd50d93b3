SPECIFICATION ExchangeSpec
CONSTANTS
    cpu = cpu
    v = v
    nan = nan
    None = None
    Names = {cpu}
    GaugeValues = {v, nan}
    NonFinite = {nan}
    HalfRange = 4
    Inputs <- MCInputs
    Reports <- MCReports
    BlockSize = 1
    retryCount = 2
    ClientRequests <- MCClientRequests
CHECK_DEADLOCK FALSE
INVARIANTS
    ExchangeTypeOK
    PriorityHolds
    StatusTellsEffect
    AnswerReadable
    SignatureVerifies
    AgentIsUnderstood
    ForeignReportRefused

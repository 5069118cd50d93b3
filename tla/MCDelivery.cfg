SPECIFICATION DeliverySpec
CONSTANTS
    r1 = r1
    r2 = r2
    Reporters = {r1, r2}
    retryCount = 2
    MaxPolls = 2
    MaxReports = 2
INVARIANTS
    DeliveryTypeOK
    SucceededIsApplied
    AppliedAtMostAttempted
PROPERTIES
    OnlyOvertakenSetsBack
    EveryReportEnds
CHECK_DEADLOCK FALSE

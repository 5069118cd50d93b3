SPECIFICATION AgentSpec
CONSTANTS
    Pollers <- MCPollers
    Counting = {"runtime"}
    Fallible <- MCFallible
    RateLimits = {0, 2}
    MaxPolls = 2
INVARIANTS
    AgentTypeOK
    ReportsAreWholePolls
PROPERTIES
    TakenInOrder
    EveryPollIsTaken
    AgentTerminates
CHECK_DEADLOCK TRUE

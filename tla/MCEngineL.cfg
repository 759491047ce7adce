CONSTANTS
    e1 = e1
    e2 = e2
    r1 = r1
    NSteps = 1
    Engine <- MCEngine2
    Resumer <- NoResumer
    None = None
    Unit <- MCUnit
    Outcome <- MCOutcome
    Gated <- FirstStep
    Tolerant <- NoSteps
    MaxLoops = 1
    MaxRetry = 0
    MaySuspend = TRUE
    MayAbandon = TRUE
SPECIFICATION FairSpec
CHECK_DEADLOCK FALSE
PROPERTIES EngineStops EndedEngineFreesRun

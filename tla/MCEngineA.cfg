CONSTANTS
    e1 = e1
    e2 = e2
    r1 = r1
    NSteps = 1
    Engine <- MCEngine2
    Resumer <- MCResumer
    None = None
    Unit <- MCUnit
    Outcome <- MCOutcome
    Gated <- FirstStep
    Tolerant <- NoSteps
    MaxLoops = 2
    MaxRetry = 0
    MaySuspend = TRUE
    MayAbandon = TRUE
SPECIFICATION Spec
CHECK_DEADLOCK FALSE
SYMMETRY EngineSymmetry
INVARIANTS EngineTypeOK OnlyLatestRunning ProjectionIsLatest AcceptedGateMeansCompleted
PROPERTIES GateNeverBypassed FinishedAttemptIsFinal

CONSTANTS
    e1 = e1
    e2 = e2
    r1 = r1
    NSteps = 2
    Engine <- MCEngine2
    Resumer <- MCResumer
    None = None
    Unit <- MCUnit
    Outcome <- MCOutcome
    Gated <- FirstStep
    Tolerant <- SecondStep
    MaxLoops = 2
    MaxRetry = 1
    MaySuspend = FALSE
    MayAbandon = FALSE
SPECIFICATION Spec
CHECK_DEADLOCK FALSE
SYMMETRY EngineSymmetry
INVARIANTS NoConcurrentDispatch DispatchAtCurrentStep
PROPERTIES CompletedRowIsKept PromotedArtifactIsJournaled EngineWorkIsBounded

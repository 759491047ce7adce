CONSTANTS
    e1 = e1
    e2 = e2
    r1 = r1
    r2 = r2
    None = None
    NSteps = 1
    Engine <- TwoEngines
    Resumer <- OneResumer
    Unit <- MCUnit
    Outcome <- Usage
    NUnits = 1
    Plain <- MCUnit
    Width = 1
    MaxUnits = 1
    MaxTokens = 2
    MaxRetry = 0
    Tolerant <- NoStepAtAll
SYMMETRY EngineSymmetry
SPECIFICATION ChildSpec
CHECK_DEADLOCK FALSE
PROPERTIES NoEarlierThanUninterrupted

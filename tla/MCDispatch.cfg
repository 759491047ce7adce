CONSTANTS
    e1 = e1
    e2 = e2
    r1 = r1
    r2 = r2
    None = None
    NSteps = 2
    Engine <- TwoEngines
    Resumer <- OneResumer
    Unit <- MCUnit
    Outcome <- Usage
    NUnits = 2
    Plain <- TwoPlain
    Width = 2
    MaxUnits = 2
    MaxTokens = 1
    MaxRetry = 1
    Tolerant <- FirstStep
SYMMETRY EngineSymmetry
SPECIFICATION ChildSpec
CHECK_DEADLOCK FALSE
INVARIANTS ChildTypeOK UnitCeiling BudgetKnowsJournal OneChildPerUnit StepNeedsItsChildren InvocationNeverStuck
PROPERTIES NoUnitPassedOver

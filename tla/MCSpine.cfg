CONSTANTS
    NSteps = 3
    e1 = e1
    e2 = e2
    r1 = r1
    r2 = r2
    Engine <- TwoEngines
    Resumer <- OneResumer
    None = None
SPECIFICATION SpineSpec
CHECK_DEADLOCK FALSE
INVARIANTS SpineTypeOK RunStatusMatchesSpine SpineInOrder CursorSplitsSpine ResumeReadIsFresh
PROPERTIES FinishedStepIsFinal CompletedRunIsFinal ImplementsLifecycle

CONSTANTS
    NSteps = 2
    e1 = e1
    e2 = e2
    r1 = r1
    r2 = r2
    Engine <- TwoEngines
    Resumer <- TwoResumers
    None = None
SPECIFICATION SpineSpec
CHECK_DEADLOCK FALSE
INVARIANT RunStatusMatchesSpine

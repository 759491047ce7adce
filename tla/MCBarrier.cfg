CONSTANTS
    p1 = p1
    p2 = p2
    p3 = p3
    t1 = t1
    t2 = t2
    t3 = t3
    t4 = t4
    t5 = t5
    t6 = t6
    t7 = t7
    t8 = t8
    None = None
    Process <- TwoProcesses
    Token <- FiveTokens
    Blind <- NobodyBlind
    AgeBound = TRUE
    MaxCrashes = 2
SPECIFICATION FairLockSpec
PROPERTIES TakenByRight LeftSentinelGoes

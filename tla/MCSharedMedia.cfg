SPECIFICATION FairSpec
CHECK_DEADLOCK FALSE
CONSTANTS
    Top = 5
    LimitBefore = 1
    LimitAfter = 1
    Seed = 3
    Limit = 2
    Keys = {0, 2}
    InOrder = TRUE
    LateAnswers = FALSE
    MaxNews = 1
    MaxDeletes = 1
    MaxClears = 1
    MaxSkips = 1
    MaxFails = 1
    MaxOpens = 2
INVARIANT NothingMissed
 
INVARIANT SlicesApart
PROPERTY EventuallySettled

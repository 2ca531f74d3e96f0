SPECIFICATION FairSpec
CHECK_DEADLOCK FALSE
CONSTANTS
    w1 = w1
    v1 = v1
    e1 = e1
    t1 = t1
    t2 = t2
    Timed = {w1}
    OnEvent = {v1}
    Event = {e1}
    Turn = {t1, t2}
    Limits = {2}
    FailPause = 1
    EventTries = 2
    ResumeMax = 1
    MaxTicks = 2
    MaxAsks = 1
    MaxFaults = 2
    MaxUpsets = 3
INVARIANTS
    TypeOK
    RunAlone
    NewsKept
    PauseStays
    EventOnce
    WorkWatched
PROPERTIES
    DueRuns

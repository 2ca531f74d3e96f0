SPECIFICATION FairSpec
CHECK_DEADLOCK FALSE
CONSTANTS
    m1 = m1
    m2 = m2
    s1 = s1
    Session = {s1}
    Msg = {m1, m2}
    MaxCards = 2
    MaxInputs = 2
    MaxSteps = 1
    MaxLate = 1
    MaxCalls = 1
    ResumeMax = 1
    MaxResets = 1
    MaxParks = 1
    Routing = FALSE
    Engine = "classic"
INVARIANTS
    ResumesBounded
PROPERTIES
    EveryCardEnds

SPECIFICATION Spec
CHECK_DEADLOCK FALSE
SYMMETRY MsgSymmetry
CONSTANTS
    m1 = m1
    m2 = m2
    m3 = m3
    s1 = s1
    Session = {s1}
    Msg = {m1, m2, m3}
    MaxCards = 2
    MaxInputs = 2
    MaxSteps = 2
    MaxLate = 1
    MaxCalls = 1
    ResumeMax = 1
    MaxResets = 1
    MaxParks = 0
    Routing = FALSE
    Engine = "classic"
PROPERTIES
    StopIsFinal

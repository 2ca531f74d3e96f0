SPECIFICATION Spec
CHECK_DEADLOCK FALSE
SYMMETRY MsgSymmetry
CONSTANTS
    m1 = m1
    m2 = m2
    m3 = m3
    m4 = m4
    s1 = s1
    Session = {s1}
    Msg = {m1, m2, m3, m4}
    MaxCards = 3
    MaxInputs = 2
    MaxSteps = 2
    MaxLate = 1
    MaxCalls = 2
    ResumeMax = 1
    MaxResets = 0
    MaxParks = 0
    Routing = TRUE
    Engine = "pi"
INVARIANTS
    SteersReach
    EndedHasRow
PROPERTIES
    InOrder
    StopIsFinal
    NoToolAfterStop

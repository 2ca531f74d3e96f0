SPECIFICATION Spec
CHECK_DEADLOCK FALSE
SYMMETRY CallSymmetry
CONSTANTS
    c1 = c1
    c2 = c2
    p1 = p1
    p2 = p2
    Call = {c1, c2}
    Payload = {p1, p2}
    MaxCards = 2
    MaxTaps = 2
    MaxResets = 1
INVARIANTS
    TypeOK
    OneYesOneRun
    AnswerReaches
    OnceIsSpent
PROPERTIES
    FirstAnswerStands

SPECIFICATION FairSpec
CHECK_DEADLOCK FALSE
CONSTANTS
    Calls = 4
    Kind <- AnswerMixed
    Engine = "pi"
    MaxResets = 2
INVARIANTS
    TypeOK
    ActsOnce
    ResultsTrue
    ConfirmedFirst
PROPERTIES
    KeepsPromise
    CallsEnd

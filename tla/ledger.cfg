SPECIFICATION Spec
CHECK_DEADLOCK FALSE
CONSTANTS
    a = a
    x = x
    r1 = r1
    m1 = m1
    m2 = m2
    t1 = t1
    Calls = {a, x}
    Listed = {a}
    Residents = {r1}
    Home <- HomeOf
    Worst <- WorstOf
    Costs = {1, 3}
    Invoices = {m1, m2, t1}
    First = m1
    Paid <- PaidFor
    DayCap = 2
    MaxResets = 1
INVARIANTS
    TypeOK
    ChargesAreTrue
    NoHoldForgotten
    TotalsTrue
PROPERTIES
    NoOverspend
    DayLimit
    KeepsPurse

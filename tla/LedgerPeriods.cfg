SPECIFICATION Spec
CONSTANTS
    Employees = {e1}
    Requests = {r1, r2}
    SessionIds = {s1, s2}
    CorrectionIds = {}
    Keys = {}
    Ops = {"CHECK_IN", "CHECK_OUT", "RECALCULATE", "MATERIALIZE", "CLOSE", "REOPEN"}
    Fields = {}
    LastTime = 3
    LastDate = 2
    MaxBreakEvents = 2
    DateOf <- TwoMonthsDateOf
    MonthOf <- TwoMonthsMonthOf
    ExpectedEnd <- NightShift
    None = None
SYMMETRY Symmetry
INVARIANTS
    TypeOK
    ClosedPeriodHasNoOpenSession
PROPERTIES
    ClosedPeriodFrozen

SPECIFICATION Spec
CONSTANTS
    Employees = {e1}
    Requests = {r1}
    SessionIds = {s1}
    CorrectionIds = {c1}
    Keys = {}
    Ops = {"CHECK_IN", "BREAK_START", "BREAK_END", "REQUEST", "APPROVE"}
    Fields = {"BREAK_END"}
    LastTime = 3
    LastDate = 2
    MaxBreakEvents = 2
    DateOf <- TwoMonthsDateOf
    MonthOf <- TwoMonthsMonthOf
    ExpectedEnd <- NoShift
    None = None
INVARIANTS
    EveryOpenBreakCanEnd
